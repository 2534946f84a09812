----------------------- MODULE UpfSessionTable_proofs -----------------------
(***************************************************************************)
(* Proofs about UpfSessionTable, for every number of keys, entries and      *)
(* deferred positions.                                                     *)
(*                                                                         *)
(* The inductive invariant adds to the safety properties: what the two      *)
(* halves of the hash say of a key (StoreInv), what the API thread has in   *)
(* hand (ApiInv), which slots are stamped and active (PoolInv), how much of *)
(* the grace of the position a packet holds is left (GraceInv), and that    *)
(* the sessions are counted (CountInv).                                    *)
(***************************************************************************)
EXTENDS UpfSessionTable, FiniteSets, FiniteSetTheorems, SequenceTheorems, TLAPS

StoreInv ==
    /\ \A k \in Key, p \in Position : <<k, p>> \in bucket => store[p] = k
    /\ \A k \in Key, p, q \in Position :
          <<k, p>> \in bucket /\ <<k, q>> \in bucket => p = q

Busy(p) == api.pc # "idle" /\ api.pos = p

ApiInv ==
    /\ api.pc # "idle" => /\ api.key \in Key /\ api.pos \in Position
                          /\ <<api.key, api.pos>> \in bucket
    /\ api.pc \in {"fill", "activate"} => count < Entries

PoolInv ==
    /\ \A p \in Position : pool[p].active => p \in Linked /\ ~Busy(p)
    /\ \A k \in Key, p \in Position :
          <<k, p>> \in bucket => /\ pool[p].owner = k \/ (api.pc = "fill" /\ api.pos = p)
                                 /\ pool[p].active \/ Busy(p)

\* The deletions made since entry i of the ring was written, when d is next.
Elapsed(i, d) == IF i < d THEN d - 1 - i ELSE (d + Depth) - 1 - i

StillLinked ==
    /\ <<packet.key, packet.pos>> \in bucket
    /\ packet.pc = "using" => ~(api.pc = "fill" /\ api.pos = packet.pos)

StillHeld ==
    \E i \in Index :
        /\ deferred[i] = packet.pos
        /\ packet.deletions >= 1 + Elapsed(i, deferredIdx)
        /\ pool[packet.pos] = [owner |-> packet.key, active |-> FALSE]

GraceInv ==
    packet.pc # "idle" =>
        /\ packet.key \in Key /\ packet.pos \in Position
        /\ packet.deletions <= Depth => StillLinked \/ StillHeld

CountInv ==
    Cardinality(Linked) = IF api.pc \in {"fill", "activate"} THEN count + 1 ELSE count

IInv == /\ TypeOK /\ PositionsConserved /\ StoreInv /\ ApiInv /\ PoolInv /\ GraceInv
        /\ CountInv
-----------------------------------------------------------------------------
(* The ring of free positions.                                             *)

Elems(s) == {s[i] : i \in DOMAIN s}
Distinct(s) == \A i, j \in DOMAIN s : s[i] = s[j] => i = j

LEMMA TailOfDistinct ==
  ASSUME NEW s \in Seq(Position), Distinct(s), s # <<>>
  PROVE  /\ Head(s) \in Position /\ Tail(s) \in Seq(Position)
         /\ Distinct(Tail(s))
         /\ Elems(Tail(s)) = Elems(s) \ {Head(s)}
         /\ Head(s) \in Elems(s)
<1> DEFINE t == Tail(s)
<1>1. /\ Head(s) \in Position /\ t \in Seq(Position) /\ Len(t) = Len(s) - 1
      /\ \A i \in 1..Len(t) : t[i] = s[i + 1]
      /\ Len(s) \in Nat \ {0} /\ DOMAIN s = 1..Len(s) /\ DOMAIN t = 1..Len(t)
  BY HeadTailProperties, EmptySeq, LenProperties
<1>2. Head(s) = s[1]
  OBVIOUS
<1> HIDE DEF t
<1>3. Distinct(t)
  <2>1. SUFFICES ASSUME NEW i \in 1..Len(t), NEW j \in 1..Len(t), t[i] = t[j]
                 PROVE  i = j
    BY <1>1 DEF Distinct
  <2>2. i + 1 \in DOMAIN s /\ j + 1 \in DOMAIN s /\ s[i + 1] = s[j + 1]
    BY <1>1, <2>1
  <2>3. i + 1 = j + 1
    BY <2>2 DEF Distinct
  <2> QED BY <2>3, <1>1
<1>4. Elems(t) = Elems(s) \ {Head(s)}
  <2>1. ASSUME NEW i \in 1..Len(t) PROVE t[i] \in Elems(s) /\ t[i] # Head(s)
    <3>1. i + 1 \in DOMAIN s /\ 1 \in DOMAIN s /\ i + 1 # 1 /\ t[i] = s[i + 1]
      BY <1>1
    <3> QED BY <3>1, <1>2 DEF Distinct, Elems
  <2>2. ASSUME NEW i \in 1..Len(s), s[i] # Head(s) PROVE s[i] \in Elems(t)
    <3>1. i # 1
      BY <2>2, <1>2
    <3>2. i - 1 \in 1..Len(t) /\ t[i - 1] = s[(i - 1) + 1] /\ (i - 1) + 1 = i
      BY <3>1, <1>1
    <3> QED BY <3>2, <1>1 DEF Elems
  <2> QED BY <2>1, <2>2, <1>1 DEF Elems
<1> QED BY <1>1, <1>2, <1>3, <1>4 DEF t, Elems

\* A ring that lacks a position has room for it.
LEMMA RoomForMissing ==
  ASSUME NEW s \in Seq(Position), Distinct(s), NEW p \in Position, p \notin Elems(s)
  PROVE  Len(s) < RingRoom
<1> DEFINE rest == Position \ {p}
<1>1. Entries \in Nat /\ RingRoom \in Nat /\ RingRoom >= Entries /\ Entries # 0
  BY EntriesAssumption, RoomAssumption
<1>2. IsFiniteSet(Position) /\ Cardinality(Position) = Entries
  BY <1>1, FS_Interval DEF Position
<1>3. IsFiniteSet(rest) /\ Cardinality(rest) = Entries - 1
  BY <1>2, FS_RemoveElement
<1>4. Len(s) \in Nat /\ s \in [1..Len(s) -> Position] /\ DOMAIN s = 1..Len(s)
  BY LenProperties
<1>5. s \in [1..Len(s) -> rest]
  BY <1>4 DEF Elems
<1>6. IsFiniteSet(1..Len(s)) /\ Cardinality(1..Len(s)) = Len(s)
  BY <1>4, FS_Interval
<1>7. ~(Cardinality(rest) < Cardinality(1..Len(s)))
  <2>1. ASSUME Cardinality(rest) < Cardinality(1..Len(s)) PROVE FALSE
    <3>1. \E x, y \in 1..Len(s) : x # y /\ s[x] = s[y]
      BY <2>1, <1>3, <1>5, <1>6, FS_PigeonHole
    <3> QED BY <3>1, <1>4 DEF Distinct
  <2> QED BY <2>1
<1> QED BY <1>1, <1>3, <1>4, <1>6, <1>7

\* No position is lost at the ring.
LEMMA EnqueueMissing ==
  ASSUME NEW s \in Seq(Position), Distinct(s), NEW p \in Position, p \notin Elems(s)
  PROVE  /\ Enqueue(s, p) \in Seq(Position)
         /\ Distinct(Enqueue(s, p))
         /\ Elems(Enqueue(s, p)) = Elems(s) \cup {p}
<1> DEFINE t == Append(s, p)
<1>1. Enqueue(s, p) = t
  BY RoomForMissing DEF Enqueue
<1>2. /\ t \in Seq(Position) /\ Len(t) = Len(s) + 1 /\ Len(s) \in Nat
      /\ DOMAIN s = 1..Len(s) /\ DOMAIN t = 1..(Len(s) + 1)
      /\ \A i \in 1..Len(s) : t[i] = s[i]
      /\ t[Len(s) + 1] = p
  BY AppendProperties, LenProperties
<1> HIDE DEF t
<1>3. Distinct(t)
  <2>1. ASSUME NEW i \in 1..Len(s), NEW j \in 1..Len(s), t[i] = t[j] PROVE i = j
    BY <2>1, <1>2 DEF Distinct
  <2>2. ASSUME NEW i \in 1..Len(s) PROVE t[i] # t[Len(s) + 1]
    BY <1>2 DEF Elems
  <2>3. \A i \in 1..(Len(s) + 1) : i \in 1..Len(s) \/ i = Len(s) + 1
    BY <1>2
  <2> QED BY <2>1, <2>2, <2>3, <1>2 DEF Distinct
<1>4. Elems(t) = Elems(s) \cup {p}
  <2>1. \A i \in 1..(Len(s) + 1) : i \in 1..Len(s) \/ i = Len(s) + 1
    BY <1>2
  <2>2. \A i \in 1..Len(s) : i \in 1..(Len(s) + 1)
    BY <1>2
  <2>3. Len(s) + 1 \in 1..(Len(s) + 1)
    BY <1>2
  <2> QED BY <2>1, <2>2, <2>3, <1>2 DEF Elems
<1> QED BY <1>1, <1>2, <1>3, <1>4
-----------------------------------------------------------------------------
(* The initial state.                                                      *)

LEMMA InitInv == Init => IInv
<1> SUFFICES ASSUME Init PROVE IInv
  OBVIOUS
<1> USE EntriesAssumption, RoomAssumption, NoneAssumption, DepthAssumption
<1>1. /\ freeSlots \in Seq(Position) /\ DOMAIN freeSlots = Position
      /\ \A p \in Position : freeSlots[p] = p
  <2>1. freeSlots \in [1..Entries -> Position]
    BY DEF Init, HashInit, Position
  <2>2. freeSlots \in Seq(Position)
    BY <2>1
  <2> QED BY <2>1, <2>2 DEF Init, HashInit, Position
<1>2. Linked = {} /\ Held = {} /\ Free = Position
  <2>1. Linked = {}
    BY DEF Init, HashInit, Linked
  <2>2. Held = {}
    BY DEF Init, Held
  <2>3. Free = Position
    BY <1>1 DEF Free
  <2> QED BY <2>1, <2>2, <2>3
<1>3. TypeOK
  <2>1. HashTypeOK
    BY <1>1 DEF Init, HashInit, HashTypeOK
  <2>2. 0 \in 0..Entries /\ 0 \in Index /\ 0 \in 0..(Depth + 1)
    BY DEF Index
  <2> QED BY <2>1, <2>2 DEF Init, TypeOK, ApiIdle, NoPacket, Slot, Results
<1>4. PositionsConserved
  <2>1. \A i, j \in DOMAIN freeSlots : freeSlots[i] = freeSlots[j] => i = j
    BY <1>1
  <2> QED BY <2>1, <1>2 DEF PositionsConserved, Init, HashInit
<1>5. StoreInv /\ ApiInv /\ PoolInv /\ GraceInv
  BY DEF Init, HashInit, StoreInv, ApiInv, PoolInv, GraceInv, ApiIdle, NoPacket
<1>6. CountInv
  BY <1>2, FS_EmptySet DEF CountInv, Init, ApiIdle
<1> QED BY <1>3, <1>4, <1>5, <1>6 DEF IInv

-----------------------------------------------------------------------------
(* What the invariant says of the ring of free positions and of the sets.  *)

LEMMA LinkedFinite ==
  ASSUME NEW S \in SUBSET Position
  PROVE  IsFiniteSet(S) /\ Cardinality(S) \in Nat /\ Cardinality(S) <= Entries
         /\ Cardinality(Position) = Entries
<1>1. Entries \in Nat \ {0}
  BY EntriesAssumption
<1>2. IsFiniteSet(Position) /\ Cardinality(Position) = Entries
  BY <1>1, FS_Interval DEF Position
<1> QED BY <1>2, FS_Subset, FS_CardinalityType

\* A call that is refused changes nothing but its result.
LEMMA RefusedInv ==
  ASSUME IInv, UNCHANGED <<hashVars, tableVars, api, packet>>, result' \in Results
  PROVE  IInv'
<1> USE DEF hashVars, tableVars
<1>1. TypeOK'
  BY DEF IInv, TypeOK, HashTypeOK
<1>2. Linked' = Linked /\ Free' = Free /\ Held' = Held
  BY DEF Linked, Free, Held
<1>3. PositionsConserved'
  BY <1>2 DEF IInv, PositionsConserved
<1>4. StoreInv' /\ ApiInv' /\ CountInv'
  BY <1>2 DEF IInv, StoreInv, ApiInv, CountInv
<1>5. PoolInv' /\ GraceInv'
  BY <1>2 DEF IInv, PoolInv, GraceInv, StillLinked, StillHeld, Busy, Elapsed
<1> QED BY <1>1, <1>3, <1>4, <1>5 DEF IInv

\* A create that finds no bucket entry gives the position back.
LEMMA NoBucketInv ==
  ASSUME IInv, NEW k \in Key, AddNoBucket(k), Refused("no_bucket")
  PROVE  IInv'
<1> DEFINE p == Head(freeSlots)
           rest == Tail(freeSlots)
<1>0. /\ freeSlots \in Seq(Position) /\ Distinct(freeSlots) /\ freeSlots # <<>>
      /\ Free = Elems(freeSlots)
  BY DEF IInv, TypeOK, HashTypeOK, PositionsConserved, Distinct, AddNoBucket, Free, Elems
<1>1. /\ p \in Position /\ rest \in Seq(Position) /\ Distinct(rest)
      /\ Elems(rest) = Free \ {p} /\ p \in Free
  BY <1>0, TailOfDistinct
<1>2. freeSlots' = Enqueue(rest, p) /\ store' = [store EXCEPT ![p] = k] /\ bucket' = bucket
  BY DEF AddNoBucket
<1> HIDE DEF p, rest
<1>3. /\ freeSlots' \in Seq(Position) /\ Distinct(freeSlots') /\ Elems(freeSlots') = Free
  BY <1>1, <1>2, EnqueueMissing
<1>4. /\ pool' = pool /\ count' = count /\ deferred' = deferred /\ deferredIdx' = deferredIdx
      /\ api' = api /\ packet' = packet /\ result' = "no_bucket"
  BY DEF Refused, tableVars
<1>5. Free' = Free /\ Linked' = Linked /\ Held' = Held
  BY <1>2, <1>3, <1>4 DEF Free, Elems, Linked, Held
<1>6. p \notin Linked
  BY <1>1 DEF IInv, PositionsConserved
<1>7. TypeOK'
  BY <1>1, <1>2, <1>3, <1>4 DEF IInv, TypeOK, HashTypeOK, Results
<1>8. PositionsConserved'
  <2>1. (\A i, j \in DOMAIN freeSlots : freeSlots[i] = freeSlots[j] => i = j)'
    BY <1>3 DEF Distinct
  <2> QED BY <2>1, <1>2, <1>4, <1>5 DEF IInv, PositionsConserved
<1>9. StoreInv'
  <2>1. store \in [Position -> Key \cup {None}]
    BY DEF IInv, TypeOK, HashTypeOK
  <2> QED BY <2>1, <1>1, <1>2, <1>6 DEF IInv, StoreInv, Linked
<1>10. ApiInv' /\ CountInv'
  BY <1>2, <1>4, <1>5 DEF IInv, ApiInv, CountInv
<1>11. PoolInv' /\ GraceInv'
  BY <1>2, <1>4, <1>5 DEF IInv, PoolInv, GraceInv, StillLinked, StillHeld, Busy, Elapsed
<1> QED BY <1>7, <1>8, <1>9, <1>10, <1>11 DEF IInv

LEMMA CreateAddsInv ==
  ASSUME IInv, NEW k \in Key, NEW p \in Position, CreateAdds(k, p)
  PROVE  IInv'
<1>0. /\ freeSlots \in Seq(Position) /\ Distinct(freeSlots) /\ freeSlots # <<>>
      /\ Free = Elems(freeSlots)
  BY DEF IInv, TypeOK, HashTypeOK, PositionsConserved, Distinct, CreateAdds, AddNew, Free, Elems
<1>1. /\ freeSlots' \in Seq(Position) /\ Distinct(freeSlots')
      /\ Elems(freeSlots') = Free \ {p} /\ p \in Free
  BY <1>0, TailOfDistinct DEF CreateAdds, AddNew
<1>2. /\ bucket' = bucket \cup {<<k, p>>} /\ store' = [store EXCEPT ![p] = k]
      /\ pool' = pool /\ count' = count /\ deferred' = deferred /\ deferredIdx' = deferredIdx
      /\ api.pc = "idle" /\ count < Entries
      /\ api' = [pc |-> "fill", key |-> k, pos |-> p]
      /\ packet' = packet /\ result' = result
      /\ Hits(k) = {}
  BY DEF CreateAdds, AddNew, tableVars, IInv, TypeOK
<1>3. p \notin Linked /\ p \notin Held /\ Linked \subseteq Position
  BY <1>1 DEF IInv, PositionsConserved, Linked
<1>4. Free' = Free \ {p} /\ Linked' = Linked \cup {p} /\ Held' = Held
  BY <1>1, <1>2 DEF Free, Elems, Linked, Held
<1>5. \A q \in Position : <<k, q>> \notin bucket
  BY <1>2 DEF Hits, IInv, StoreInv
<1>6. TypeOK'
  <2>1. HashTypeOK'
    BY <1>1, <1>2 DEF IInv, TypeOK, HashTypeOK
  <2> QED BY <2>1, <1>2 DEF IInv, TypeOK
<1>7. PositionsConserved'
  <2>1. (\A i, j \in DOMAIN freeSlots : freeSlots[i] = freeSlots[j] => i = j)'
    BY <1>1 DEF Distinct
  <2>2. (\A i, j \in Index : deferred[i] = deferred[j] /\ deferred[i] # None => i = j)'
    BY <1>2 DEF IInv, PositionsConserved
  <2>3. (\A l, m \in Key, q \in Position :
            <<l, q>> \in bucket /\ <<m, q>> \in bucket => l = m)'
    BY <1>2, <1>3 DEF IInv, PositionsConserved, Linked
  <2>4. (/\ Free \cap Linked = {} /\ Free \cap Held = {} /\ Linked \cap Held = {}
         /\ Free \cup Linked \cup Held = Position)'
    BY <1>1, <1>3, <1>4 DEF IInv, PositionsConserved
  <2> QED BY <2>1, <2>2, <2>3, <2>4 DEF PositionsConserved
<1>8. StoreInv'
  <2>1. store \in [Position -> Key \cup {None}]
    BY DEF IInv, TypeOK, HashTypeOK
  <2>2. ASSUME NEW l \in Key, NEW q \in Position, <<l, q>> \in bucket' PROVE store'[q] = l
    BY <2>1, <2>2, <1>2, <1>3 DEF IInv, StoreInv, Linked
  <2>3. ASSUME NEW l \in Key, NEW q \in Position, NEW r \in Position,
               <<l, q>> \in bucket', <<l, r>> \in bucket'
        PROVE q = r
    BY <2>3, <1>2, <1>5 DEF IInv, StoreInv
  <2> QED BY <2>2, <2>3 DEF StoreInv
<1>9. ApiInv'
  BY <1>2 DEF ApiInv
<1>10. PoolInv'
  <2>1. \A q \in Position : pool[q].active => q \in Linked /\ q # p
    BY <1>3 DEF IInv, PoolInv
  <2>2. ASSUME NEW l \in Key, NEW q \in Position, <<l, q>> \in bucket, q # p
        PROVE pool[q].owner = l /\ pool[q].active
    BY <2>2, <1>2 DEF IInv, PoolInv, Busy
  <2> QED BY <2>1, <2>2, <1>2, <1>4 DEF PoolInv, Busy
<1>11. GraceInv'
  <2>1. ASSUME StillLinked, packet.key \in Key, packet.pos \in Position PROVE StillLinked'
    BY <2>1, <1>2, <1>3 DEF StillLinked, Linked
  <2>2. ASSUME StillHeld PROVE StillHeld'
    BY <2>2, <1>2 DEF StillHeld, Elapsed
  <2> QED BY <2>1, <2>2, <1>2 DEF IInv, GraceInv
<1>12. CountInv'
  <2>1. Cardinality(Linked') = Cardinality(Linked) + 1
    BY <1>3, <1>4, LinkedFinite, FS_AddElement
  <2> QED BY <2>1, <1>2 DEF IInv, CountInv
<1> QED BY <1>6, <1>7, <1>8, <1>9, <1>10, <1>11, <1>12 DEF IInv

\* The steps that leave the hash and the deferred ring alone share this much.
LEMMA QuietTable ==
  ASSUME IInv, UNCHANGED <<hashVars, deferred, deferredIdx>>
  PROVE  /\ Free' = Free /\ Linked' = Linked /\ Held' = Held
         /\ PositionsConserved' /\ StoreInv' /\ HashTypeOK'
<1>1. /\ freeSlots' = freeSlots /\ bucket' = bucket /\ store' = store
      /\ deferred' = deferred /\ deferredIdx' = deferredIdx
  BY DEF hashVars
<1>2. Linked' = Linked /\ Free' = Free /\ Held' = Held
  BY <1>1 DEF Linked, Free, Held
<1> QED BY <1>1, <1>2 DEF IInv, PositionsConserved, StoreInv, TypeOK, HashTypeOK

LEMMA CreateFillsInv == ASSUME IInv, CreateFills PROVE IInv'
<1>1. /\ api.pc = "fill" /\ api.key \in Key /\ api.pos \in Position
      /\ <<api.key, api.pos>> \in bucket /\ api.pos \in Linked
      /\ count \in 0..Entries /\ count < Entries
  BY DEF IInv, ApiInv, CreateFills, TypeOK, Linked
<1>2. /\ pool \in [Position -> Slot]
      /\ pool' = [pool EXCEPT ![api.pos] = [owner |-> api.key, active |-> FALSE]]
      /\ api' = [api EXCEPT !.pc = "activate"]
      /\ api'.pc = "activate" /\ api'.pos = api.pos /\ api'.key = api.key
      /\ count' = count /\ result' = result /\ packet' = packet
      /\ bucket' = bucket /\ deferred' = deferred /\ deferredIdx' = deferredIdx
  BY DEF CreateFills, IInv, TypeOK, hashVars
<1>3. /\ Free' = Free /\ Linked' = Linked /\ Held' = Held
      /\ PositionsConserved' /\ StoreInv' /\ HashTypeOK'
  BY QuietTable DEF CreateFills
<1>4. TypeOK'
  BY <1>1, <1>2, <1>3 DEF IInv, TypeOK, Slot
<1>5. ApiInv' /\ CountInv'
  BY <1>1, <1>2, <1>3 DEF IInv, ApiInv, CountInv
<1>6. PoolInv'
  <2>1. \A p \in Position : p # api.pos => pool'[p] = pool[p]
    BY <1>2
  <2>2. pool'[api.pos] = [owner |-> api.key, active |-> FALSE]
    BY <1>1, <1>2
  <2>3. \A k \in Key : <<k, api.pos>> \in bucket => k = api.key
    BY <1>1 DEF IInv, PositionsConserved
  <2> QED BY <1>1, <1>2, <1>3, <2>1, <2>2, <2>3 DEF IInv, PoolInv, Busy
<1>7. GraceInv'
  <2>1. ASSUME StillLinked, packet.key \in Key, packet.pos \in Position PROVE StillLinked'
    BY <2>1, <1>2 DEF StillLinked
  <2>2. ASSUME StillHeld, packet.pos \in Position PROVE StillHeld'
    <3>1. packet.pos \in Held
      BY <2>2, NoneAssumption DEF StillHeld, Held, Position
    <3>2. packet.pos # api.pos
      BY <3>1, <1>1 DEF IInv, PositionsConserved
    <3> QED BY <3>2, <2>2, <1>2 DEF StillHeld, Elapsed
  <2> QED BY <2>1, <2>2, <1>2 DEF IInv, GraceInv
<1> QED BY <1>3, <1>4, <1>5, <1>6, <1>7 DEF IInv

LEMMA CreateActivatesInv == ASSUME IInv, CreateActivates PROVE IInv'
<1>1. /\ api.pc = "activate" /\ api.key \in Key /\ api.pos \in Position
      /\ <<api.key, api.pos>> \in bucket /\ api.pos \in Linked
      /\ count \in 0..Entries /\ count < Entries
  BY DEF IInv, ApiInv, CreateActivates, TypeOK, Linked
<1>2. /\ pool \in [Position -> Slot]
      /\ pool' = [pool EXCEPT ![api.pos].active = TRUE]
      /\ api' = ApiIdle /\ api'.pc = "idle"
      /\ count' = count + 1 /\ result' = "ok" /\ packet' = packet
      /\ bucket' = bucket /\ deferred' = deferred /\ deferredIdx' = deferredIdx
  BY DEF CreateActivates, IInv, TypeOK, hashVars, ApiIdle
<1>3. /\ Free' = Free /\ Linked' = Linked /\ Held' = Held
      /\ PositionsConserved' /\ StoreInv' /\ HashTypeOK'
  BY QuietTable DEF CreateActivates
<1>4. \A p \in Position : /\ pool'[p].owner = pool[p].owner
                          /\ p # api.pos => pool'[p] = pool[p]
  BY <1>2 DEF Slot
<1>5. pool'[api.pos].active
  BY <1>1, <1>2 DEF Slot
<1>6. TypeOK'
  <2>1. pool' \in [Position -> Slot]
    BY <1>1, <1>2 DEF Slot
  <2>2. count' \in 0..Entries
    BY <1>1, <1>2, EntriesAssumption
  <2> QED BY <2>1, <2>2, <1>2, <1>3 DEF IInv, TypeOK, ApiIdle, Results
<1>7. ApiInv' /\ CountInv'
  BY <1>1, <1>2, <1>3 DEF IInv, ApiInv, CountInv
<1>8. PoolInv'
  <2>1. ASSUME NEW p \in Position, pool'[p].active PROVE p \in Linked
    BY <2>1, <1>1, <1>4 DEF IInv, PoolInv
  <2>2. ASSUME NEW k \in Key, NEW p \in Position, <<k, p>> \in bucket
        PROVE pool'[p].owner = k /\ pool'[p].active
    BY <2>2, <1>1, <1>4, <1>5 DEF IInv, PoolInv, Busy
  <2> QED BY <2>1, <2>2, <1>2, <1>3 DEF PoolInv, Busy
<1>9. GraceInv'
  <2>1. ASSUME StillLinked, packet.key \in Key, packet.pos \in Position PROVE StillLinked'
    BY <2>1, <1>2 DEF StillLinked
  <2>2. ASSUME StillHeld, packet.pos \in Position PROVE StillHeld'
    <3>1. packet.pos \in Held
      BY <2>2, NoneAssumption DEF StillHeld, Held, Position
    <3>2. packet.pos # api.pos
      BY <3>1, <1>1 DEF IInv, PositionsConserved
    <3> QED BY <3>2, <2>2, <1>2, <1>4 DEF StillHeld, Elapsed
  <2> QED BY <2>1, <2>2, <1>2 DEF IInv, GraceInv
<1> QED BY <1>3, <1>6, <1>7, <1>8, <1>9 DEF IInv

LEMMA DeleteMarksInv ==
  ASSUME IInv, NEW k \in Key, NEW p \in Position, DeleteMarks(k, p)
  PROVE  IInv'
<1>1. api.pc = "idle" /\ <<k, p>> \in bucket /\ p \in Linked
  BY DEF DeleteMarks, Hits, Linked
<1>2. /\ pool \in [Position -> Slot]
      /\ pool' = [pool EXCEPT ![p].active = FALSE]
      /\ api' = [pc |-> "unlink", key |-> k, pos |-> p]
      /\ count' = count /\ result' = result /\ packet' = packet
      /\ bucket' = bucket /\ deferred' = deferred /\ deferredIdx' = deferredIdx
  BY DEF DeleteMarks, IInv, TypeOK, hashVars
<1>3. /\ Free' = Free /\ Linked' = Linked /\ Held' = Held
      /\ PositionsConserved' /\ StoreInv' /\ HashTypeOK'
  BY QuietTable DEF DeleteMarks
<1>4. /\ \A q \in Position : pool'[q].owner = pool[q].owner /\ (q # p => pool'[q] = pool[q])
      /\ ~ pool'[p].active
      /\ pool' \in [Position -> Slot]
  BY <1>2 DEF Slot
<1>5. TypeOK'
  BY <1>2, <1>3, <1>4 DEF IInv, TypeOK
<1>6. ApiInv' /\ CountInv'
  BY <1>1, <1>2, <1>3 DEF IInv, ApiInv, CountInv
<1>7. PoolInv'
  BY <1>1, <1>2, <1>3, <1>4 DEF IInv, PoolInv, Busy
<1>8. GraceInv'
  <2>1. ASSUME StillLinked PROVE StillLinked'
    BY <2>1, <1>2 DEF StillLinked
  <2>2. ASSUME StillHeld, packet.pos \in Position PROVE StillHeld'
    <3>1. packet.pos \in Held
      BY <2>2, NoneAssumption DEF StillHeld, Held, Position
    <3>2. packet.pos # p
      BY <3>1, <1>1 DEF IInv, PositionsConserved
    <3> QED BY <3>2, <2>2, <1>2, <1>4 DEF StillHeld, Elapsed
  <2> QED BY <2>1, <2>2, <1>2 DEF IInv, GraceInv
<1> QED BY <1>3, <1>5, <1>6, <1>7, <1>8 DEF IInv

\* The steps of the packet thread.
LEMMA PacketInv ==
  ASSUME IInv, UNCHANGED <<hashVars, tableVars, api, result>>,
         packet' \in [pc : {"idle", "found", "using"}, key : Key \cup {None},
                      pos : Position \cup {None}, deletions : 0..(Depth + 1)],
         GraceInv'
  PROVE  IInv'
<1>1. /\ Linked' = Linked /\ PositionsConserved' /\ StoreInv' /\ HashTypeOK'
  BY QuietTable DEF tableVars
<1>2. /\ bucket' = bucket /\ pool' = pool /\ api' = api /\ count' = count /\ result' = result
      /\ deferred' = deferred /\ deferredIdx' = deferredIdx
  BY DEF hashVars, tableVars
<1>3. TypeOK'
  BY <1>1, <1>2 DEF IInv, TypeOK
<1>4. ApiInv' /\ CountInv' /\ PoolInv'
  BY <1>1, <1>2 DEF IInv, ApiInv, CountInv, PoolInv, Busy
<1> QED BY <1>1, <1>3, <1>4 DEF IInv

LEMMA PacketLookupInv ==
  ASSUME IInv, NEW k \in Key, NEW p \in Position, PacketLookup(k, p)
  PROVE  IInv'
<1>1. /\ packet' = [pc |-> "found", key |-> k, pos |-> p, deletions |-> 0]
      /\ 0 \in 0..(Depth + 1) /\ bucket' = bucket /\ <<k, p>> \in bucket
  BY DepthAssumption DEF PacketLookup, Hits, hashVars
<1>2. GraceInv'
  BY <1>1 DEF GraceInv, StillLinked
<1> QED BY <1>1, <1>2, PacketInv DEF PacketLookup

LEMMA PacketChecksInv == ASSUME IInv, PacketChecks PROVE IInv'
<1>1. UNCHANGED <<hashVars, tableVars, api, result>> /\ packet.pc = "found"
  BY DEF PacketChecks
<1>2. packet \in [pc : {"idle", "found", "using"}, key : Key \cup {None},
                  pos : Position \cup {None}, deletions : 0..(Depth + 1)]
  BY DEF IInv, TypeOK
<1>3. packet.key \in Key /\ packet.pos \in Position
  BY <1>1 DEF IInv, GraceInv
<1>4. CASE pool[packet.pos].active
  <2>1. packet' = [packet EXCEPT !.pc = "using"]
    BY <1>4 DEF PacketChecks
  <2>2. packet'.key = packet.key /\ packet'.pos = packet.pos
        /\ packet'.deletions = packet.deletions
    BY <2>1, <1>2
  <2>3. ~StillHeld
    BY <1>4 DEF StillHeld
  <2>4. ~(api.pc = "fill" /\ api.pos = packet.pos)
    BY <1>3, <1>4 DEF IInv, PoolInv, Busy
  <2>5. GraceInv'
    BY <1>1, <1>3, <2>2, <2>3, <2>4
       DEF IInv, GraceInv, StillLinked, hashVars, tableVars
  <2> QED BY <1>1, <1>2, <2>1, <2>5, PacketInv
<1>5. CASE ~pool[packet.pos].active
  <2>1. packet' = NoPacket
    BY <1>5 DEF PacketChecks
  <2>2. GraceInv' /\ 0 \in 0..(Depth + 1)
    BY <2>1, DepthAssumption DEF GraceInv, NoPacket
  <2> QED BY <1>1, <2>1, <2>2, PacketInv DEF NoPacket
<1> QED BY <1>4, <1>5

LEMMA PacketDoneInv == ASSUME IInv, PacketDone PROVE IInv'
<1>1. packet' = NoPacket /\ GraceInv' /\ 0 \in 0..(Depth + 1)
  BY DepthAssumption DEF PacketDone, GraceInv, NoPacket
<1> QED BY <1>1, PacketInv DEF PacketDone, NoPacket

-----------------------------------------------------------------------------
(* The end of a deletion: the position enters the deferred ring, and the one *)
(* it overwrites is given back.                                            *)

\* The session leaves the hash, its position is neither free nor lost.
LEMMA UnlinkedSets ==
  ASSUME IInv, DeleteUnlinks
  PROVE  LET out == deferred[deferredIdx]
             back == IF out = None THEN {} ELSE {out}
         IN  /\ api.pos \in Linked /\ api.pos \in Position /\ api.key \in Key
             /\ Linked' = Linked \ {api.pos}
             /\ freeSlots' \in Seq(Position) /\ Distinct(freeSlots')
             /\ Free' = Free \cup back
             /\ Held' = (Held \ back) \cup {api.pos}
             /\ back \subseteq Held
             /\ bucket' = bucket \ {<<api.key, api.pos>>} /\ store' = store
             /\ deferred' = [deferred EXCEPT ![deferredIdx] = api.pos]
<1> DEFINE out == deferred[deferredIdx]
           back == IF out = None THEN {} ELSE {out}
<1>1. /\ deferred \in [Index -> Position \cup {None}] /\ deferredIdx \in Index
      /\ freeSlots \in Seq(Position) /\ Distinct(freeSlots) /\ Free = Elems(freeSlots)
      /\ api.pc = "unlink" /\ api.pos \in Position /\ api.key \in Key
      /\ <<api.key, api.pos>> \in bucket
      /\ bucket \subseteq Key \X Position
      /\ None \notin Position
  BY NoneAssumption DEF IInv, TypeOK, HashTypeOK, PositionsConserved, Distinct, Elems, Free,
     ApiInv, DeleteUnlinks, Position
<1>2. api.pos \in Linked
  BY <1>1 DEF Linked
<1>3. /\ bucket' = bucket \ {<<api.key, api.pos>>} /\ store' = store
      /\ deferred' = [deferred EXCEPT ![deferredIdx] = api.pos]
      /\ freeSlots' = IF out = None THEN freeSlots ELSE Enqueue(freeSlots, out)
  BY LockFreeReaders DEF DeleteUnlinks, DelEntry, Reclaimed, AfterDel
<1>4. Linked' = Linked \ {api.pos}
  <2>1. \A k \in Key : <<k, api.pos>> \in bucket => k = api.key
    BY <1>1 DEF IInv, PositionsConserved
  <2> QED BY <2>1, <1>1, <1>3 DEF Linked
<1>5. back \subseteq Held
  BY <1>1 DEF Held
<1>6. freeSlots' \in Seq(Position) /\ Distinct(freeSlots') /\ Elems(freeSlots') = Free \cup back
  <2>1. CASE out = None
    BY <2>1, <1>1, <1>3
  <2>2. CASE out # None
    <3>1. out \in Position /\ out \notin Elems(freeSlots)
      BY <2>2, <1>1, <1>5 DEF IInv, PositionsConserved
    <3> QED BY <3>1, <2>2, <1>1, <1>3, EnqueueMissing
  <2> QED BY <2>1, <2>2
<1>7. Held' = (Held \ back) \cup {api.pos}
  <2>1. \A i \in Index : i # deferredIdx => deferred'[i] = deferred[i]
    BY <1>1, <1>3
  <2>2. deferred'[deferredIdx] = api.pos
    BY <1>1, <1>3
  <2>3. \A i \in Index : deferred[i] = out /\ out # None => i = deferredIdx
    BY <1>1 DEF IInv, PositionsConserved
  <2> HIDE DEF out
  <2>4. Held' = {deferred'[i] : i \in Index} \ {None}
    BY DEF Held
  <2>5. ASSUME NEW x \in Held' PROVE x \in (Held \ back) \cup {api.pos}
    BY <2>1, <2>2, <2>3, <2>4, <2>5 DEF Held, out
  <2>6. ASSUME NEW x \in Held, x \notin back PROVE x \in Held'
    BY <2>1, <2>4, <2>6 DEF Held, out
  <2>7. api.pos \in Held'
    BY <2>2, <2>4, <1>1
  <2> QED BY <2>5, <2>6, <2>7
<1>8. Free' = Free \cup back
  BY <1>6 DEF Free, Elems
<1> QED BY <1>1, <1>2, <1>3, <1>4, <1>5, <1>6, <1>7, <1>8

LEMMA UnlinkedConserved == ASSUME IInv, DeleteUnlinks PROVE PositionsConserved'
<1> DEFINE out == deferred[deferredIdx]
           back == IF out = None THEN {} ELSE {out}
<1>1. /\ api.pos \in Linked
      /\ Linked' = Linked \ {api.pos}
      /\ Distinct(freeSlots')
      /\ Free' = Free \cup back
      /\ Held' = (Held \ back) \cup {api.pos}
      /\ back \subseteq Held
      /\ bucket' \subseteq bucket
      /\ deferred' = [deferred EXCEPT ![deferredIdx] = api.pos]
  BY UnlinkedSets
<1>2. deferred \in [Index -> Position \cup {None}] /\ deferredIdx \in Index
  BY DEF IInv, TypeOK
<1> HIDE DEF out, back
<1>3. (\A i, j \in DOMAIN freeSlots : freeSlots[i] = freeSlots[j] => i = j)'
  BY <1>1 DEF Distinct
<1>4. (\A i, j \in Index : deferred[i] = deferred[j] /\ deferred[i] # None => i = j)'
  <2>1. api.pos \notin Held /\ api.pos # None
    BY <1>1, NoneAssumption DEF IInv, PositionsConserved, Linked, Position
  <2>2. \A i \in Index : deferred[i] # api.pos
    BY <2>1 DEF Held
  <2> QED BY <2>2, <1>1, <1>2 DEF IInv, PositionsConserved
<1>5. (\A k, l \in Key, p \in Position :
          <<k, p>> \in bucket /\ <<l, p>> \in bucket => k = l)'
  BY <1>1 DEF IInv, PositionsConserved
<1>6. (/\ Free \cap Linked = {} /\ Free \cap Held = {} /\ Linked \cap Held = {}
       /\ Free \cup Linked \cup Held = Position)'
  BY <1>1 DEF IInv, PositionsConserved
<1> QED BY <1>3, <1>4, <1>5, <1>6 DEF PositionsConserved

\* The ring of deferred positions turns by one entry per deletion.
LEMMA ElapsedNext ==
  ASSUME NEW i \in Index, NEW d \in Index
  PROVE  /\ Elapsed(d, NextIndex(d)) = 0
         /\ Elapsed(d, d) = Depth - 1
         /\ i # d => Elapsed(i, NextIndex(d)) = Elapsed(i, d) + 1
         /\ Elapsed(i, d) \in Nat
<1>1. Depth \in Nat \ {0} /\ i \in 0..(Depth - 1) /\ d \in 0..(Depth - 1)
  BY DepthAssumption DEF Index
<1>2. CASE d = Depth - 1
  BY <1>1, <1>2 DEF Elapsed, NextIndex
<1>3. CASE d # Depth - 1
  BY <1>1, <1>3 DEF Elapsed, NextIndex
<1> QED BY <1>2, <1>3

\* A packet's position that is not given back has more of its grace left.
LEMMA UnlinkedGrace == ASSUME IInv, DeleteUnlinks PROVE GraceInv'
<1>1. /\ bucket' = bucket \ {<<api.key, api.pos>>}
      /\ deferred' = [deferred EXCEPT ![deferredIdx] = api.pos]
  BY UnlinkedSets
<1>2. /\ deferred \in [Index -> Position \cup {None}] /\ deferredIdx \in Index
      /\ deferredIdx' = IF deferredIdx = Depth - 1 THEN 0 ELSE deferredIdx + 1
      /\ pool' = pool /\ pool \in [Position -> Slot] /\ api' = ApiIdle /\ api.pc = "unlink"
      /\ <<api.key, api.pos>> \in bucket /\ api.key \in Key /\ api.pos \in Position
      /\ packet.pc # "idle" => packet.key \in Key /\ packet.pos \in Position
      /\ packet.deletions \in 0..(Depth + 1)
  BY DEF DeleteUnlinks, NextIndex, IInv, TypeOK, ApiInv, GraceInv
<1>3. Depth \in Nat \ {0}
  BY DepthAssumption
<1>4. packet' = IF packet.pc # "idle" /\ packet.deletions <= Depth
                THEN [packet EXCEPT !.deletions = packet.deletions + 1] ELSE packet
  BY DEF DeleteUnlinks
<1>5. /\ packet'.pc = packet.pc /\ packet'.key = packet.key /\ packet'.pos = packet.pos
      /\ packet.pc # "idle" => packet'.deletions = IF packet.deletions <= Depth
                                THEN packet.deletions + 1 ELSE packet.deletions
  BY <1>4 DEF IInv, TypeOK
<1>6. ASSUME packet.pc # "idle", packet'.deletions <= Depth, StillLinked
      PROVE  StillLinked' \/ StillHeld'
  <2>1. CASE packet.pos # api.pos
    BY <2>1, <1>1, <1>2, <1>5, <1>6 DEF StillLinked, ApiIdle
  <2>2. CASE packet.pos = api.pos
    <3>1. packet.key = api.key
      BY <2>2, <1>2, <1>6 DEF StillLinked, IInv, PositionsConserved
    <3>2. pool[api.pos] = [owner |-> api.key, active |-> FALSE]
      <4>1. pool[api.pos].owner = api.key /\ ~pool[api.pos].active
        BY <1>2 DEF IInv, PoolInv, Busy
      <4> QED BY <4>1, <1>2 DEF Slot
    <3>3. Elapsed(deferredIdx, deferredIdx') = 0 /\ packet'.deletions >= 1
      BY <1>2, <1>3, <1>5, <1>6, ElapsedNext DEF NextIndex
    <3>4. deferred'[deferredIdx] = api.pos
      BY <1>1, <1>2
    <3> QED BY <3>1, <3>2, <3>3, <3>4, <2>2, <1>2, <1>5 DEF StillHeld
  <2> QED BY <2>1, <2>2
<1>7. ASSUME packet.pc # "idle", packet'.deletions <= Depth, StillHeld
      PROVE  StillHeld'
  <2>1. PICK i \in Index : /\ deferred[i] = packet.pos
                           /\ packet.deletions >= 1 + Elapsed(i, deferredIdx)
                           /\ pool[packet.pos] = [owner |-> packet.key, active |-> FALSE]
    BY <1>7 DEF StillHeld
  <2>2. packet'.deletions = packet.deletions + 1
    BY <1>2, <1>3, <1>5, <1>7
  <2>3. i # deferredIdx
    BY <1>2, <1>3, <1>7, <2>1, <2>2, ElapsedNext
  <2>4. /\ Elapsed(i, deferredIdx') = Elapsed(i, deferredIdx) + 1
        /\ Elapsed(i, deferredIdx) \in Nat
    BY <1>2, <2>3, ElapsedNext DEF NextIndex
  <2>5. deferred'[i] = packet.pos
    BY <1>1, <1>2, <2>1, <2>3
  <2>6. packet'.deletions >= 1 + Elapsed(i, deferredIdx')
    BY <1>2, <2>1, <2>2, <2>4
  <2> QED BY <2>1, <2>5, <2>6, <1>2, <1>5 DEF StillHeld
<1> QED BY <1>5, <1>2, <1>3, <1>6, <1>7 DEF IInv, GraceInv

LEMMA DeleteUnlinksInv == ASSUME IInv, DeleteUnlinks PROVE IInv'
<1>1. /\ api.pos \in Linked /\ api.pos \in Position /\ api.key \in Key
      /\ Linked' = Linked \ {api.pos}
      /\ freeSlots' \in Seq(Position)
      /\ bucket' = bucket \ {<<api.key, api.pos>>} /\ store' = store
      /\ deferred' = [deferred EXCEPT ![deferredIdx] = api.pos]
  BY UnlinkedSets
<1>2. /\ deferredIdx \in Index /\ deferredIdx' = NextIndex(deferredIdx)
      /\ count' = (IF count > 0 THEN count - 1 ELSE count) /\ count \in 0..Entries
      /\ api' = ApiIdle /\ api'.pc = "idle" /\ api.pc = "unlink"
      /\ result' = "ok" /\ pool' = pool
      /\ packet' = IF packet.pc # "idle" /\ packet.deletions <= Depth
                   THEN [packet EXCEPT !.deletions = packet.deletions + 1] ELSE packet
  BY DEF DeleteUnlinks, IInv, TypeOK, ApiIdle
<1>3. Cardinality(Linked') = Cardinality(Linked) - 1 /\ Cardinality(Linked') \in Nat
      /\ Cardinality(Linked) = count
  <2>1. Linked \in SUBSET Position /\ Linked' \in SUBSET Position
    BY DEF Linked
  <2>2. IsFiniteSet(Linked) /\ Cardinality(Linked') \in Nat
    BY <2>1, LinkedFinite
  <2>3. Cardinality(Linked) = count
    BY <1>2 DEF IInv, CountInv
  <2> QED BY <2>2, <2>3, <1>1, FS_RemoveElement
<1>4. count' = count - 1 /\ count' \in 0..Entries
  BY <1>2, <1>3, EntriesAssumption
<1>5. TypeOK'
  <2>1. HashTypeOK'
    BY <1>1 DEF IInv, TypeOK, HashTypeOK
  <2>2. deferredIdx' \in Index
    BY <1>2, DepthAssumption DEF NextIndex, Index
  <2>3. deferred' \in [Index -> Position \cup {None}]
    BY <1>1 DEF IInv, TypeOK
  <2>4. packet' \in [pc : {"idle", "found", "using"}, key : Key \cup {None},
                     pos : Position \cup {None}, deletions : 0..(Depth + 1)]
    <3>1. packet.deletions \in 0..(Depth + 1)
      BY DEF IInv, TypeOK
    <3>2. packet.deletions <= Depth => packet.deletions + 1 \in 0..(Depth + 1)
      BY <3>1, DepthAssumption
    <3> QED BY <3>2, <1>2 DEF IInv, TypeOK
  <2> QED BY <2>1, <2>2, <2>3, <2>4, <1>2, <1>4 DEF IInv, TypeOK, ApiIdle, Results
<1>6. PositionsConserved' /\ GraceInv'
  BY UnlinkedConserved, UnlinkedGrace
<1>7. StoreInv'
  BY <1>1 DEF IInv, StoreInv
<1>8. ApiInv' /\ CountInv'
  BY <1>2, <1>3, <1>4 DEF ApiInv, CountInv
<1>9. PoolInv'
  <2>1. ASSUME NEW p \in Position, pool[p].active PROVE p \in Linked /\ p # api.pos
    BY <2>1, <1>2 DEF IInv, PoolInv, Busy
  <2>2. ASSUME NEW k \in Key, NEW p \in Position, <<k, p>> \in bucket'
        PROVE pool[p].owner = k /\ pool[p].active
    <3>1. <<k, p>> \in bucket /\ p # api.pos
      BY <2>2, <1>1, <1>2 DEF IInv, PositionsConserved, ApiInv
    <3> QED BY <3>1, <1>2 DEF IInv, PoolInv, Busy
  <2> QED BY <2>1, <2>2, <1>1, <1>2 DEF PoolInv, Busy
<1> QED BY <1>5, <1>6, <1>7, <1>8, <1>9 DEF IInv

-----------------------------------------------------------------------------
(* The theorems.                                                           *)

LEMMA NextInv == IInv /\ [Next]_vars => IInv'
<1> SUFFICES ASSUME IInv, [Next]_vars PROVE IInv'
  OBVIOUS
<1>1. CASE UNCHANGED vars
  <2>1. result' \in Results
    BY <1>1 DEF vars, IInv, TypeOK
  <2> QED BY <2>1, <1>1, RefusedInv DEF vars
<1>2. ASSUME NEW k \in Key, Create(k) PROVE IInv'
  <2>1. CASE CreateFull(k)
    BY <2>1, RefusedInv DEF CreateFull, Refused, Results
  <2>2. CASE CreateExists(k)
    BY <2>2, RefusedInv DEF CreateExists, Refused, Results
  <2>3. CASE CreateFails(k)
    <3>1. CASE AddNoSlot(k) /\ Refused("no_slot")
      BY <3>1, RefusedInv DEF AddNoSlot, Refused, Results, hashVars
    <3>2. CASE AddNoBucket(k) /\ Refused("no_bucket")
      BY <3>2, NoBucketInv
    <3> QED BY <2>3, <3>1, <3>2 DEF CreateFails
  <2>4. ASSUME NEW p \in Position, CreateAdds(k, p) PROVE IInv'
    BY <2>4, CreateAddsInv
  <2> QED BY <1>2, <2>1, <2>2, <2>3, <2>4 DEF Create
<1>3. ASSUME NEW k \in Key, Delete(k) PROVE IInv'
  <2>1. CASE DeleteAbsent(k)
    BY <2>1, RefusedInv DEF DeleteAbsent, Refused, Results
  <2>2. ASSUME NEW p \in Position, DeleteMarks(k, p) PROVE IInv'
    BY <2>2, DeleteMarksInv
  <2> QED BY <1>3, <2>1, <2>2 DEF Delete
<1>4. ASSUME NEW k \in Key, NEW p \in Position, PacketLookup(k, p) PROVE IInv'
  BY <1>4, PacketLookupInv
<1> QED BY <1>1, <1>2, <1>3, <1>4, CreateFillsInv, CreateActivatesInv, DeleteUnlinksInv,
           PacketChecksInv, PacketDoneInv DEF Next

\* The invariant holds whatever the API thread is asked and however its steps
\* fall between those of the packet thread.
THEOREM Inductive == Spec => []IInv
<1>1. Init => IInv
  BY InitInv
<1>2. IInv /\ [Next]_vars => IInv'
  BY NextInv
<1> QED BY <1>1, <1>2, PTL DEF Spec

\* The table and the two threads stay in their types; the deferred index stays
\* inside the ring.
THEOREM TypeCorrect == Spec => []TypeOK
<1>1. IInv => TypeOK
  BY DEF IInv
<1> QED BY <1>1, Inductive, PTL

\* No sequence of creates and deletes loses a position or hands one out twice.
THEOREM NoSlotLost == Spec => []PositionsConserved
<1>1. IInv => PositionsConserved
  BY DEF IInv
<1> QED BY <1>1, Inductive, PTL

\* Within its grace of Depth deletions the packet thread never works on a slot
\* that has become another session's.
THEOREM GraceHolds == Spec => []PacketKeepsItsSession
<1>1. IInv => PacketKeepsItsSession
  <2>1. SUFFICES ASSUME IInv, packet.pc = "using", packet.deletions <= Depth
                 PROVE  pool[packet.pos].owner = packet.key
    BY DEF PacketKeepsItsSession
  <2>2. packet.key \in Key /\ packet.pos \in Position /\ (StillLinked \/ StillHeld)
    BY <2>1 DEF IInv, GraceInv
  <2>3. CASE StillLinked
    BY <2>1, <2>2, <2>3 DEF StillLinked, IInv, PoolInv
  <2>4. CASE StillHeld
    BY <2>4 DEF StillHeld
  <2> QED BY <2>2, <2>3, <2>4
<1> QED BY <1>1, Inductive, PTL

LEMMA HeldIsSmall ==
  ASSUME IInv
  PROVE  IsFiniteSet(Held) /\ Cardinality(Held) \in Nat /\ Cardinality(Held) <= Depth
<1> DEFINE f == [h \in Held |-> CHOOSE i \in Index : deferred[i] = h]
<1>1. Depth \in Nat \ {0}
  BY DepthAssumption
<1>2. IsFiniteSet(Index) /\ Cardinality(Index) = Depth
  BY <1>1, FS_Interval DEF Index
<1>3. Held \in SUBSET Position
  BY DEF IInv, TypeOK, Held
<1>4. IsFiniteSet(Held) /\ Cardinality(Held) \in Nat
  BY <1>3, LinkedFinite
<1>5. \A h \in Held : f[h] \in Index /\ deferred[f[h]] = h
  BY DEF Held
<1>6. f \in [Held -> Index]
  BY <1>5
<1> HIDE DEF f
<1>7. ~(Cardinality(Index) < Cardinality(Held))
  <2>1. ASSUME Cardinality(Index) < Cardinality(Held) PROVE FALSE
    <3>1. \E g, h \in Held : g # h /\ f[g] = f[h]
      BY <2>1, <1>2, <1>4, <1>6, FS_PigeonHole
    <3> QED BY <3>1, <1>5
  <2> QED BY <2>1
<1> QED BY <1>1, <1>2, <1>4, <1>7

LEMMA SpentWhenRefused ==
  ASSUME IInv, NEW k \in Key, api.pc = "idle", AddNoSlot(k)
  PROVE  count + Depth >= Entries
<1>1. Free = {}
  BY DEF AddNoSlot, Free
<1>2. Linked \cup Held = Position /\ Linked \cap Held = {} /\ Linked \in SUBSET Position
  BY <1>1 DEF IInv, PositionsConserved, Linked
<1>3. IsFiniteSet(Linked) /\ Cardinality(Linked) \in Nat /\ Cardinality(Position) = Entries
  BY <1>2, LinkedFinite
<1>4. Cardinality(Linked) = count
  BY DEF IInv, CountInv
<1>5. Cardinality(Linked \cap Held) = 0
  BY <1>2, FS_EmptySet
<1>6. Cardinality(Position) = Cardinality(Linked) + Cardinality(Held) - 0
  BY <1>2, <1>3, <1>5, HeldIsSmall, FS_Union
<1> QED BY <1>3, <1>4, <1>6, HeldIsSmall, DepthAssumption, EntriesAssumption

\* A create fails for want of a position only when the sessions and the Depth
\* positions held back fill the table.
THEOREM RingCostsAtMostDepth == Spec => []RefusedOnlyWhenSpent
<1>1. Init => RefusedOnlyWhenSpent
  BY DEF Init, RefusedOnlyWhenSpent
<1>2. IInv /\ RefusedOnlyWhenSpent /\ [Next]_vars => RefusedOnlyWhenSpent'
  <2> SUFFICES ASSUME IInv, RefusedOnlyWhenSpent, [Next]_vars PROVE RefusedOnlyWhenSpent'
    OBVIOUS
  <2>1. ASSUME NEW k \in Key, Create(k) PROVE RefusedOnlyWhenSpent'
    <3>1. CASE CreateFull(k) \/ CreateExists(k)
      BY <3>1 DEF CreateFull, CreateExists, Refused, RefusedOnlyWhenSpent
    <3>2. CASE CreateFails(k)
      <4>1. CASE AddNoSlot(k) /\ Refused("no_slot")
        BY <4>1, <3>2, SpentWhenRefused DEF CreateFails, Refused, RefusedOnlyWhenSpent, tableVars
      <4>2. CASE AddNoBucket(k) /\ Refused("no_bucket")
        BY <4>2 DEF Refused, RefusedOnlyWhenSpent
      <4> QED BY <3>2, <4>1, <4>2 DEF CreateFails
    <3>3. CASE \E p \in Position : CreateAdds(k, p)
      BY <3>3 DEF CreateAdds, RefusedOnlyWhenSpent, tableVars
    <3> QED BY <2>1, <3>1, <3>2, <3>3 DEF Create
  <2>2. ASSUME NEW k \in Key, Delete(k) PROVE RefusedOnlyWhenSpent'
    BY <2>2 DEF Delete, DeleteAbsent, DeleteMarks, Refused, RefusedOnlyWhenSpent
  <2>3. CASE CreateFills \/ CreateActivates \/ DeleteUnlinks
    BY <2>3 DEF CreateFills, CreateActivates, DeleteUnlinks, RefusedOnlyWhenSpent
  <2>4. CASE \/ \E k \in Key, p \in Position : PacketLookup(k, p)
             \/ PacketChecks \/ PacketDone
    BY <2>4 DEF PacketLookup, PacketChecks, PacketDone, RefusedOnlyWhenSpent, tableVars
  <2>5. CASE UNCHANGED vars
    BY <2>5 DEF vars, tableVars, RefusedOnlyWhenSpent
  <2> QED BY <2>1, <2>2, <2>3, <2>4, <2>5 DEF Next
<1> QED BY <1>1, <1>2, Inductive, PTL DEF Spec

-----------------------------------------------------------------------------
(* The refinement of SessionMap.                                           *)

Live == {k \in Key : \E p \in Hits(k) : pool[p].active /\ pool[p].owner = k}
Opening == IF api.pc \in {"fill", "activate"} THEN {api.key} ELSE {}
Closing == IF api.pc = "unlink" THEN {api.key} ELSE {}

\* A session is live when it has a bucket entry the API thread is not at.
Settled == {k \in Key : \E p \in Position : <<k, p>> \in bucket /\ ~Busy(p)}

LEMMA LiveIsSettled == IInv => Live = Settled
<1> SUFFICES ASSUME IInv PROVE Live = Settled
  OBVIOUS
<1>1. ASSUME NEW k \in Key, NEW p \in Position
      PROVE  (p \in Hits(k) /\ pool[p].active /\ pool[p].owner = k)
             <=> (<<k, p>> \in bucket /\ ~Busy(p))
  BY <1>1 DEF IInv, StoreInv, PoolInv, Hits, Busy
<1>2. ASSUME NEW k \in Key PROVE k \in Live <=> k \in Settled
  <2>1. Hits(k) \subseteq Position
    BY DEF Hits
  <2> QED BY <1>1, <2>1 DEF Live, Settled
<1>3. Live \subseteq Key /\ Settled \subseteq Key
  BY DEF Live, Settled
<1> QED BY <1>2, <1>3

LEMMA SettledNext == (IInv => Live = Settled)'
  BY LiveIsSettled, PTL

LEMMA RefinementStep ==
  ASSUME IInv, IInv', [Next]_vars
  PROVE  \/ UNCHANGED <<Live, Opening, Closing>>
         \/ \E k \in Key :
               \/ /\ Opening = {} /\ Closing = {} /\ k \notin Live
                  /\ Opening' = {k} /\ UNCHANGED <<Live, Closing>>
               \/ /\ Opening = {k} /\ Live' = Live \cup {k} /\ Opening' = {}
                  /\ UNCHANGED Closing
               \/ /\ Opening = {} /\ Closing = {} /\ k \in Live
                  /\ Live' = Live \ {k} /\ Closing' = {k} /\ UNCHANGED Opening
         \/ Closing' = {} /\ UNCHANGED <<Live, Opening>>
<1>1. Live = Settled /\ Live' = Settled'
  BY LiveIsSettled, SettledNext
<1>2. ASSUME bucket' = bucket, api'.pc = api.pc, api'.pos = api.pos, api'.key = api.key
      PROVE  UNCHANGED <<Live, Opening, Closing>>
  BY <1>1, <1>2 DEF Settled, Opening, Closing, Busy
<1>3. CASE UNCHANGED vars
  BY <1>2, <1>3 DEF vars, hashVars
<1>4. ASSUME NEW k \in Key, Create(k), \A p \in Position : ~CreateAdds(k, p)
      PROVE  UNCHANGED <<Live, Opening, Closing>>
  BY <1>2, <1>4
     DEF Create, CreateFull, CreateExists, CreateFails, Refused, AddNoSlot, AddNoBucket, hashVars
<1>5. ASSUME NEW k \in Key, NEW p \in Position, CreateAdds(k, p)
      PROVE  /\ Opening = {} /\ Closing = {} /\ k \notin Live
             /\ Opening' = {k} /\ UNCHANGED <<Live, Closing>>
  <2>1. /\ api.pc = "idle" /\ api' = [pc |-> "fill", key |-> k, pos |-> p]
        /\ bucket' = bucket \cup {<<k, p>>} /\ Hits(k) = {}
        /\ p = Head(freeSlots)
    BY <1>5 DEF CreateAdds, AddNew
  <2>2. \A l \in Key : <<l, p>> \notin bucket
    <3>1. p \in Free
      BY <1>5, TailOfDistinct
         DEF CreateAdds, AddNew, IInv, TypeOK, HashTypeOK, PositionsConserved, Distinct, Free, Elems
    <3> QED BY <3>1 DEF IInv, PositionsConserved, Linked
  <2>3. Settled' = Settled
    BY <2>1, <2>2 DEF Settled, Busy
  <2>4. k \notin Live
    BY <2>1 DEF Live
  <2> QED BY <2>1, <2>3, <2>4, <1>1 DEF Opening, Closing
<1>6. ASSUME CreateFills PROVE UNCHANGED <<Live, Opening, Closing>>
  <2>1. /\ api.pc = "fill" /\ api'.pc = "activate" /\ api'.pos = api.pos
        /\ api'.key = api.key /\ bucket' = bucket
    BY <1>6 DEF CreateFills, hashVars, IInv, TypeOK
  <2>2. Settled' = Settled
    BY <2>1 DEF Settled, Busy
  <2> QED BY <2>1, <2>2, <1>1 DEF Opening, Closing
<1>7. CASE CreateActivates
  <2>1. /\ api.pc = "activate" /\ api' = ApiIdle /\ bucket' = bucket
        /\ api.key \in Key /\ api.pos \in Position /\ <<api.key, api.pos>> \in bucket
    BY <1>7 DEF CreateActivates, hashVars, IInv, ApiInv
  <2>2. \A k \in Key : <<k, api.pos>> \in bucket => k = api.key
    BY <2>1 DEF IInv, PositionsConserved
  <2>3. Settled' = Settled \cup {api.key}
    BY <2>1, <2>2 DEF Settled, Busy, ApiIdle
  <2> QED BY <2>1, <2>3, <1>1 DEF Opening, Closing, ApiIdle
<1>8. ASSUME NEW k \in Key, NEW p \in Position, DeleteMarks(k, p)
      PROVE  /\ Opening = {} /\ Closing = {} /\ k \in Live
             /\ Live' = Live \ {k} /\ Closing' = {k} /\ UNCHANGED Opening
  <2>1. /\ api.pc = "idle" /\ api' = [pc |-> "unlink", key |-> k, pos |-> p]
        /\ bucket' = bucket /\ <<k, p>> \in bucket
    BY <1>8 DEF DeleteMarks, hashVars, Hits
  <2>2. \A l \in Key : <<l, p>> \in bucket => l = k
    BY <2>1 DEF IInv, PositionsConserved
  <2>3. \A q \in Position : <<k, q>> \in bucket => q = p
    BY <2>1 DEF IInv, StoreInv
  <2>4. k \in Settled /\ Settled' = Settled \ {k}
    BY <2>1, <2>2, <2>3 DEF Settled, Busy
  <2> QED BY <2>1, <2>4, <1>1 DEF Opening, Closing
<1>9. ASSUME NEW k \in Key, DeleteAbsent(k) PROVE UNCHANGED <<Live, Opening, Closing>>
  BY <1>2, <1>9 DEF DeleteAbsent, Refused, hashVars
<1>10. CASE DeleteUnlinks
  <2>1. /\ api.pc = "unlink" /\ api' = ApiIdle
        /\ bucket' = bucket \ {<<api.key, api.pos>>}
        /\ api.key \in Key /\ api.pos \in Position /\ <<api.key, api.pos>> \in bucket
    BY <1>10 DEF DeleteUnlinks, DelEntry, IInv, ApiInv
  <2>2. \A k \in Key : <<k, api.pos>> \in bucket => k = api.key
    BY <2>1 DEF IInv, PositionsConserved
  <2>3. Settled' = Settled
    BY <2>1, <2>2 DEF Settled, Busy, ApiIdle
  <2> QED BY <2>1, <2>3, <1>1 DEF Opening, Closing, ApiIdle
<1>11. CASE \/ \E k \in Key, p \in Position : PacketLookup(k, p)
            \/ PacketChecks \/ PacketDone
  BY <1>2, <1>11 DEF PacketLookup, PacketChecks, PacketDone, hashVars
<1>12. ASSUME NEW k \in Key, Delete(k) PROVE DeleteAbsent(k) \/ \E p \in Position : DeleteMarks(k, p)
  BY <1>12 DEF Delete
<1>13. \/ \E k \in Key : Create(k) \/ Delete(k)
       \/ CreateFills \/ CreateActivates \/ DeleteUnlinks
       \/ \E k \in Key, p \in Position : PacketLookup(k, p)
       \/ PacketChecks \/ PacketDone
       \/ UNCHANGED vars
  BY DEF Next
<1> QED BY <1>3, <1>4, <1>5, <1>6, <1>7, <1>8, <1>9, <1>10, <1>11, <1>12, <1>13

\* To the threads that look sessions up the table behaves as a SessionMap: a
\* session comes and goes with its own create and delete only.
THEOREM TableIsASessionMap == Spec => SessionMapSpec
<1> USE DEF Sessions!Init, Sessions!Next, Sessions!vars, Sessions!Begin, Sessions!Open,
        Sessions!Close, Sessions!End
<1>1. Init => Sessions!Init
  BY DEF Init, HashInit, Hits, ApiIdle
<1>2. IInv /\ IInv' /\ [Next]_vars => [Sessions!Next]_(Sessions!vars)
  BY RefinementStep DEF Live, Opening, Closing
<1> QED BY <1>1, <1>2, Inductive, PTL DEF Spec, SessionMapSpec, Sessions!Spec
=============================================================================
