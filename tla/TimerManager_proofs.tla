------------------------ MODULE TimerManager_proofs ------------------------
(***************************************************************************)
(* Theorems about TimerManager, for every set of timers, every set of entry *)
(* objects, every choice of durations and every lag of the tick goroutine.  *)
(***************************************************************************)
EXTENDS TimerManager, TLAPS

USE TimerAssumption DEF OptAssumption

\* The inductive strengthening of CancelIsFinal.  It relates the map, the heap
\* and the two local lists of tick: an entry is armed under its own key only
\* and unmarked; a collected expiry is not armed any more, is not in the other
\* list and is unmarked; two collected expiries have different keys.
ArmedInv == \A k \in Keys : timers[k] # None =>
                entry[timers[k]].key = k /\ timers[k] \notin cancelled
CollectedInv == \A e \in expired : e \notin Armed /\ e \notin retx /\ e \notin cancelled
KeyInv == \A e, f \in expired : entry[e].key = entry[f].key => e = f

Inv == ArmedInv /\ CollectedInv /\ KeyInv

LEMMA OptType ==
    ASSUME NEW k \in Keys
    PROVE  /\ Opt[k].duration \in Nat
           /\ Opt[k].maxRetransmit \in Nat
           /\ Opt[k].retransmitEvery \in Nat
  OBVIOUS

LEMMA NewEntryType ==
    ASSUME NEW k \in Keys
    PROVE  NewEntry(k) \in Entry
  BY OptType DEF NewEntry, Entry

LEMMA ResentType ==
    ASSUME TypeOK, NEW e \in Entries
    PROVE  /\ Resent(e) \in Entry
           /\ Resent(e).key = entry[e].key
<1>1. entry[e] \in Entry
  BY DEF TypeOK
<1>2. entry[e].key \in Keys
  BY <1>1 DEF Entry
<1>3. /\ Opt[entry[e].key].retransmitEvery \in Nat
      /\ entry[e].retransmitCount \in Nat /\ entry[e].retransmitCount + 1 \in Nat
  BY <1>1, <1>2, OptType DEF Entry
<1> QED BY <1>1, <1>3 DEF Resent, Entry

LEMMA InitInv == Init => TypeOK /\ Inv
<1> SUFFICES ASSUME Init PROVE TypeOK /\ Inv
  OBVIOUS
<1>1. (CHOOSE k \in Keys : TRUE) \in Keys
  BY DEF TimerAssumption
<1>2. entry \in [Entries -> Entry]
  BY <1>1 DEF Init, Entry
<1> QED BY <1>2 DEF Init, TypeOK, Inv, ArmedInv, CollectedInv, KeyInv, Armed, Batch

LEMMA StartInv ==
    ASSUME TypeOK, Inv, NEW k \in Keys, Start(k)
    PROVE  TypeOK' /\ Inv'
<1>1. PICK e \in Entries : /\ Free(e)
                           /\ timers' = [timers EXCEPT ![k] = e]
                           /\ entry' = [entry EXCEPT ![e] = NewEntry(k)]
                           /\ cancelled' = (cancelled \union ArmedUnder({k})) \ {e}
                           /\ UNCHANGED <<retx, expired, current, lag>>
  BY DEF Start
<1>2. e \notin Armed /\ e \notin retx /\ e \notin expired
  BY <1>1 DEF Free
<1>3. TypeOK'
  BY <1>1, NewEntryType DEF TypeOK, Batch, ArmedUnder
<1>4. \A f \in Entries : f # e => entry'[f] = entry[f]
  BY <1>1 DEF TypeOK
<1>5. entry'[e].key = k /\ e \notin cancelled'
  BY <1>1 DEF NewEntry, TypeOK
<1>6. \A j \in Keys : j # k =>
          /\ timers'[j] = timers[j]
          /\ timers[j] # None => (timers[j] # timers[k] /\ timers[j] # e)
  BY <1>1, <1>2 DEF TypeOK, Inv, ArmedInv, CollectedInv, KeyInv, Armed
<1>7. \A j \in Keys : timers'[j] # None =>
          entry'[timers'[j]].key = j /\ timers'[j] \notin cancelled'
  <2> SUFFICES ASSUME NEW j \in Keys, timers'[j] # None
               PROVE  entry'[timers'[j]].key = j /\ timers'[j] \notin cancelled'
    OBVIOUS
  <2>1. CASE j = k
    BY <2>1, <1>1, <1>5 DEF TypeOK
  <2>2. CASE j # k
    BY <2>2, <1>1, <1>4, <1>6 DEF TypeOK, Inv, ArmedInv, CollectedInv, KeyInv, ArmedUnder
  <2> QED BY <2>1, <2>2
<1>8. \A f \in expired : entry'[f] = entry[f] /\ f # e /\ f \notin Armed /\ f \notin cancelled'
  BY <1>1, <1>2, <1>4 DEF TypeOK, Inv, ArmedInv, CollectedInv, KeyInv, Armed, ArmedUnder
<1>9. \A f \in expired : f \notin Armed'
  BY <1>1, <1>8 DEF Armed, TypeOK
<1>10. ArmedInv'
  BY <1>7 DEF ArmedInv
<1>11. CollectedInv' /\ KeyInv'
  <2>1. expired' = expired /\ retx' = retx
    BY <1>1
  <2>2. \A f \in expired : f \notin retx
    BY DEF Inv, CollectedInv
  <2>3. KeyInv
    BY DEF Inv
  <2> QED BY <2>1, <2>2, <2>3, <1>8, <1>9 DEF CollectedInv, KeyInv
<1> QED BY <1>3, <1>10, <1>11 DEF Inv

LEMMA RemoveInv ==
    ASSUME TypeOK, Inv, NEW keys \in SUBSET Keys, Remove(keys)
    PROVE  TypeOK' /\ Inv'
<1>1. TypeOK'
  BY DEF Remove, TypeOK, Batch, ArmedUnder
<1>2. \A j \in Keys : timers'[j] # None => j \notin keys /\ timers'[j] = timers[j]
  BY DEF Remove
<1>3. \A j \in Keys \ keys : timers[j] # None => timers[j] \notin cancelled'
  BY DEF Remove, Inv, ArmedInv, CollectedInv, KeyInv, ArmedUnder
<1>4. \A e \in expired : e \notin cancelled'
  BY DEF Remove, Inv, ArmedInv, CollectedInv, KeyInv, Armed, ArmedUnder
<1>5. Armed' \subseteq Armed
  BY <1>2 DEF Armed
<1> QED BY <1>1, <1>2, <1>3, <1>4, <1>5 DEF Inv, ArmedInv, CollectedInv, KeyInv, Remove

LEMMA TickInv ==
    ASSUME TypeOK, Inv, Tick
    PROVE  TypeOK' /\ Inv'
<1> DEFINE live   == Armed \ cancelled
           resend == {e \in live : RetransmitDue(e)}
           over   == {e \in live \ resend : entry[e].expires = 0}
<1>1. Armed \subseteq Entries /\ live = Armed
  BY DEF Armed, TypeOK, Inv, ArmedInv, CollectedInv, KeyInv
<1>2. /\ retx' = resend /\ expired' = over /\ current' = current
      /\ timers' = [k \in Keys |-> IF timers[k] \in live \ over THEN timers[k] ELSE None]
      /\ entry' = [e \in Entries |-> IF e \in resend THEN Resent(e) ELSE entry[e]]
      /\ lag' = 0 /\ cancelled' = cancelled /\ retx = {} /\ expired = {}
  BY DEF Tick, Idle
<1> HIDE DEF live, resend, over
<1>3. resend \subseteq Armed /\ over \subseteq Armed /\ resend \cap over = {}
  BY <1>1 DEF live, resend, over
<1>4. entry' \in [Entries -> Entry]
  BY <1>2, ResentType DEF TypeOK
<1>5. \A e \in Entries : entry'[e].key = entry[e].key
  BY <1>2, ResentType
<1>6. TypeOK'
  BY <1>1, <1>2, <1>3, <1>4 DEF TypeOK, Batch
<1>7. \A k \in Keys : timers'[k] # None => timers'[k] = timers[k] /\ timers[k] \notin over
  BY <1>2
<1>8. \A k \in Keys : timers'[k] # None =>
          entry'[timers'[k]].key = k /\ timers'[k] \notin cancelled'
  BY <1>2, <1>5, <1>7 DEF TypeOK, ArmedInv, Inv
<1>9. \A e \in over : e \notin Armed' /\ e \notin resend /\ e \notin cancelled
  BY <1>1, <1>3, <1>5, <1>7 DEF Armed, Inv, ArmedInv, CollectedInv, KeyInv, live
<1>10. \A e, f \in over : entry'[e].key = entry'[f].key => e = f
  BY <1>1, <1>3, <1>5 DEF Armed, Inv, ArmedInv, CollectedInv, KeyInv
<1> QED BY <1>2, <1>6, <1>8, <1>9, <1>10 DEF Inv, ArmedInv, CollectedInv, KeyInv

LEMMA ClockKeepsKeys ==
    ASSUME TypeOK, ClockAdvance, NEW e \in Entries
    PROVE  entry'[e] \in Entry /\ entry'[e].key = entry[e].key
<1>1. \A n \in Nat : Less(n) \in Nat
  BY DEF Less
<1>2. entry[e] \in Entry
  BY DEF TypeOK
<1> QED BY <1>1, <1>2 DEF ClockAdvance, Entry

LEMMA ClockInv ==
    ASSUME TypeOK, Inv, ClockAdvance
    PROVE  TypeOK' /\ Inv'
<1>1. \A e \in Entries : entry'[e] \in Entry /\ entry'[e].key = entry[e].key
  BY ClockKeepsKeys
<1>2. entry' \in [Entries -> Entry]
  BY <1>1 DEF ClockAdvance
<1>3. lag' \in 0..MaxLag
  <2>1. lag \in Nat /\ lag < MaxLag /\ MaxLag \in Nat /\ lag' = lag + 1
    <3>1. lag \in 0..MaxLag
      BY DEF TypeOK
    <3>2. lag < MaxLag /\ lag' = lag + 1
      BY DEF ClockAdvance
    <3> QED BY <3>1, <3>2
  <2> QED BY <2>1
<1>4. TypeOK'
  BY <1>2, <1>3 DEF ClockAdvance, TypeOK, Batch
<1>5. Armed' = Armed
  BY DEF ClockAdvance, Armed
<1>6. timers' = timers /\ cancelled' = cancelled /\ expired' = expired /\ retx' = retx
  BY DEF ClockAdvance
<1>7. ArmedInv'
  BY <1>1, <1>6 DEF Inv, ArmedInv, TypeOK
<1>8. CollectedInv' /\ KeyInv'
  BY <1>1, <1>5, <1>6 DEF Inv, CollectedInv, KeyInv, TypeOK
<1> QED BY <1>4, <1>7, <1>8 DEF Inv

LEMMA WalkInv ==
    ASSUME TypeOK, Inv, NEW e \in Entries, PickUp(e) \/ Skip(e) \/ Call(e)
    PROVE  TypeOK' /\ Inv'
<1>1. CASE PickUp(e)
  BY <1>1 DEF PickUp, TypeOK, Inv, ArmedInv, CollectedInv, KeyInv, Armed, Batch
<1>2. CASE Skip(e)
  BY <1>2 DEF Skip, Done, TypeOK, Inv, ArmedInv, CollectedInv, KeyInv, Armed, Batch
<1>3. CASE Call(e)
  BY <1>3 DEF Call, Done, TypeOK, Inv, ArmedInv, CollectedInv, KeyInv, Armed, Batch
<1> QED BY <1>1, <1>2, <1>3

LEMMA NextInv ==
    ASSUME TypeOK, Inv, [Next]_vars
    PROVE  TypeOK' /\ Inv'
<1>1. CASE UNCHANGED vars
  BY <1>1 DEF vars, TypeOK, Inv, ArmedInv, CollectedInv, KeyInv, Armed, Batch
<1>2. ASSUME NEW k \in Keys, Start(k) PROVE TypeOK' /\ Inv'
  BY <1>2, StartInv
<1>3. ASSUME NEW k \in Keys, Cancel(k) PROVE TypeOK' /\ Inv'
  BY <1>3, RemoveInv DEF Cancel
<1>4. ASSUME NEW u \in UEs, CancelAllForUE(u) PROVE TypeOK' /\ Inv'
  BY <1>4, RemoveInv DEF CancelAllForUE
<1>5. CASE Tick
  BY <1>5, TickInv
<1>6. CASE ClockAdvance
  BY <1>6, ClockInv
<1>7. ASSUME NEW e \in Entries, PickUp(e) \/ Skip(e) \/ Call(e) PROVE TypeOK' /\ Inv'
  BY <1>7, WalkInv
<1> QED BY <1>1, <1>2, <1>3, <1>4, <1>5, <1>6, <1>7 DEF Next

-----------------------------------------------------------------------------
\* Every variable of the manager keeps its shape (manager.go:64-73 and the
\* locals of tick).
THEOREM TypeCorrect == Spec => []TypeOK
<1>1. TypeOK /\ Inv /\ [Next]_vars => (TypeOK /\ Inv)'
  BY NextInv
<1> QED BY InitInv, <1>1, PTL DEF Spec

THEOREM InvCorrect == Spec => [](TypeOK /\ Inv)
<1>1. TypeOK /\ Inv /\ [Next]_vars => (TypeOK /\ Inv)'
  BY NextInv
<1> QED BY InitInv, <1>1, PTL DEF Spec

\* A Cancel that returned true, or a Start that replaced the timer, is final:
\* the expiry it stopped is never called (manager.go:92-155, 296-334).
THEOREM CancelFinal == Spec => []CancelIsFinal
<1>1. Inv => CancelIsFinal
  BY DEF Inv, ArmedInv, CollectedInv, KeyInv, CancelIsFinal
<1> QED BY InvCorrect, <1>1, PTL

-----------------------------------------------------------------------------
(* Refinement of the abstract timer service.                               *)

armedS == {k \in Keys : timers[k] # None}
dueS == {entry[e].key : e \in expired}

LEMMA InitRefines == Init => Service!Init
  BY DEF Init, Service!Init

LEMMA StartRefines ==
    ASSUME TypeOK, Inv, NEW k \in Keys, Start(k)
    PROVE  Service!Next
<1>1. PICK e \in Entries : /\ Free(e)
                           /\ timers' = [timers EXCEPT ![k] = e]
                           /\ entry' = [entry EXCEPT ![e] = NewEntry(k)]
                           /\ expired' = expired
  BY DEF Start
<1>2. armedS' = (armedS \ {}) \union {k}
  BY <1>1 DEF armedS, TypeOK, TimerAssumption
<1>3. \A f \in expired : entry'[f] = entry[f]
  BY <1>1 DEF Free, TypeOK
<1>4. dueS' = dueS
  BY <1>1, <1>3 DEF dueS
<1>5. Service!Update
  BY <1>2, <1>4 DEF Service!Update, armedS, dueS
<1> QED BY <1>5 DEF Service!Next

LEMMA RemoveRefines ==
    ASSUME TypeOK, NEW keys \in SUBSET Keys, Remove(keys)
    PROVE  Service!Next
<1>1. armedS' = (armedS \ keys) \union {}
  BY DEF Remove, armedS
<1>2. dueS' = dueS
  BY DEF Remove, dueS
<1>3. Service!Update
  BY <1>1, <1>2 DEF Service!Update, armedS, dueS
<1> QED BY <1>3 DEF Service!Next

LEMMA TickRefines ==
    ASSUME TypeOK, Inv, Tick
    PROVE  Service!Next
<1> DEFINE live   == Armed \ cancelled
           resend == {e \in live : RetransmitDue(e)}
           over   == {e \in live \ resend : entry[e].expires = 0}
           keys   == {k \in Keys : timers[k] \in over}
<1>1. live = Armed /\ Armed \subseteq Entries
  BY DEF Armed, TypeOK, Inv, ArmedInv
<1>2. /\ expired' = over /\ expired = {}
      /\ timers' = [k \in Keys |-> IF timers[k] \in live \ over THEN timers[k] ELSE None]
      /\ entry' = [e \in Entries |-> IF e \in resend THEN Resent(e) ELSE entry[e]]
  BY DEF Tick, Idle
<1>3. over \subseteq Armed /\ \A e \in over : e \notin resend
  BY <1>1
<1> HIDE DEF live, resend, over
<1>4. \A k \in Keys : timers[k] # None => timers[k] \in Armed /\ entry[timers[k]].key = k
  BY DEF Armed, Inv, ArmedInv
<1>5. \A k \in Keys : timers'[k] # None <=> timers[k] # None /\ timers[k] \notin over
  BY <1>1, <1>2, <1>4
<1>6. armedS' = armedS \ keys
  BY <1>5 DEF armedS
<1>7. \A e \in over : entry'[e] = entry[e] /\ \E k \in keys : entry[e].key = k
  BY <1>1, <1>2, <1>3, <1>4 DEF Armed
<1>8. \A k \in keys : entry[timers[k]].key = k /\ timers[k] \in over /\ timers[k] # None
  BY <1>3, <1>4 DEF Armed
<1>9. dueS' = keys
  <2>1. dueS' = {entry'[e].key : e \in over}
    BY <1>2 DEF dueS
  <2>2. \A k \in keys : k \in {entry'[e].key : e \in over}
    BY <1>7, <1>8
  <2>3. \A e \in over : entry'[e].key \in keys
    BY <1>7
  <2> QED BY <2>1, <2>2, <2>3
<1>10. keys \subseteq armedS /\ dueS = {} /\ keys \subseteq Keys
  BY <1>2, <1>8 DEF armedS, dueS
<1>11. Service!Expire
  BY <1>6, <1>9, <1>10 DEF Service!Expire, armedS, dueS
<1> QED BY <1>11 DEF Service!Next

LEMMA CallRefines ==
    ASSUME TypeOK, Inv, NEW e \in Entries, Call(e)
    PROVE  [Service!Next]_(Service!vars)
<1>1. armedS' = armedS /\ expired' = expired \ {e} /\ entry' = entry
  BY DEF Call, Done, armedS
<1>2. CASE e \in expired
  <2>1. PICK k \in Keys : k = entry[e].key
    BY DEF TypeOK, Entry
  <2>2. k \in dueS /\ dueS' = dueS \ {k}
    BY <1>1, <1>2, <2>1 DEF dueS, Inv, KeyInv
  <2>3. Service!Deliver(k)
    BY <1>1, <2>2 DEF Service!Deliver, armedS, dueS
  <2> QED BY <2>3 DEF Service!Next
<1>3. CASE e \notin expired
  BY <1>1, <1>3 DEF Service!vars, armedS
<1> QED BY <1>2, <1>3

\* The timer manager implements the abstract service its clients are modelled
\* against: an expiry callback runs only for a timer that was armed when a pass
\* of tick collected it, and once.
THEOREM RefinesService == Spec => ServiceSpec
<1>1. ASSUME TypeOK, Inv, [Next]_vars
      PROVE  [Service!Next]_(Service!vars)
  <2>1. CASE UNCHANGED vars
    BY <2>1 DEF vars, Service!vars
  <2>2. ASSUME NEW k \in Keys, Start(k) PROVE Service!Next
    BY <1>1, <2>2, StartRefines
  <2>3. ASSUME NEW k \in Keys, Cancel(k) PROVE Service!Next
    BY <1>1, <2>3, RemoveRefines DEF Cancel
  <2>4. ASSUME NEW u \in UEs, CancelAllForUE(u) PROVE Service!Next
    BY <1>1, <2>4, RemoveRefines DEF CancelAllForUE
  <2>5. CASE Tick
    BY <1>1, <2>5, TickRefines
  <2>6. CASE ClockAdvance
    <3>1. \A f \in expired : entry'[f].key = entry[f].key
      BY <1>1, <2>6, ClockKeepsKeys DEF TypeOK
    <3> QED BY <2>6, <3>1 DEF ClockAdvance, Service!vars
  <2>7. ASSUME NEW e \in Entries, PickUp(e) \/ Skip(e)
        PROVE  UNCHANGED Service!vars
    BY <1>1, <2>7 DEF PickUp, Skip, Done, Service!vars, TypeOK, Batch, Inv, CollectedInv
  <2>8. ASSUME NEW e \in Entries, Call(e) PROVE [Service!Next]_(Service!vars)
    BY <1>1, <2>8, CallRefines
  <2> QED BY <1>1, <2>1, <2>2, <2>3, <2>4, <2>5, <2>6, <2>7, <2>8 DEF Next
<1> QED BY InitRefines, InvCorrect, <1>1, PTL DEF Spec, ServiceSpec, Service!Spec

-----------------------------------------------------------------------------
(* The retransmission stream goes before the expiry.                       *)

\* What StartManager's callers pass (nf/amf/gmm/fsm/fsm.go:211-216) and a tick
\* goroutine that is late by less than one interval over the whole stream.
Punctual ==
    \A k \in Keys :
        LET o == Opt[k] IN
        o.retransmitEvery > 0 =>
            /\ o.duration = o.retransmitEvery * (o.maxRetransmit + 1)
            /\ MaxLag * o.maxRetransmit <= o.retransmitEvery

Every(e) == Opt[entry[e].key].retransmitEvery
Most(e) == Opt[entry[e].key].maxRetransmit

\* How long a due retransmission has waited for the pass that sends it.
Waited(e) == IF entry[e].nextRetransmit = 0 THEN lag ELSE 0

\* The time left covers the rest of the stream, up to the lateness of the
\* passes so far: each retransmission sent was late by MaxLag at most, and the
\* one that is due by the time since the last pass.
InTime(e) ==
    (Most(e) - entry[e].retransmitCount) * Every(e) + entry[e].nextRetransmit
        <= entry[e].expires + entry[e].retransmitCount * MaxLag + Waited(e)

OnSchedule(e) ==
    Every(e) > 0 =>
        /\ entry[e].retransmitCount <= Most(e)
        /\ entry[e].retransmitCount < Most(e) => InTime(e)

StreamInv == \A e \in Armed : OnSchedule(e)

LEMMA TotalLateness ==
    ASSUME NEW n \in Nat, NEW most \in Nat, NEW late \in Nat, NEW every \in Nat,
           n < most, late * most <= every
    PROVE  n * late + late <= every
<1>1. PICK d \in Nat : most = n + 1 + d
  <2>1. most - n - 1 \in Nat /\ most = n + 1 + (most - n - 1)
    OBVIOUS
  <2> QED BY <2>1
<1>2. late * most = n * late + late + late * d
  BY <1>1
<1>3. n * late \in Nat /\ late * d \in Nat
  OBVIOUS
<1> QED BY <1>2, <1>3

LEMMA RestOfStream ==
    ASSUME NEW n \in Nat, NEW most \in Nat, NEW every \in Nat, n < most
    PROVE  /\ (most - n) * every \in Nat
           /\ (most - n) * every >= every
           /\ (most - n) * every = (most - (n + 1)) * every + every
           /\ (most - (n + 1)) * every \in Nat
<1>1. PICK d \in Nat : d = most - n - 1
  OBVIOUS
<1>2. most - n = d + 1 /\ most - (n + 1) = d
  BY <1>1
<1>3. (d + 1) * every = d * every + every /\ d * every \in Nat
  OBVIOUS
<1> QED BY <1>2, <1>3

\* Before the last retransmission is sent the timer cannot have run out, unless
\* a retransmission is due and the next pass is about to see it.
LEMMA NotYetOver ==
    ASSUME TypeOK, Punctual, NEW e \in Entries, Every(e) > 0,
           entry[e].retransmitCount < Most(e), InTime(e),
           entry[e].expires = 0
    PROVE  entry[e].nextRetransmit = 0 /\ lag = MaxLag
<1>1. entry[e] \in Entry
  BY DEF TypeOK
<1>2. PICK n \in Nat, r \in Nat, m \in Nat, i \in Nat, l \in Nat, x \in Nat, g \in Nat :
          /\ n = entry[e].retransmitCount /\ r = entry[e].nextRetransmit
          /\ m = Most(e) /\ i = Every(e) /\ l = MaxLag /\ x = entry[e].expires /\ g = lag
  BY <1>1, OptType DEF Entry, Most, Every, TypeOK, TimerAssumption
<1>3. l * m <= i /\ i > 0 /\ n < m /\ g <= l
  BY <1>1, <1>2 DEF Punctual, Entry, Most, Every, TypeOK
<1>4. n * l + l <= i /\ n * l \in Nat
  BY <1>3, TotalLateness
<1>5. (m - n) * i >= i /\ (m - n) * i \in Nat
  BY <1>3, RestOfStream
<1>6. (m - n) * i + r <= n * l + (IF r = 0 THEN g ELSE 0)
  BY <1>2 DEF InTime, Waited
<1>7. l > 0
  BY <1>2 DEF TimerAssumption
<1> QED BY <1>2, <1>3, <1>4, <1>5, <1>6, <1>7

LEMMA StartOnSchedule ==
    ASSUME TypeOK, Punctual, StreamInv, RetransmitsBeforeExpiry,
           NEW k \in Keys, Start(k)
    PROVE  StreamInv' /\ RetransmitsBeforeExpiry'
<1>1. PICK e \in Entries : /\ Free(e)
                           /\ timers' = [timers EXCEPT ![k] = e]
                           /\ entry' = [entry EXCEPT ![e] = NewEntry(k)]
                           /\ expired' = expired /\ lag' = lag
  BY DEF Start
<1>2. \A f \in Entries : f # e => entry'[f] = entry[f]
  BY <1>1 DEF TypeOK
<1>3. entry'[e] = NewEntry(k)
  BY <1>1 DEF TypeOK
<1>4. Armed' \subseteq Armed \union {e} /\ Armed \subseteq Entries
  BY <1>1 DEF Armed, TypeOK
<1>5. OnSchedule(e)'
  <2> SUFFICES ASSUME Every(e)' > 0
               PROVE  /\ entry'[e].retransmitCount <= Most(e)'
                      /\ entry'[e].retransmitCount < Most(e)' => InTime(e)'
    BY DEF OnSchedule
  <2>1. PICK m \in Nat, i \in Nat, x \in Nat :
            m = Opt[k].maxRetransmit /\ i = Opt[k].retransmitEvery /\ x = Opt[k].duration
    BY OptType
  <2>2. /\ Every(e)' = i /\ Most(e)' = m
        /\ entry'[e].retransmitCount = 0
        /\ entry'[e].nextRetransmit = i /\ entry'[e].expires = x
    BY <1>3, <2>1 DEF NewEntry, Every, Most
  <2>3. x = i * (m + 1) /\ i > 0
    BY <2>1, <2>2 DEF Punctual
  <2>4. (m - 0) * i + i = x + 0 * MaxLag + 0
    BY <2>3 DEF TimerAssumption
  <2>5. Waited(e)' = 0
    BY <2>2, <2>3 DEF Waited
  <2> QED BY <2>2, <2>4, <2>5 DEF InTime
<1>6. \A f \in Armed : f # e => OnSchedule(f)'
  BY <1>1, <1>2, <1>4 DEF StreamInv, OnSchedule, Every, Most, InTime, Waited
<1>7. \A f \in expired : f # e /\ entry'[f] = entry[f]
  BY <1>1, <1>2 DEF Free, TypeOK
<1> QED BY <1>1, <1>4, <1>5, <1>6, <1>7 DEF StreamInv, RetransmitsBeforeExpiry

LEMMA RemoveOnSchedule ==
    ASSUME StreamInv, RetransmitsBeforeExpiry, NEW keys \in SUBSET Keys, Remove(keys)
    PROVE  StreamInv' /\ RetransmitsBeforeExpiry'
<1>1. Armed' \subseteq Armed
  BY DEF Armed, Remove
<1> QED BY <1>1 DEF Remove, StreamInv, RetransmitsBeforeExpiry, OnSchedule, Every, Most,
                    InTime, Waited

\* A retransmission that a pass sends was at most MaxLag late.
LEMMA ResentOnSchedule ==
    ASSUME TypeOK, NEW e \in Entries, OnSchedule(e), RetransmitDue(e),
           entry'[e] = Resent(e), lag' = 0
    PROVE  OnSchedule(e)'
<1>1. entry[e] \in Entry /\ lag \in 0..MaxLag /\ lag \in Nat
  BY DEF TypeOK
<1>2. PICK n \in Nat, m \in Nat, i \in Nat, l \in Nat, x \in Nat, g \in Nat :
          /\ n = entry[e].retransmitCount
          /\ m = Most(e) /\ i = Every(e) /\ l = MaxLag /\ x = entry[e].expires /\ g = lag
  BY <1>1, OptType DEF Entry, Most, Every, TimerAssumption
<1>3. n < m /\ i > 0 /\ entry[e].nextRetransmit = 0 /\ g <= l
  BY <1>1, <1>2 DEF RetransmitDue, Most, Every
<1>4. (m - n) * i + 0 <= x + n * l + g
  BY <1>2, <1>3 DEF OnSchedule, InTime, Waited
<1>5. /\ entry'[e].key = entry[e].key /\ entry'[e].retransmitCount = n + 1
      /\ entry'[e].nextRetransmit = i /\ entry'[e].expires = x
  BY <1>1, <1>2 DEF Resent, Entry, Every
<1>6. Every(e)' = i /\ Most(e)' = m /\ Waited(e)' = 0
  BY <1>2, <1>3, <1>5 DEF Every, Most, Waited
<1>7. (m - (n + 1)) * i + i <= x + (n + 1) * l + 0
  <2>1. (m - n) * i = (m - (n + 1)) * i + i /\ (m - n) * i \in Nat
    BY <1>3, RestOfStream
  <2>2. (n + 1) * l = n * l + l /\ n * l \in Nat
    OBVIOUS
  <2> QED BY <1>3, <1>4, <2>1, <2>2
<1>8. InTime(e)'
  BY <1>2, <1>5, <1>6, <1>7 DEF InTime
<1>9. n + 1 <= m
  BY <1>3
<1> QED BY <1>5, <1>6, <1>8, <1>9 DEF OnSchedule

LEMMA TickOnSchedule ==
    ASSUME TypeOK, Inv, Punctual, StreamInv, Tick
    PROVE  StreamInv' /\ RetransmitsBeforeExpiry'
<1> DEFINE live   == Armed \ cancelled
           resend == {e \in live : RetransmitDue(e)}
           over   == {e \in live \ resend : entry[e].expires = 0}
<1>1. Armed \subseteq Entries /\ live = Armed
  BY DEF Armed, TypeOK, Inv, ArmedInv
<1>2. /\ expired' = over /\ lag' = 0
      /\ timers' = [k \in Keys |-> IF timers[k] \in live \ over THEN timers[k] ELSE None]
      /\ entry' = [e \in Entries |-> IF e \in resend THEN Resent(e) ELSE entry[e]]
  BY DEF Tick
<1>3. /\ over \subseteq Armed \ resend /\ \A e \in over : entry[e].expires = 0
      /\ \A e \in Armed : e \in resend <=> RetransmitDue(e)
  BY <1>1
<1> HIDE DEF live, resend, over
<1>4. Armed' \subseteq Armed \ over
  BY <1>1, <1>2 DEF Armed
<1>5. ASSUME NEW e \in Armed, e \notin resend
      PROVE  /\ entry'[e] = entry[e]
             /\ Every(e) > 0 /\ entry[e].retransmitCount < Most(e)
                    => entry[e].nextRetransmit # 0
  BY <1>1, <1>2, <1>3, <1>5 DEF RetransmitDue, Every, Most
<1>6. ASSUME NEW e \in Armed PROVE OnSchedule(e)'
  <2>1. OnSchedule(e)
    BY <1>6 DEF StreamInv
  <2>2. CASE e \in resend
    <3>1. entry'[e] = Resent(e) /\ RetransmitDue(e)
      BY <1>1, <1>2, <1>3, <2>2
    <3> QED BY <1>1, <1>2, <2>1, <3>1, ResentOnSchedule
  <2>3. CASE e \notin resend
    <3>1. entry'[e] = entry[e]
      BY <1>5, <2>3
    <3>2. Every(e)' = Every(e) /\ Most(e)' = Most(e)
      BY <3>1 DEF Every, Most
    <3>3. Every(e) > 0 /\ entry[e].retransmitCount < Most(e) => Waited(e)' = Waited(e)
      BY <1>5, <2>3, <3>1 DEF Waited
    <3> QED BY <2>1, <3>1, <3>2, <3>3 DEF OnSchedule, InTime
  <2> QED BY <2>2, <2>3
<1>7. ASSUME NEW e \in over
      PROVE  Every(e)' > 0 => entry'[e].retransmitCount = Most(e)'
  <2>1. e \in Armed /\ e \notin resend /\ e \in Entries /\ OnSchedule(e)
    BY <1>1, <1>3, <1>7 DEF StreamInv
  <2>2. entry'[e] = entry[e] /\ entry[e] \in Entry
    BY <1>5, <2>1 DEF TypeOK
  <2>3. Every(e)' = Every(e) /\ Most(e)' = Most(e)
    BY <2>2 DEF Every, Most
  <2>4. Every(e) > 0 => ~(entry[e].retransmitCount < Most(e))
    BY <1>3, <1>5, <1>7, <2>1, NotYetOver DEF OnSchedule
  <2>5. entry[e].retransmitCount \in Nat /\ Most(e) \in Nat
    BY <2>2, OptType DEF Entry, Most
  <2> QED BY <2>1, <2>2, <2>3, <2>4, <2>5 DEF OnSchedule
<1>8. StreamInv'
  BY <1>4, <1>6 DEF StreamInv
<1> QED BY <1>2, <1>7, <1>8 DEF RetransmitsBeforeExpiry, Every, Most

LEMMA ClockOnSchedule ==
    ASSUME TypeOK, Inv, Punctual, StreamInv, RetransmitsBeforeExpiry, ClockAdvance
    PROVE  StreamInv' /\ RetransmitsBeforeExpiry'
<1>1. /\ Armed' = Armed /\ Armed \subseteq Entries /\ expired' = expired
      /\ lag < MaxLag /\ lag' = lag + 1
  <2>1. timers' = timers /\ expired' = expired /\ lag < MaxLag /\ lag' = lag + 1
    BY DEF ClockAdvance
  <2>2. Armed \subseteq Entries
    BY DEF TypeOK, Armed
  <2> QED BY <2>1, <2>2 DEF Armed
<1>2. \A e \in expired : e \in Entries /\ entry'[e] = entry[e]
  BY DEF ClockAdvance, TypeOK, Inv, CollectedInv
<1>3. ASSUME NEW e \in Armed PROVE OnSchedule(e)'
  <2>1. e \in Entries /\ entry[e] \in Entry /\ OnSchedule(e) /\ lag \in 0..MaxLag /\ lag \in Nat
    BY <1>1, <1>3 DEF TypeOK, StreamInv
  <2>2. entry'[e] = [entry[e] EXCEPT !.expires = Less(@), !.nextRetransmit = Less(@)]
    BY <2>1 DEF ClockAdvance
  <2>3. PICK n \in Nat, r \in Nat, m \in Nat, i \in Nat, l \in Nat, x \in Nat, g \in Nat :
            /\ n = entry[e].retransmitCount /\ r = entry[e].nextRetransmit
            /\ m = Most(e) /\ i = Every(e) /\ l = MaxLag /\ x = entry[e].expires /\ g = lag
    BY <2>1, OptType DEF Entry, Most, Every, TimerAssumption
  <2>4. /\ entry'[e].key = entry[e].key /\ entry'[e].retransmitCount = n
        /\ entry'[e].nextRetransmit = Less(r) /\ entry'[e].expires = Less(x)
    BY <2>1, <2>2, <2>3 DEF Entry
  <2>5. Every(e)' = i /\ Most(e)' = m
    BY <2>3, <2>4 DEF Every, Most
  <2>6. ASSUME i > 0, n < m PROVE InTime(e)'
    <3>1. InTime(e)
      BY <2>1, <2>3, <2>6 DEF OnSchedule
    <3>2. x > 0
      BY <1>1, <2>1, <2>3, <2>6, <3>1, NotYetOver
    <3>3. (m - n) * i + r <= x + n * l + (IF r = 0 THEN g ELSE 0)
      BY <2>3, <3>1 DEF InTime, Waited
    <3>4. (m - n) * i \in Nat /\ n * l \in Nat
      BY <2>6, RestOfStream
    <3>5. (m - n) * i + Less(r) <= Less(x) + n * l + (IF Less(r) = 0 THEN g + 1 ELSE 0)
      BY <3>2, <3>3, <3>4 DEF Less
    <3> QED BY <1>1, <2>3, <2>4, <2>5, <3>5 DEF InTime, Waited
  <2> QED BY <2>1, <2>3, <2>4, <2>5, <2>6 DEF OnSchedule
<1> QED BY <1>1, <1>2, <1>3 DEF StreamInv, RetransmitsBeforeExpiry

LEMMA WalkOnSchedule ==
    ASSUME StreamInv, RetransmitsBeforeExpiry,
           NEW e \in Entries, PickUp(e) \/ Skip(e) \/ Call(e)
    PROVE  StreamInv' /\ RetransmitsBeforeExpiry'
  BY DEF PickUp, Skip, Call, Done, StreamInv, RetransmitsBeforeExpiry, Armed, OnSchedule,
         Every, Most, InTime, Waited

\* An expiry is collected only when the whole retransmission stream of the timer
\* has been sent, for every timer, if the durations are the ones startTimer
\* computes and the tick goroutine is Punctual (manager.go:296-334).
THEOREM StreamBeforeExpiry ==
    ASSUME Punctual
    PROVE  Spec => []RetransmitsBeforeExpiry
<1> DEFINE I == StreamInv /\ RetransmitsBeforeExpiry
<1>1. Init => I
  BY DEF Init, StreamInv, RetransmitsBeforeExpiry, Armed
<1>2. ASSUME TypeOK, Inv, I, [Next]_vars PROVE I'
  <2>1. CASE UNCHANGED vars
    BY <1>2, <2>1 DEF vars, StreamInv, RetransmitsBeforeExpiry, Armed, OnSchedule,
                      Every, Most, InTime, Waited
  <2>2. ASSUME NEW k \in Keys, Start(k) PROVE I'
    BY <1>2, <2>2, StartOnSchedule
  <2>3. ASSUME NEW k \in Keys, Cancel(k) PROVE I'
    BY <1>2, <2>3, RemoveOnSchedule DEF Cancel
  <2>4. ASSUME NEW u \in UEs, CancelAllForUE(u) PROVE I'
    BY <1>2, <2>4, RemoveOnSchedule DEF CancelAllForUE
  <2>5. CASE Tick
    BY <1>2, <2>5, TickOnSchedule
  <2>6. CASE ClockAdvance
    BY <1>2, <2>6, ClockOnSchedule
  <2>7. ASSUME NEW e \in Entries, PickUp(e) \/ Skip(e) \/ Call(e) PROVE I'
    BY <1>2, <2>7, WalkOnSchedule
  <2> HIDE DEF I
  <2> QED BY <1>2, <2>1, <2>2, <2>3, <2>4, <2>5, <2>6, <2>7 DEF Next
<1>3. I => RetransmitsBeforeExpiry
  OBVIOUS
<1> HIDE DEF I
<1> QED BY <1>1, <1>2, <1>3, InvCorrect, PTL DEF Spec
=============================================================================
