---------------------------- MODULE NgapUe_proofs ----------------------------
(***************************************************************************)
(* Proofs about NgapUe, for any UEs and FSM objects and for every           *)
(* environment: a running timer is the one of the state of its FSM, however *)
(* the handlers and the callbacks of the tick goroutine overlap.  Unlike    *)
(* the 5GMM FSM, this one never comes back to a state it has armed a timer  *)
(* in, so that an expiry the tick goroutine has collected cannot meet the   *)
(* timer of a later wait of its object.                                    *)
(***************************************************************************)
EXTENDS NgapUe, TLAPS

\* The wait that e guards has begun, in the state s or before it.
Begun(s, e) ==
    /\ e = "TICSExpired" => s # "NOT_ESTABLISHED"
    /\ e = "TwaitExpired" => s \in {"CTX_RELEASE_PENDING", "RELEASED"}

\* A row is sound when what it starts belongs to the state it enters and was not
\* begun before, what belongs to the state it leaves is stopped or has expired, and
\* what was begun stays so.
SoundRow(r) ==
    /\ r.to \in States
    /\ r.start \subseteq Expiries
    /\ \A e \in r.start : StateOf[e] = r.to /\ ~Begun(r.from, e)
    /\ \A e \in Expiries : StateOf[e] = r.from => r.to = r.from \/ e \in r.stop \/ r.on = e
    /\ \A e \in Expiries : Begun(r.from, e) => Begun(r.to, e)

LEMMA SetupRowsSound == \A r \in SetupRows : SoundRow(r)
  BY DEF SetupRows, SoundRow, Row, Begun, StateOf, Expiries, States

LEMMA ReleaseRowsSound == \A r \in ReleaseRows : SoundRow(r)
  BY DEF ReleaseRows, Releases, SoundRow, Row, Begun, StateOf, Expiries, States

LEMMA EndRowsSound == \A r \in EndRows : SoundRow(r)
  BY DEF EndRows, SoundRow, Row, Begun, StateOf, Expiries, States

\* Every row of ngap/fsm/fsm_transitions.go that some code fires is sound.
THEOREM TableSound == \A r \in Rows : SoundRow(r)
  BY SetupRowsSound, ReleaseRowsSound, EndRowsSound DEF Rows

-----------------------------------------------------------------------------
(* The inductive invariant.                                                *)

Shape ==
    /\ fsm \in [Ues -> Gens \union {None}]
    /\ fstate \in [Objs -> States]
    /\ armed \subseteq Objs \X Expiries
    /\ due \subseteq Objs \X Expiries
    /\ held \in Objs \union {None}

\* What is due was begun, so no row starts it again.
DueIsOld ==
    /\ \A t \in due : Begun(fstate[t[1]], t[2])
    /\ armed \intersect due = {}

\* The expiry callback in progress is the one of a Twait-ICS that is still due.
HeldIsDue ==
    /\ held # None => <<held, "TICSExpired">> \in due
    /\ stage # "none" => held # None

IInv == Shape /\ TimersOfState /\ DueIsOld /\ HeldIsDue

\* What the firing of an event has to keep.
Timed == Shape /\ TimersOfState /\ DueIsOld

\* Every step that fires no event, collects no expiry and is not a callback.
LEMMA StutterKeeps ==
  ASSUME IInv, fsm' \in [Ues -> Gens \union {None}],
         UNCHANGED <<fstate, armed, due, held, stage>>
  PROVE  IInv'
  BY DEF IInv, Shape, TimersOfState, DueIsOld, HeldIsDue

\* A row that is taken, unless it is an expiry whose timer is running again.
LEMMA TakeKeeps ==
  ASSUME Timed, NEW o \in Objs, NEW r \in Rows,
         Take(o, r), due' \subseteq due, held' \in {held, None},
         fsm' \in [Ues -> Gens \union {None}],
         \A t \in armed : t[1] = o => r.from = StateOf[t[2]] /\ t[2] # r.on,
         \A t \in due : t[1] = o => Begun(r.from, t[2])
  PROVE  Timed'
<1>1. SoundRow(r)
  BY TableSound
<1>2. /\ fstate' = [fstate EXCEPT ![o] = r.to]
      /\ armed' = Rearm(o, r)
  BY DEF Take
<1>3. Shape'
  BY <1>1, <1>2 DEF Timed, Shape, Rearm, SoundRow
<1>4. \A t \in armed' : \/ t \in armed /\ (t[1] = o => t[2] \notin r.stop)
                        \/ t[1] = o /\ t[2] \in r.start
  BY <1>2 DEF Rearm, Owner
<1>5. ASSUME NEW t \in armed' PROVE fstate'[t[1]] = StateOf[t[2]]
  <2>1. CASE t[1] = o /\ t[2] \in r.start
    BY <2>1, <1>1, <1>2 DEF Timed, Shape, SoundRow
  <2>2. CASE t \in armed /\ t[1] = o /\ t[2] \notin r.stop
    <3>1. r.from = StateOf[t[2]] /\ t[2] # r.on /\ t[2] \in Expiries
      BY <2>2 DEF Timed, Shape
    <3>2. r.to = r.from
      BY <3>1, <2>2, <1>1 DEF SoundRow
    <3>. QED
      BY <3>1, <3>2, <2>2, <1>2 DEF Timed, Shape
  <2>3. CASE t \in armed /\ t[1] # o
    BY <2>3, <1>2 DEF Timed, Shape, TimersOfState
  <2>. QED
    BY <2>1, <2>2, <2>3, <1>4
<1>6. \A t \in due : Begun(fstate'[t[1]], t[2])
  BY <1>1, <1>2 DEF Timed, Shape, DueIsOld, SoundRow
<1>7. armed' \intersect due = {}
  <2>1. SUFFICES ASSUME NEW t \in due, t[1] = o, t[2] \in r.start PROVE FALSE
    BY <1>4 DEF Timed, DueIsOld
  <2>. QED
    BY <2>1, <1>1 DEF SoundRow
<1>. QED
  BY <1>3, <1>5, <1>6, <1>7 DEF Timed, TimersOfState, DueIsOld

\* An event of an FSM object, from a handler or as an expiry that is due.
LEMMA FireOnKeeps ==
  ASSUME Timed, NEW o \in Objs, NEW event, FireOn(o, event),
         UNCHANGED fsm, due' \subseteq due, held' \in {held, None},
         event \in Expiries => <<o, event>> \in due
  PROVE  Timed'
<1>1. CASE UNCHANGED <<fstate, armed>>
  BY <1>1 DEF Timed, Shape, TimersOfState, DueIsOld
<1>2. CASE \E r \in Match(fstate[o], event) : Take(o, r)
  <2>1. PICK r \in Rows : Take(o, r) /\ r.from = fstate[o] /\ r.on = event
    BY <1>2 DEF Match
  <2>2. \A t \in armed : t[1] = o => r.from = StateOf[t[2]] /\ t[2] # r.on
    BY <2>1 DEF Timed, Shape, TimersOfState, DueIsOld
  <2>3. \A t \in due : t[1] = o => Begun(r.from, t[2])
    BY <2>1 DEF Timed, DueIsOld
  <2>. QED
    BY <2>1, <2>2, <2>3, TakeKeeps DEF Timed, Shape
<1>. QED
  BY <1>1, <1>2 DEF FireOn

\* The case of a new object: it has no timer, and none of its expiries is due.
LEMMA NewObjKeeps ==
  ASSUME Timed, NEW u \in Ues, NEW o \in Objs, NewObj(u, o), NEW event,
         UNCHANGED <<due, held>>,
         \/ fstate' = [fstate EXCEPT ![o] = "NOT_ESTABLISHED"] /\ UNCHANGED armed
         \/ \E r \in Match("NOT_ESTABLISHED", event) : Take(o, r)
  PROVE  Timed'
<1>1. fsm' \in [Ues -> Gens \union {None}]
  BY DEF NewObj, Objs, Timed, Shape
<1>2. \A t \in armed \union due : t[1] # o
  BY DEF NewObj, InUse
<1>3. CASE fstate' = [fstate EXCEPT ![o] = "NOT_ESTABLISHED"] /\ UNCHANGED armed
  BY <1>1, <1>2, <1>3 DEF Timed, Shape, TimersOfState, DueIsOld, States
<1>4. CASE \E r \in Match("NOT_ESTABLISHED", event) : Take(o, r)
  <2>1. PICK r \in Rows : Take(o, r)
    BY <1>4 DEF Match
  <2>. QED
    BY <1>1, <1>2, <2>1, TakeKeeps
<1>. QED
  BY <1>3, <1>4

\* An event of the FSM of a UE, in the registry or new.
LEMMA FireKeeps ==
  ASSUME Timed, NEW u \in Ues, NEW event, NEW STATE count, Fire(u, event, count),
         event \notin Expiries, UNCHANGED <<due, held>>
  PROVE  Timed'
<1>1. CASE \E o \in Objs : FireOn(o, event) /\ UNCHANGED fsm
  BY <1>1, FireOnKeeps
<1>2. CASE \E o \in Objs :
              /\ NewObj(u, o)
              /\ \/ fstate' = [fstate EXCEPT ![o] = "NOT_ESTABLISHED"] /\ UNCHANGED armed
                 \/ \E r \in Match("NOT_ESTABLISHED", event) : Take(o, r)
  BY <1>2, NewObjKeeps
<1>. QED
  BY <1>1, <1>2 DEF Fire

-----------------------------------------------------------------------------
(* The steps.                                                              *)

\* What keeps Timed and leaves the callback alone keeps the whole invariant.
LEMMA TimedSuffices ==
  ASSUME IInv, Timed', UNCHANGED <<due, held, stage>>
  PROVE  IInv'
  BY DEF IInv, Timed, HeldIsDue

\* A call of a handler.
LEMMA CallsKeep == ASSUME IInv, NEW u \in Ues, Calls(u) PROVE IInv'
<1>0. Timed
  BY DEF IInv, Timed
<1>1. CASE FiresEvent(u)
  <2>1. PICK event \in Events \ Expiries :
            \/ Fire(u, event, Pending(u) + 1)
            \/ Fire(u, event, Answered(Pending(u)))
            \/ Fire(u, event, Pending(u))
            \/ UNCHANGED <<fsm, fstate, armed>>
    BY <1>1 DEF FiresEvent
  <2>2. UNCHANGED <<due, held, stage>>
    BY <1>1 DEF FiresEvent
  <2>3. CASE UNCHANGED <<fsm, fstate, armed>>
    BY <2>2, <2>3, StutterKeeps DEF IInv, Shape
  <2>4. CASE Fire(u, event, Pending(u) + 1)
    BY <1>0, <2>2, <2>4, FireKeeps, TimedSuffices
  <2>5. CASE Fire(u, event, Answered(Pending(u)))
    BY <1>0, <2>2, <2>5, FireKeeps, TimedSuffices
  <2>6. CASE Fire(u, event, Pending(u))
    BY <1>0, <2>2, <2>6, FireKeeps, TimedSuffices
  <2>. QED
    BY <2>1, <2>3, <2>4, <2>5, <2>6
<1>2. CASE DropsFsm(u)
  BY <1>2, StutterKeeps DEF DropsFsm, IInv, Shape
<1>3. CASE Clears(u) \/ Checks(u) \/ SendsIcs(u) \/ SendsSetup(u) \/ SendsCommand(u)
  <2>1. Quietly
    BY <1>3 DEF Clears, Checks, SendsIcs, SendsSetup, SendsCommand, Goes
  <2>. QED
    BY <2>1, StutterKeeps DEF Quietly, IInv, Shape
<1>. QED
  BY <1>1, <1>2, <1>3 DEF Calls

\* A message of the gNB, and the association going down and up.
LEMMA LinkKeeps ==
  ASSUME IInv, (\E u \in Ues : Messages(u) \/ Cascade(u)) \/ LinkDown \/ LinkUp
  PROVE  IInv'
<1>1. UNCHANGED <<fsm, fstate, armed, due, held, stage>>
  BY DEF Messages, NewUe, InitialUEMessage, UplinkNASTransport, ICSResponse, ICSFailure,
         SetupResponse, ReleaseRequest, ReleaseComplete, Cascade, Handle, Quietly,
         LinkDown, LinkUp
<1>. QED
  BY <1>1, StutterKeeps DEF IInv, Shape

\* The pass of the tick goroutine collects what is running, which has begun.
LEMMA ExpireKeeps ==
  ASSUME IInv, NEW timers \in SUBSET armed, Expire(timers)
  PROVE  IInv'
<1>1. \A t \in armed : Begun(fstate[t[1]], t[2])
  BY DEF IInv, Shape, TimersOfState, StateOf, Begun, Expiries
<1>. QED
  BY <1>1 DEF Expire, IInv, Shape, TimersOfState, DueIsOld, HeldIsDue

\* The callbacks.
LEMMA TickKeeps == ASSUME IInv, Tick PROVE IInv'
<1>0. Timed
  BY DEF IInv, Timed
<1>1. ASSUME NEW t \in due, Deliver(t) PROVE IInv'
  <2>1. /\ held = None /\ UNCHANGED <<fsm, held, stage>>
        /\ FireOn(t[1], t[2]) /\ due' = due \ {t}
        /\ t[1] \in Objs /\ <<t[1], t[2]>> \in due
    BY <1>1 DEF Deliver, IInv, Shape
  <2>2. Timed'
    BY <1>0, <2>1, FireOnKeeps
  <2>. QED
    BY <2>1, <2>2 DEF IInv, Timed, HeldIsDue
<1>2. ASSUME NEW t \in due, TimeoutBegins(t) PROVE IInv'
  <2>1. t = <<t[1], "TICSExpired">> /\ t[1] \in Objs
    BY <1>2 DEF TimeoutBegins, TimesOut, IInv, Shape
  <2>2. held' = t[1] /\ UNCHANGED <<fsm, fstate, armed, due>>
    BY <1>2 DEF TimeoutBegins
  <2>. QED
    BY <2>1, <2>2, NgapAssumption DEF IInv, Shape, TimersOfState, DueIsOld, HeldIsDue, Objs
<1>3. CASE TimeoutSends
  <2>1. held # None /\ UNCHANGED <<fsm, fstate, armed, due, held>>
    BY <1>3 DEF TimeoutSends, IInv, HeldIsDue
  <2>. QED
    BY <2>1 DEF IInv, Shape, TimersOfState, DueIsOld, HeldIsDue
<1>4. CASE TimeoutFires
  <2>1. /\ held \in Objs /\ <<held, "TICSExpired">> \in due /\ UNCHANGED <<due, held>>
        /\ Fire(held[1], "UECtxReleaseCommand", Pending(held[1]))
    BY <1>4 DEF TimeoutFires, IInv, HeldIsDue, Shape
  <2>2. Timed'
    BY <1>0, <2>1, FireKeeps DEF Objs, Expiries
  <2>. QED
    BY <2>1, <2>2, NgapAssumption DEF IInv, Timed, HeldIsDue, Objs
<1>5. CASE TimeoutReturns
  <2>1. /\ held \in Objs /\ <<held, "TICSExpired">> \in due /\ held' = None
        /\ stage' = "none" /\ due' \subseteq due /\ UNCHANGED fsm
        /\ FireOn(held, "TICSExpired")
    BY <1>5 DEF TimeoutReturns, IInv, HeldIsDue, Shape
  <2>2. Timed'
    BY <1>0, <2>1, FireOnKeeps
  <2>. QED
    BY <2>1, <2>2 DEF IInv, Timed, HeldIsDue
<1>. QED
  BY <1>1, <1>2, <1>3, <1>4, <1>5 DEF Tick

\* The callback of a 5GMM timer.
LEMMA GmmTimeoutKeeps == ASSUME IInv, NEW u \in Ues, GmmTimeout(u) PROVE IInv'
<1>1. Fire(u, "UECtxReleaseCommand", Pending(u)) /\ UNCHANGED <<due, held, stage>>
  BY DEF GmmTimeout
<1>. QED
  BY <1>1, FireKeeps, TimedSuffices DEF IInv, Timed, Expiries

LEMMA Inductive == Spec => []IInv
<1>1. Init => IInv
  BY DEF Init, IInv, Shape, TimersOfState, DueIsOld, HeldIsDue, States
<1>2. IInv /\ [Next]_vars => IInv'
  <2>1. ASSUME IInv, UNCHANGED vars PROVE IInv'
    BY <2>1, StutterKeeps DEF vars, IInv, Shape
  <2>. QED
    BY <2>1, CallsKeep, LinkKeeps, ExpireKeeps, TickKeeps, GmmTimeoutKeeps DEF Next
<1>. QED
  BY <1>1, <1>2, PTL DEF Spec

\* Whatever the environment does, a running timer guards what its FSM object is
\* waiting for.
THEOREM TimersFollowState == Spec => []TimersOfState
<1>1. IInv => TimersOfState
  BY DEF IInv
<1>. QED
  BY <1>1, Inductive, PTL

-----------------------------------------------------------------------------
(* The timer manager, as the NGAP layer uses it.                           *)

\* The objects of a UE have one running timer of each name between them, and one
\* collected expiry.
Once ==
    /\ \A t, s \in armed : TimerKey(t) = TimerKey(s) => t = s
    /\ \A t, s \in due : TimerKey(t) = TimerKey(s) => t = s

Running == {TimerKey(t) : t \in armed}
Collected == {TimerKey(t) : t \in due}

LEMMA TakeOnce ==
  ASSUME Shape, Once, NEW o \in Objs, NEW r \in Rows, Take(o, r), due' \subseteq due
  PROVE  Once'
<1>1. armed' = Rearm(o, r)
  BY DEF Take
<1>2. \A t \in armed' :
        \/ t \in armed /\ (t[1][1] = o[1] => t[2] \notin r.start)
        \/ \E e \in r.start : t = <<o, e>>
  BY <1>1 DEF Rearm, Owner
<1>3. ASSUME NEW t \in armed', NEW s \in armed', t[1][1] = s[1][1], t[2] = s[2]
      PROVE  t = s
  <2>1. CASE t \in armed /\ s \in armed
    BY <2>1, <1>3 DEF Once, TimerKey, Owner
  <2>2. CASE t \notin armed
    <3>1. PICK e \in r.start : t = <<o, e>>
      BY <2>2, <1>2
    <3>2. s[1][1] = o[1] /\ s[2] = e
      BY <3>1, <1>3
    <3>. QED
      BY <1>2, <3>1, <3>2
  <2>3. CASE s \notin armed
    <3>1. PICK e \in r.start : s = <<o, e>>
      BY <2>3, <1>2
    <3>2. t[1][1] = o[1] /\ t[2] = e
      BY <3>1, <1>3
    <3>. QED
      BY <1>2, <3>1, <3>2
  <2>. QED
    BY <2>1, <2>2, <2>3
<1>. QED
  BY <1>3 DEF Once, TimerKey, Owner

LEMMA FireOnOnce ==
  ASSUME Shape, Once, NEW o \in Objs, NEW event, FireOn(o, event), due' \subseteq due
  PROVE  Once'
<1>1. CASE UNCHANGED armed
  BY <1>1 DEF Once, TimerKey, Owner
<1>2. CASE \E r \in Match(fstate[o], event) : Take(o, r)
  BY <1>2, TakeOnce DEF Match
<1>. QED
  BY <1>1, <1>2 DEF FireOn

LEMMA FireOnce ==
  ASSUME Shape, Once, NEW u, NEW event, NEW STATE count, Fire(u, event, count),
         due' \subseteq due
  PROVE  Once'
<1>1. CASE \E o \in Objs : FireOn(o, event)
  BY <1>1, FireOnOnce
<1>2. CASE \E o \in Objs : \E r \in Match("NOT_ESTABLISHED", event) : Take(o, r)
  BY <1>2, TakeOnce DEF Match
<1>3. CASE UNCHANGED armed
  BY <1>3 DEF Once, TimerKey, Owner
<1>. QED
  BY <1>1, <1>2, <1>3 DEF Fire

\* A step of a handler, of a message or of the association.
LEMMA HandlersOnce ==
  ASSUME IInv, Once,
         \/ \E u \in Ues : Calls(u) \/ Messages(u) \/ Cascade(u) \/ GmmTimeout(u)
         \/ LinkDown \/ LinkUp
  PROVE  Once' /\ due' = due
<1>0. Shape
  BY DEF IInv
<1>1. ASSUME UNCHANGED <<armed, due>> PROVE Once' /\ due' = due
  BY <1>1 DEF Once, TimerKey, Owner
<1>2. ASSUME NEW u \in Ues, FiresEvent(u) PROVE Once' /\ due' = due
  <2>1. due' = due
    BY <1>2 DEF FiresEvent
  <2>2. PICK event \in Events \ Expiries :
            \/ Fire(u, event, Pending(u) + 1)
            \/ Fire(u, event, Answered(Pending(u)))
            \/ Fire(u, event, Pending(u))
            \/ UNCHANGED <<fsm, fstate, armed>>
    BY <1>2 DEF FiresEvent
  <2>3. CASE UNCHANGED <<fsm, fstate, armed>>
    BY <1>1, <2>1, <2>3
  <2>4. CASE Fire(u, event, Pending(u) + 1)
    BY <1>0, <2>1, <2>4, FireOnce
  <2>5. CASE Fire(u, event, Answered(Pending(u)))
    BY <1>0, <2>1, <2>5, FireOnce
  <2>6. CASE Fire(u, event, Pending(u))
    BY <1>0, <2>1, <2>6, FireOnce
  <2>. QED
    BY <2>2, <2>3, <2>4, <2>5, <2>6
<1>3. ASSUME NEW u \in Ues,
             \/ DropsFsm(u) \/ Clears(u)
             \/ Checks(u) \/ SendsIcs(u) \/ SendsSetup(u) \/ SendsCommand(u)
      PROVE  UNCHANGED <<armed, due>>
  BY <1>3 DEF DropsFsm, Clears, Checks, SendsIcs, SendsSetup, SendsCommand, Goes, Quietly
<1>4. ASSUME (\E u \in Ues : Messages(u) \/ Cascade(u)) \/ LinkDown \/ LinkUp
      PROVE  UNCHANGED <<armed, due>>
  BY <1>4 DEF Messages, NewUe, InitialUEMessage, UplinkNASTransport, ICSResponse, ICSFailure,
         SetupResponse, ReleaseRequest, ReleaseComplete, Cascade, Handle, Quietly,
         LinkDown, LinkUp
<1>5. ASSUME NEW u \in Ues, GmmTimeout(u) PROVE Once' /\ due' = due
  <2>1. Fire(u, "UECtxReleaseCommand", Pending(u)) /\ due' = due
    BY <1>5 DEF GmmTimeout
  <2>. QED
    BY <1>0, <2>1, FireOnce
<1>. QED
  BY <1>1, <1>2, <1>3, <1>4, <1>5 DEF Calls

\* A pass collects running timers: their keys stop running and are due.
LEMMA PassRefines ==
  ASSUME Once, NEW timers \in SUBSET armed, Expire(timers)
  PROVE  Once' /\ Service!Expire
<1>1. due = {} /\ due' = timers /\ armed' = armed \ timers
  BY DEF Expire
<1>2. Once'
  BY <1>1 DEF Once, TimerKey, Owner
<1>3. Collected = {} /\ Collected' = {TimerKey(t) : t \in timers} /\ Collected' \subseteq Running
  BY <1>1 DEF Collected, Running, TimerKey, Owner
<1>4. Running' = {TimerKey(t) : t \in armed \ timers}
  BY <1>1 DEF Running, TimerKey, Owner
<1>5. Running' = Running \ Collected'
  BY <1>3, <1>4 DEF Running, Once
<1>. QED
  BY <1>2, <1>3, <1>5 DEF Service!Expire, Collected, Running

\* A callback that returns: its expiry is no longer due, and no other with it.
LEMMA ReturnRefines ==
  ASSUME IInv, IInv', Once, NEW t \in due, FireOn(t[1], t[2]), due' = due \ {t}
  PROVE  Once' /\ Service!Next
<1>1. Shape /\ Shape'
  BY DEF IInv
<1>2. t[1] \in Objs /\ t[2] \in Expiries /\ t[1][1] \in Ues
  BY <1>1 DEF Shape, Objs
<1>3. Once'
  BY <1>1, <1>2, FireOnOnce
<1>4. PICK k \in Ues \X Expiries : k = TimerKey(t)
  BY <1>2 DEF TimerKey, Owner
<1>5. Collected' = Collected \ {k}
  <2>1. Collected' = {TimerKey(s) : s \in due \ {t}}
    BY DEF Collected, TimerKey, Owner
  <2>2. \A s \in due : TimerKey(s) = k => s = t
    BY <1>4 DEF Once
  <2>. QED
    BY <1>4, <2>1, <2>2 DEF Collected
<1>6. Running' \subseteq Ues \X Expiries
  BY <1>1 DEF Running, Shape, Objs, TimerKey, Owner
<1>7. k \in Collected
  BY <1>4 DEF Collected
<1>8. Service!Deliver(k)
  BY <1>5, <1>6, <1>7 DEF Service!Deliver, Running, Collected
<1>. QED
  BY <1>3, <1>8 DEF Service!Next

LEMMA UpdateRefines ==
  ASSUME Shape', due' = due
  PROVE  Service!Next
<1>1. Running' \subseteq Ues \X Expiries /\ Collected' = Collected
  BY DEF Running, Collected, Shape, Objs, TimerKey, Owner
<1>. QED
  BY <1>1 DEF Service!Next, Service!Update, Running, Collected

LEMMA NextRefines ==
  ASSUME IInv, IInv', Once, [Next]_vars
  PROVE  Once' /\ [Service!Next]_(Service!vars)
<1>0. Shape /\ Shape'
  BY DEF IInv
<1>1. CASE \/ \E u \in Ues : Calls(u) \/ Messages(u) \/ Cascade(u) \/ GmmTimeout(u)
           \/ LinkDown \/ LinkUp
  BY <1>0, <1>1, HandlersOnce, UpdateRefines
<1>2. ASSUME NEW timers \in SUBSET armed, Expire(timers)
      PROVE  Once' /\ [Service!Next]_(Service!vars)
  BY <1>2, PassRefines DEF Service!Next
<1>3. ASSUME NEW t \in due, Deliver(t) PROVE Once' /\ [Service!Next]_(Service!vars)
  <2>1. FireOn(t[1], t[2]) /\ due' = due \ {t}
    BY <1>3 DEF Deliver
  <2>. QED
    BY <2>1, ReturnRefines
<1>4. CASE TimeoutReturns
  <2>1. /\ FireOn(held, "TICSExpired") /\ due' = due \ {<<held, "TICSExpired">>}
        /\ <<held, "TICSExpired">> \in due
    BY <1>4 DEF TimeoutReturns, IInv, HeldIsDue
  <2>2. PICK t \in due : t = <<held, "TICSExpired">>
    BY <2>1
  <2>3. FireOn(t[1], t[2]) /\ due' = due \ {t}
    BY <2>1, <2>2
  <2>. QED
    BY <2>3, ReturnRefines
<1>5. CASE TimeoutFires
  <2>1. Fire(held[1], "UECtxReleaseCommand", Pending(held[1])) /\ due' = due
    BY <1>5 DEF TimeoutFires
  <2>2. Once'
    BY <1>0, <2>1, FireOnce
  <2>. QED
    BY <1>0, <2>1, <2>2, UpdateRefines
<1>6. CASE UNCHANGED <<armed, due>>
  <2>1. UNCHANGED Service!vars
    BY <1>6 DEF Service!vars, TimerKey, Owner
  <2>. QED
    BY <1>6, <2>1 DEF Once, TimerKey, Owner
<1>7. (\E t \in due : TimeoutBegins(t)) \/ TimeoutSends \/ UNCHANGED vars => UNCHANGED <<armed, due>>
  BY DEF TimeoutBegins, TimeoutSends, vars
<1>. QED
  BY <1>1, <1>2, <1>3, <1>4, <1>5, <1>6, <1>7 DEF Next, Tick

\* The FSM objects of a UE, dropped ones included, use its two timers as the timer
\* manager allows, in every environment: one of a name runs at a time, and what has
\* been collected stays due until its callback has returned (ngap/fsm/fsm.go).
THEOREM UsesService == Spec => ServiceSpec
<1>1. Init => Once /\ Service!Init
  BY DEF Init, Once, Service!Init
<1>2. IInv /\ IInv' /\ Once /\ [Next]_vars => Once' /\ [Service!Next]_(Service!vars)
  BY NextRefines
<1>. QED
  BY <1>1, <1>2, Inductive, PTL DEF Spec, ServiceSpec, Service!Spec
=============================================================================
