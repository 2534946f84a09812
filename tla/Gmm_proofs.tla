----------------------------- MODULE Gmm_proofs -----------------------------
(***************************************************************************)
(* Proofs about Gmm, for any number of FSM objects, any set of requests and *)
(* any bound on the authentication retries: as long as no pass of the tick  *)
(* goroutine overlaps a handler, a running timer is the one of the state of *)
(* its FSM.                                                                *)
(***************************************************************************)
EXTENDS Gmm, TLAPS

-----------------------------------------------------------------------------
(* The transition table.                                                   *)

\* A row of the table is sound when what it starts belongs to the state it
\* enters, it starts at most one timer, and of what belongs to the state it leaves
\* nothing goes on: it is stopped, or replaced, or it is the one that expired.
\* The row that starts T3555 is not of this kind, and nothing fires it.
SoundRow(r) ==
    /\ r.to \in States
    /\ r.start \subseteq Expiries
    /\ \A e, f \in r.start : e = f
    /\ \A e \in r.start : StateOf[e] = r.to
    /\ r.on # "ConfigUpdateCommandSent" => "T3555Expired" \notin r.start
    /\ \A e \in Expiries \ {"T3555Expired"} :
        StateOf[e] = r.from =>
            \/ r.to = r.from
            \/ TimerOf[e] \in r.stop
            \/ r.on = e
            \/ Clears(r)

LEMMA IdentificationSound == \A r \in IdentificationRows : SoundRow(r)
  BY DEF IdentificationRows, SoundRow, Row, Clears, StateOf, TimerOf, Expiries, States, Waiting

LEMMA AuthenticationSound == \A r \in AuthenticationRows : SoundRow(r)
  BY DEF AuthenticationRows, SoundRow, Row, Clears, StateOf, TimerOf, Expiries, States, Waiting

LEMMA SecurityModeSound == \A r \in SecurityModeRows : SoundRow(r)
  BY DEF SecurityModeRows, SoundRow, Row, Clears, StateOf, TimerOf, Expiries, States, Waiting

LEMMA RegistrationRequestSound == \A r \in RegistrationRequestRows : SoundRow(r)
  BY DEF RegistrationRequestRows, SoundRow, Row, Clears, StateOf, TimerOf, Expiries, States, Waiting

LEMMA AcceptSound == \A r \in AcceptRows : SoundRow(r)
  BY DEF AcceptRows, SoundRow, Row, Clears, StateOf, TimerOf, Expiries, States, Waiting

LEMMA RegisteredSound == \A r \in RegisteredRows : SoundRow(r)
  BY DEF RegisteredRows, SoundRow, Row, Clears, StateOf, TimerOf, Expiries, States, Waiting

LEMMA DeregistrationSound == \A r \in DeregistrationRows : SoundRow(r)
  BY DEF DeregistrationRows, SoundRow, Row, Clears, StateOf, TimerOf, Expiries, States, Waiting

\* Every row of fsm_transitions.go is sound.
THEOREM TableSound == \A r \in Rows : SoundRow(r)
  BY IdentificationSound, AuthenticationSound, SecurityModeSound, RegistrationRequestSound,
     AcceptSound, RegisteredSound, DeregistrationSound DEF Rows

-----------------------------------------------------------------------------
(* The inductive invariant.                                                *)

\* What a handler leaves to call: an operation, or one of the events that the
\* code fires from a handler.  No expiry is among them.
Said == Ops \union
    {"RegRequestContextValid", "RegistrationRequest", "IdentityRequestSent", "IdentityResponse",
     "IdentityResponseFail", "AuthResponseValid", "AuthResponseInvalid", "AuthRetry",
     "AuthenticationFailure", "SecurityModeComplete", "SecurityModeReject",
     "RegistrationComplete", "ServiceRequest", "ULNASTransport", "DeregistrationRequestMO",
     "DeregistrationAcceptMT"}

Shape ==
    /\ fsm \in Objs \union {None}
    /\ fstate \in [Objs -> States]
    /\ armed \subseteq Objs \X Expiries
    /\ due \subseteq Objs \X Expiries
    /\ todo \in Seq(Said)

\* A name is running at most once, and due at most once.
OnePerName(S) == \A t, u \in S : TimerOf[t[2]] = TimerOf[u[2]] => t = u

Names == OnePerName(armed) /\ OnePerName(due)

\* Inductive for every environment.
Base == Shape /\ Names

\* A running timer, and an expiry that has been collected, is the one of the
\* state of its FSM; none of the two is the other's again.
Timely(S) == \A t \in S : t[2] # "T3555Expired" /\ fstate[t[1]] = StateOf[t[2]]

Current == Timely(armed) /\ Timely(due) /\ armed \intersect due = {}

\* Inductive as long as the tick goroutine does not overlap a handler.
IInv == Base /\ Current

\* A step that leaves the FSM objects and the collected expiries alone, and starts
\* no timer: all but the firing of events, the FSM's reset and the expiry.
Plain ==
    /\ fsm' \in Objs \union {None}
    /\ fstate' = fstate
    /\ armed' \subseteq armed
    /\ due' = due
    /\ todo' \in Seq(Said)

LEMMA PlainKeepsBase == ASSUME Base, Plain PROVE Base'
  BY DEF Base, Shape, Names, OnePerName, Plain

LEMMA PlainKeepsCurrent == ASSUME Current, Plain PROVE Current'
  BY DEF Current, Timely, Plain

LEMMA RestOfTodo ==
  ASSUME todo \in Seq(Said), todo # <<>>
  PROVE  Tail(todo) \in Seq(Said) /\ Head(todo) \in Said
  OBVIOUS

LEMMA CallKeepsTodo ==
  ASSUME NEW op, NEW cont \in Seq(Said), Shape, Call(op, cont)
  PROVE  todo' \in Seq(Said)
  BY RestOfTodo DEF Shape, Call

-----------------------------------------------------------------------------
(* The calls of the worker that are plain.                                 *)

LEMMA PlainCalls ==
  ASSUME Shape,
         \/ StartAuthentication \/ StartSecurityMode \/ AbortRegistration
         \/ SendAuthenticationReject \/ FinishDeregistration \/ AcceptReused
  PROVE  Plain
<1>0. <<>> \in Seq(Said) /\ <<"abortRegistration">> \in Seq(Said)
      /\ <<"RegRequestContextValid">> \in Seq(Said) /\ <<"startAuthentication">> \in Seq(Said)
      /\ <<"startAuthentication", "RegistrationRequest">> \in Seq(Said)
  BY DEF Said, Ops
<1>1. CASE StartAuthentication
  BY <1>0, <1>1, CallKeepsTodo DEF StartAuthentication, UpdateUe, Plain, Shape
<1>2. CASE StartSecurityMode
  BY <1>0, <1>2, CallKeepsTodo DEF StartSecurityMode, UpdateUe, Plain, Shape
<1>3. CASE AbortRegistration
  BY <1>0, <1>3, CallKeepsTodo DEF AbortRegistration, Plain, Shape
<1>4. CASE SendAuthenticationReject
  BY <1>0, <1>4, CallKeepsTodo DEF SendAuthenticationReject, Remove, Plain, Shape
<1>5. CASE FinishDeregistration
  BY <1>0, <1>5, CallKeepsTodo DEF FinishDeregistration, ClearVolatile, Plain, Shape
<1>6. CASE AcceptReused
  BY <1>0, <1>6, CallKeepsTodo DEF AcceptReused, UpdateUe, Plain, Shape
<1>. QED
  BY <1>1, <1>2, <1>3, <1>4, <1>5, <1>6

-----------------------------------------------------------------------------
(* The messages are plain.                                                 *)

\* What the handlers leave to call.
LEMMA Continuations ==
  /\ <<>> \in Seq(Said)
  /\ <<"dispatch">> \in Seq(Said)
  /\ <<"abortRegistration">> \in Seq(Said)
  /\ <<"IdentityRequestSent">> \in Seq(Said)
  /\ <<"acceptReused">> \in Seq(Said)
  /\ <<"acceptMigrated">> \in Seq(Said)
  /\ <<"lowerLayerFailure">> \in Seq(Said)
  /\ <<"IdentityResponse">> \in Seq(Said)
  /\ <<"AuthenticationFailure">> \in Seq(Said)
  /\ <<"AuthRetry">> \in Seq(Said)
  /\ <<"SecurityModeComplete">> \in Seq(Said)
  /\ <<"RegistrationComplete">> \in Seq(Said)
  /\ <<"ServiceRequest">> \in Seq(Said)
  /\ <<"ULNASTransport">> \in Seq(Said)
  /\ <<"startAuthentication", "RegistrationRequest">> \in Seq(Said)
  /\ <<"startAuthentication", "IdentityResponse">> \in Seq(Said)
  /\ <<"startAuthentication", "AuthRetry">> \in Seq(Said)
  /\ <<"startSecurityMode", "AuthResponseValid">> \in Seq(Said)
  /\ <<"IdentityResponseFail", "abortRegistration">> \in Seq(Said)
  /\ <<"AuthResponseInvalid", "abortRegistration">> \in Seq(Said)
  /\ <<"AuthResponseInvalid", "authenticationReject">> \in Seq(Said)
  /\ <<"AuthenticationFailure", "authenticationReject">> \in Seq(Said)
  /\ <<"SecurityModeReject", "abortRegistration">> \in Seq(Said)
  /\ <<"DeregistrationRequestMO", "clearVolatile">> \in Seq(Said)
  /\ <<"DeregistrationAcceptMT", "clearVolatile">> \in Seq(Said)
  BY DEF Said, Ops

LEMMA HandlesArePlain ==
  ASSUME Shape, NEW u, NEW calls \in Seq(Said), Handle(u, calls) \/ HandleQuietly(u, calls)
  PROVE  Plain
  BY DEF Handle, HandleQuietly, Plain, Shape

LEMMA AdmittedIsPlain ==
  ASSUME Shape, NEW u, NEW calls \in Seq(Said), HandleAdmitted(u, calls)
  PROVE  Plain
  BY HandlesArePlain DEF HandleAdmitted

LEMMA OutcomesAreSaid ==
  ASSUME NEW request, NEW outcome \in RegistrationOutcomes(request)
  PROVE  outcome[2] \in Seq(Said)
<1>1. \/ outcome = <<Listed(request), <<"startAuthentication", "RegistrationRequest">>>>
      \/ outcome = <<Questioned, <<"IdentityRequestSent">>>>
      \/ outcome = <<Asked, <<"abortRegistration">>>>
      \/ outcome = <<Known(request), <<"abortRegistration">>>>
      \/ outcome = <<Known(request), <<"acceptReused">>>>
      \/ outcome = <<Migrated(request), <<"acceptMigrated">>>>
  BY Zenon DEF RegistrationOutcomes
<1>2. outcome[2] \in {<<"startAuthentication", "RegistrationRequest">>, <<"IdentityRequestSent">>,
                       <<"abortRegistration">>, <<"acceptReused">>, <<"acceptMigrated">>}
  BY <1>1
<1>. QED
  BY <1>2, Continuations

LEMMA PlainRegistration ==
  ASSUME Shape, NEW request, DuplicateRequest(request) \/ RegistrationRequest(request)
  PROVE  Plain
<1>1. CASE DuplicateRequest(request)
  BY <1>1, Continuations, AdmittedIsPlain DEF DuplicateRequest
<1>2. CASE RegistrationRequest(request)
  <2>1. PICK outcome \in RegistrationOutcomes(request) : HandleAdmitted(outcome[1], outcome[2])
    BY <1>2 DEF RegistrationRequest
  <2>. QED
    BY <2>1, OutcomesAreSaid, AdmittedIsPlain
<1>. QED
  BY <1>1, <1>2

LEMMA PlainAnswers ==
  ASSUME Shape,
         \/ IdentityResponse \/ AuthenticationResponse \/ AuthenticationFailure
         \/ SecurityModeComplete \/ SecurityModeReject \/ RegistrationComplete
  PROVE  Plain
<1>1. CASE IdentityResponse
  BY <1>1, Continuations DEF IdentityResponse, Handle, HandleQuietly, Plain, Shape
<1>2. CASE AuthenticationResponse
  BY <1>2, Continuations DEF AuthenticationResponse, Handle, HandleQuietly, Plain, Shape
<1>3. CASE AuthenticationFailure
  BY <1>3, Continuations DEF AuthenticationFailure, Handle, HandleQuietly, Plain, Shape
<1>4. CASE SecurityModeComplete
  BY <1>4, Continuations DEF SecurityModeComplete, Handle, HandleQuietly, Plain, Shape
<1>5. CASE SecurityModeReject
  BY <1>5, Continuations DEF SecurityModeReject, Handle, HandleQuietly, Plain, Shape
<1>6. CASE RegistrationComplete
  BY <1>6, Continuations DEF RegistrationComplete, Handle, HandleQuietly, Plain, Shape
<1>. QED
  BY <1>1, <1>2, <1>3, <1>4, <1>5, <1>6

LEMMA PlainRequests ==
  ASSUME Shape,
         \/ ServiceRequest \/ ULNASTransport \/ DeregistrationRequestMO
         \/ DeregistrationAcceptMT \/ InitialUEMessage \/ DropMessage
  PROVE  Plain
<1>1. CASE ServiceRequest
  BY <1>1, Continuations DEF ServiceRequest, Handle, HandleQuietly, Plain, Shape
<1>2. CASE ULNASTransport
  BY <1>2, Continuations DEF ULNASTransport, Handle, HandleQuietly, Plain, Shape
<1>3. CASE DeregistrationRequestMO
  BY <1>3, Continuations DEF DeregistrationRequestMO, Handle, HandleQuietly, Plain, Shape
<1>4. CASE DeregistrationAcceptMT
  BY <1>4, Continuations DEF DeregistrationAcceptMT, Plain, Shape
<1>5. CASE InitialUEMessage
  BY <1>5, Continuations DEF InitialUEMessage, Handle, HandleQuietly, Plain, Shape
<1>6. CASE DropMessage
  BY <1>6, Continuations, HandlesArePlain DEF DropMessage
<1>. QED
  BY <1>1, <1>2, <1>3, <1>4, <1>5, <1>6

LEMMA PlainReleases ==
  ASSUME Shape, ReleaseRequest \/ ReleaseComplete \/ Superseded \/ NewContext
  PROVE  Plain
<1>1. CASE ReleaseRequest
  BY <1>1, Continuations DEF ReleaseRequest, Handle, HandleQuietly, Plain, Shape
<1>2. CASE ReleaseComplete
  BY <1>2 DEF ReleaseComplete, Remove, ClearVolatile, UpdateUe, Plain, Shape
<1>3. CASE Superseded
  BY <1>3 DEF Superseded, Remove, Plain, Shape
<1>4. CASE NewContext
  BY <1>4 DEF NewContext, Plain, Shape
<1>. QED
  BY <1>1, <1>2, <1>3, <1>4

\* No message touches the state of an FSM object or starts a timer; the handlers
\* leave that to the events they fire.
LEMMA PlainMessages == ASSUME Shape, Messages PROVE Plain
  BY PlainRegistration, PlainAnswers, PlainRequests, PlainReleases DEF Messages

-----------------------------------------------------------------------------
(* A row is taken.                                                         *)

LEMMA RearmShape ==
  ASSUME Base, NEW o \in Objs, NEW r \in Rows
  PROVE  Rearm(o, r) \subseteq Objs \X Expiries /\ OnePerName(Rearm(o, r))
<1>1. /\ r.start \subseteq Expiries
      /\ \A e, f \in r.start : e = f
  BY TableSound DEF SoundRow
<1>2. Rearm(o, r) \subseteq Objs \X Expiries
  BY <1>1 DEF Rearm, Base, Shape
<1>3. OnePerName(Rearm(o, r))
  BY <1>1 DEF Rearm, Base, Shape, Names, OnePerName, Named
<1>. QED
  BY <1>2, <1>3

LEMMA RowEnters == \A r \in Rows : r.to \in States
  BY TableSound DEF SoundRow

LEMMA TakeKeepsBase ==
  ASSUME Base, NEW o \in Objs, NEW r \in Rows, NEW live \in Objs \union {None},
         Take(o, r, live), due' \subseteq due, todo' \in Seq(Said)
  PROVE  Base'
<1>1. /\ fsm' \in Objs \union {None}
      /\ fstate' \in [Objs -> States]
      /\ armed' = Rearm(o, r)
  BY RowEnters DEF Take, Base, Shape
<1>2. Shape' /\ OnePerName(armed)'
  BY <1>1, RearmShape DEF Base, Shape, OnePerName
<1>3. OnePerName(due)'
  BY DEF Base, Names, OnePerName
<1>. QED
  BY <1>2, <1>3 DEF Base, Names

LEMMA FireTakes ==
  ASSUME Base, NEW event, Fire(event)
  PROVE  \/ Ignored
         \/ \E r \in Match(State, event), o \in Objs :
                /\ Take(o, r, o)
                /\ fsm = o \/ (fsm = None /\ o \notin InUse)
  BY DEF Fire, Base, Shape

LEMMA WorkerFiresKeepsBase == ASSUME Base, WorkerFires PROVE Base'
<1>1. todo' \in Seq(Said) /\ due' = due
  BY RestOfTodo DEF WorkerFires, Base, Shape
<1>2. CASE Ignored
  BY <1>1, <1>2, PlainKeepsBase DEF Ignored, Plain, Base, Shape
<1>3. CASE \E r \in Match(State, Head(todo)), o \in Objs : Take(o, r, o)
  <2>1. PICK r \in Rows, o \in Objs : Take(o, r, o)
    BY <1>3 DEF Match
  <2>. QED
    BY <2>1, <1>1, TakeKeepsBase
<1>. QED
  BY <1>2, <1>3, FireTakes DEF WorkerFires

LEMMA DeliverKeepsBase == ASSUME Base, NEW t \in due, Deliver(t) PROVE Base'
<1>1. todo' \in Seq(Said) /\ due' \subseteq due /\ due' = due \ {t} /\ t[1] \in Objs
  BY DEF Deliver, Base, Shape
<1>2. CASE Ignored
  BY <1>1, <1>2 DEF Ignored, Base, Shape, Names, OnePerName
<1>3. CASE \E r \in Match(fstate[t[1]], t[2]) : Take(t[1], r, fsm)
  <2>1. PICK r \in Rows : Take(t[1], r, fsm)
    BY <1>3 DEF Match
  <2>2. fsm \in Objs \union {None}
    BY DEF Base, Shape
  <2>. QED
    BY <2>1, <2>2, <1>1, TakeKeepsBase
<1>. QED
  BY <1>2, <1>3 DEF Deliver, FireTimer

LEMMA LowerLayerFailureKeepsBase == ASSUME Base, LowerLayerFailure PROVE Base'
<1>1. todo' \in Seq(Said)
  BY CallKeepsTodo, Continuations DEF LowerLayerFailure, Base
<1>2. fsm' \in Objs \union {None} /\ fstate' \in [Objs -> States]
  BY DEF LowerLayerFailure, Base, Shape, States
<1>3. armed' = {} /\ due' = due
  BY DEF LowerLayerFailure
<1>. QED
  BY <1>1, <1>2, <1>3 DEF Base, Shape, Names, OnePerName

LEMMA ExpireKeepsBase == ASSUME Base, NEW timers \in SUBSET armed, Expire(timers) PROVE Base'
  BY DEF Expire, Base, Shape, Names, OnePerName

LEMMA NextKeepsBase == ASSUME Base, [Next]_vars PROVE Base'
<1>1. CASE Worker
  <2>1. CASE WorkerFires
    BY <2>1, WorkerFiresKeepsBase
  <2>2. CASE LowerLayerFailure
    BY <2>2, LowerLayerFailureKeepsBase
  <2>3. CASE Plain
    BY <2>3, PlainKeepsBase
  <2>. QED
    BY <1>1, <2>1, <2>2, <2>3, PlainCalls, PlainMessages DEF Worker, Calls, Base
<1>2. CASE \E timers \in SUBSET armed : Expire(timers)
  BY <1>2, ExpireKeepsBase
<1>3. CASE \E t \in due : Deliver(t)
  BY <1>3, DeliverKeepsBase
<1>4. CASE UNCHANGED vars
  BY <1>4 DEF vars, Base, Shape, Names, OnePerName
<1>. QED
  BY <1>1, <1>2, <1>3, <1>4 DEF Next

LEMMA InitBase == Init => Base
<1>1. <<>> \in Seq(Said)
  BY Continuations
<1>2. "DEREGISTERED" \in States
  BY DEF States
<1>. QED
  BY <1>1, <1>2 DEF Init, Base, Shape, Names, OnePerName

\* The shape of the FSM, the timers and the calls in every reachable state.
THEOREM BaseCorrect == Spec => []Base
  BY InitBase, NextKeepsBase, PTL DEF Spec

-----------------------------------------------------------------------------
(* The timers that run are those of the state.                             *)

LEMMA TakeKeepsCurrent ==
  ASSUME Base, Timely(armed), NEW o \in Objs, NEW r \in Rows, NEW live,
         Take(o, r, live),
         \A t \in armed : t[1] = o => r.from = StateOf[t[2]] /\ t[2] # r.on,
         r.on # "ConfigUpdateCommandSent"
  PROVE  Timely(armed)'
<1>1. SoundRow(r)
  BY TableSound
<1>2. fstate' = [fstate EXCEPT ![o] = r.to] /\ armed' = Rearm(o, r)
  BY DEF Take
<1> SUFFICES ASSUME NEW t \in armed'
             PROVE  t[2] # "T3555Expired" /\ fstate'[t[1]] = StateOf[t[2]]
  BY DEF Timely
<1>3. t \in Objs \X Expiries /\ ~Clears(r)
  BY <1>2, RearmShape DEF Rearm
<1>4. CASE t \in {<<o, e>> : e \in r.start}
  BY <1>1, <1>2, <1>3, <1>4 DEF SoundRow, Base, Shape
<1>5. CASE t \in armed \ Named(r.stop \union {TimerOf[e] : e \in r.start})
  <2>1. t[2] # "T3555Expired" /\ fstate[t[1]] = StateOf[t[2]] /\ TimerOf[t[2]] \notin r.stop
    BY <1>5 DEF Timely, Named
  <2>2. CASE t[1] # o
    BY <2>1, <2>2, <1>2, <1>3 DEF Base, Shape
  <2>3. CASE t[1] = o
    <3>1. StateOf[t[2]] = r.from /\ t[2] # r.on
      BY <2>3, <1>5
    <3>2. r.to = r.from
      BY <3>1, <2>1, <1>1, <1>3 DEF SoundRow
    <3>. QED
      BY <3>1, <3>2, <2>1, <2>3, <1>2, <1>3 DEF Base, Shape
  <2>. QED
    BY <2>2, <2>3
<1>. QED
  BY <1>2, <1>3, <1>4, <1>5 DEF Rearm

\* Two running or due timers of one object are the same timer: the states they
\* belong to differ, T3555 left aside.
LEMMA OnePerState ==
  \A d, e \in Expiries \ {"T3555Expired"} : StateOf[d] = StateOf[e] => d = e
  BY DEF Expiries, TimerOf, StateOf

LEMMA WorkerFiresKeepsCurrent == ASSUME IInv, due = {}, WorkerFires PROVE Current'
<1>1. due' = {}
  BY DEF WorkerFires
<1>2. CASE Ignored
  BY <1>1, <1>2 DEF Ignored, IInv, Current, Timely
<1>3. CASE \E r \in Match(State, Head(todo)), o \in Objs :
               Take(o, r, o) /\ (fsm = o \/ (fsm = None /\ o \notin InUse))
  <2>1. PICK r \in Match(State, Head(todo)), o \in Objs :
               Take(o, r, o) /\ (fsm = o \/ (fsm = None /\ o \notin InUse))
    BY <1>3
  <2>2. r \in Rows /\ r.from = State /\ r.on = Head(todo)
    BY <2>1 DEF Match
  <2>3. Head(todo) \in Said
    BY RestOfTodo DEF WorkerFires, IInv, Base, Shape
  <2>4. Head(todo) \notin Expiries /\ Head(todo) # "ConfigUpdateCommandSent"
    BY <2>3 DEF Said, Ops, Expiries, TimerOf
  <2>5. \A t \in armed : t[1] = o => r.from = StateOf[t[2]] /\ t[2] # r.on
    <3>1. CASE fsm = o
      <4>1. r.from = fstate[o]
        BY <3>1, <2>2, GmmAssumption DEF State
      <4>. QED
        BY <4>1, <2>2, <2>4 DEF IInv, Base, Shape, Current, Timely
    <3>2. CASE o \notin InUse
      BY <3>2 DEF InUse
    <3>. QED
      BY <3>1, <3>2, <2>1
  <2>6. Base /\ Timely(armed)
    BY DEF IInv, Current
  <2>7. Take(o, r, o)
    BY <2>1
  <2>8. r.on # "ConfigUpdateCommandSent"
    BY <2>2, <2>4
  <2>9. Timely(armed)'
    BY <2>2, <2>5, <2>6, <2>7, <2>8, TakeKeepsCurrent
  <2>. QED
    BY <2>9, <1>1 DEF Current, Timely
<1>. QED
  BY <1>2, <1>3, FireTakes DEF WorkerFires, IInv

LEMMA DeliverKeepsCurrent == ASSUME IInv, NEW t \in due, Deliver(t) PROVE Current'
<1>1. /\ due' = due \ {t} /\ t[1] \in Objs /\ t[2] \in Expiries \ {"T3555Expired"}
      /\ t = <<t[1], t[2]>> /\ t \notin armed /\ fstate[t[1]] = StateOf[t[2]]
  BY DEF Deliver, IInv, Base, Shape, Current, Timely
<1>2. CASE Ignored
  BY <1>1, <1>2 DEF Ignored, IInv, Current, Timely
<1>3. CASE \E r \in Match(fstate[t[1]], t[2]) : Take(t[1], r, fsm)
  <2>1. PICK r \in Rows : Take(t[1], r, fsm) /\ r.from = fstate[t[1]] /\ r.on = t[2]
    BY <1>3 DEF Match
  <2>2. r.on # "ConfigUpdateCommandSent"
    BY <2>1, <1>1 DEF Expiries, TimerOf
  <2>3. \A u \in armed \union due : u[1] = t[1] => u = t
    BY <1>1, OnePerState DEF IInv, Base, Shape, Current, Timely
  <2>4. \A u \in armed : u[1] = t[1] => r.from = StateOf[u[2]] /\ u[2] # r.on
    BY <2>3, <1>1
  <2>5. Base /\ Timely(armed)
    BY DEF IInv, Current
  <2>6. Timely(armed)'
    BY <2>1, <2>2, <2>4, <2>5, <1>1, TakeKeepsCurrent
  <2>7. fstate' = [fstate EXCEPT ![t[1]] = r.to]
    BY <2>1 DEF Take
  <2>8. Timely(due)'
    BY <2>3, <2>7, <1>1 DEF IInv, Base, Shape, Current, Timely
  <2>9. armed' \intersect due' = {}
    BY <2>1, <2>3, <1>1 DEF Take, Rearm, Named, IInv, Current
  <2>. QED
    BY <2>6, <2>8, <2>9 DEF Current
<1>. QED
  BY <1>2, <1>3 DEF Deliver, FireTimer

LEMMA NextKeepsCurrent == ASSUME "race" \notin Env, IInv, [Next]_vars PROVE Current'
<1>1. CASE Worker
  <2>1. due = {}
    BY <1>1 DEF Worker
  <2>2. CASE WorkerFires
    BY <2>1, <2>2, WorkerFiresKeepsCurrent
  <2>3. CASE LowerLayerFailure
    BY <2>1, <2>3 DEF LowerLayerFailure, Current, Timely
  <2>4. CASE Plain
    BY <2>4, PlainKeepsCurrent DEF IInv
  <2>. QED
    BY <1>1, <2>2, <2>3, <2>4, PlainCalls, PlainMessages DEF Worker, Calls, IInv, Base
<1>2. CASE \E timers \in SUBSET armed : Expire(timers)
  BY <1>2 DEF Expire, IInv, Current, Timely
<1>3. CASE \E t \in due : Deliver(t)
  BY <1>3, DeliverKeepsCurrent
<1>4. CASE UNCHANGED vars
  BY <1>4 DEF vars, IInv, Current, Timely
<1>. QED
  BY <1>1, <1>2, <1>3, <1>4 DEF Next

\* As long as no pass of the tick goroutine overlaps a handler, a running timer is
\* the one of the state its FSM object is in.
THEOREM TimersFollowState == "race" \notin Env => (Spec => []TimerMatchesState)
<1> SUFFICES ASSUME "race" \notin Env PROVE Spec => []TimerMatchesState
  OBVIOUS
<1>1. Init => IInv
  BY InitBase DEF Init, IInv, Current, Timely
<1>2. IInv /\ [Next]_vars => IInv'
  BY NextKeepsBase, NextKeepsCurrent DEF IInv
<1>3. IInv => TimerMatchesState
  BY DEF IInv, Current, Timely, TimerMatchesState
<1>. QED
  BY <1>1, <1>2, <1>3, PTL DEF Spec
=============================================================================
