-------------------------------- MODULE Gmm --------------------------------
(***************************************************************************)
(* nf/amf/gmm: the AMF side of 5GMM for one UE context: the handlers of the *)
(* NAS messages, the FSM they fire events into, and the NAS timers.         *)
(*                                                                         *)
(* Two goroutines act on the context.  The worker of the UE's SCTP stream   *)
(* runs one handler after the other; `todo' holds the calls its current     *)
(* handler still has to make: FSM events, by name, and the helpers defined  *)
(* below.  The goroutine of the timer manager runs expiry callbacks, each a *)
(* Fire, between any two of those calls.  Fire itself holds the FSM's mutex.*)
(*                                                                         *)
(* An expiry callback is bound to the FSM object that armed the timer, and  *)
(* the context may have another object by then, or none: Drop only takes    *)
(* the object out of the registry.                                         *)
(***************************************************************************)
EXTENDS Naturals, Sequences, GmmTable

CONSTANTS
    Objs,       \* identities of the FSM objects on the heap
    Requests,   \* contents of a Registration Request, compared byte by byte
    MaxAuthRetries,     \* maxAuthRetries, 3 in the code
    Env,        \* what the environment may do, see EnvKinds
    None

\* collision: the UE requests a registration or a deregistration while a
\*            procedure is in progress
\* crossing:  uplink messages cross the release of the N2 connection, and an
\*            Initial UE Message may come before the old connection is released
\* radioLoss: the gNB asks for the release during a procedure
\* sendFails: the SCTP send of a downlink NAS message fails
\* failure:   the UE, the UDM or the network refuses
\* supersede: another context registers with the same SUPI and removes this one
\* race:      a pass of the tick goroutine overlaps a handler of the worker
EnvKinds == {"collision", "crossing", "radioLoss", "sendFails", "failure", "supersede", "race"}

ASSUME GmmAssumption ==
    /\ None \notin Objs
    /\ MaxAuthRetries \in Nat \ {0}
    /\ Env \subseteq EnvKinds

VARIABLES
    fsm,        \* fsmReg[ue]: the FSM object in the registry, or None
    fstate,     \* the state of each FSM object
    armed,      \* running timers: <<object that armed it, event of its expiry>>
    due,        \* collected expiries whose callbacks have not run
    todo,       \* what the worker's handler still has to call
    ue          \* the AmfUeCtx

vars == <<fsm, fstate, armed, due, todo, ue>>

Ctx == [
    present : BOOLEAN,      \* in the UE registry
    n2 : {"connected", "releasing", "idle"},
    rm : {"REGISTERED", "DEREGISTERED"},
    proc : {"none", "registration", "deregistration"},
    retx : {"none", "idreq", "authreq", "smc", "accept"},   \* RetxNASPDU
    last : Requests \union {"none"},                         \* LastRegRequestPDU
    indexed : BOOLEAN,      \* LookupByIMSI finds this context
    authDone : BOOLEAN,
    keys : {"none", "operative", "unconfirmed"},    \* what KAMF belongs to
    pending : BOOLEAN,      \* a security mode command is unanswered
    activated : BOOLEAN,
    authRetry : 0..MaxAuthRetries,
    hardRemove : BOOLEAN]   \* HardRemoveOnComplete

Fresh == [present |-> TRUE, n2 |-> "connected", rm |-> "DEREGISTERED", proc |-> "none",
          retx |-> "none", last |-> "none", indexed |-> FALSE, authDone |-> FALSE,
          keys |-> "none", pending |-> FALSE, activated |-> FALSE, authRetry |-> 0,
          hardRemove |-> FALSE]

Init ==
    /\ fsm = None
    /\ fstate = [o \in Objs |-> "DEREGISTERED"]
    /\ armed = {}
    /\ due = {}
    /\ todo = <<>>
    /\ ue = Fresh

-----------------------------------------------------------------------------
(* The FSM engine.                                                         *)

\* Of(ue) makes a DEREGISTERED object when there is none: without an object the
\* FSM is as good as one.
State == IF fsm = None THEN "DEREGISTERED" ELSE fstate[fsm]

InUse == {fsm} \union {t[1] : t \in armed \union due}

\* Mutant: RM survives the way back to DEREGISTERED.
Mirror_KeepsRm(u, state) ==
    CASE state = "DEREGISTERED" -> [u EXCEPT !.proc = "none"]
      [] state = "REGISTERED" -> [u EXCEPT !.rm = "REGISTERED", !.proc = "none"]
      [] state \in {"DEREGISTRATION_INITIATED", "MT_DEREG_PENDING"} -> [u EXCEPT !.proc = "deregistration"]
      [] OTHER -> [u EXCEPT !.proc = "registration"]

\* mirrorToUECtx.
Mirror(u, state) ==
    CASE state = "DEREGISTERED" -> [u EXCEPT !.rm = "DEREGISTERED", !.proc = "none"]
      [] state = "REGISTERED" -> [u EXCEPT !.rm = "REGISTERED", !.proc = "none"]
      [] state \in {"DEREGISTRATION_INITIATED", "MT_DEREG_PENDING"} -> [u EXCEPT !.proc = "deregistration"]
      [] OTHER -> [u EXCEPT !.proc = "registration"]

\* uectxrelease.SendCommand.
Releasing(u) == [u EXCEPT !.n2 = IF @ = "idle" THEN @ ELSE "releasing"]

\* What Registry.ClearVolatile resets; the security context survives.
Cleared(u) == [u EXCEPT !.rm = "DEREGISTERED", !.proc = "none", !.retx = "none", !.last = "none"]

\* Rows whose action drops the FSM: deregistration finalised, implicit deregistration.
Clears(r) == r.from \in {"DEREGISTRATION_INITIATED", "MT_DEREG_PENDING"} \/ r.on = "T3512Expired"

\* Rows whose action releases the N2 connection: deregistration finalised, or
\* nothing came back from the UE.
GivesUp(r) == Clears(r) \/ r.on \in {"T3570Expired", "T3560AuthExpired", "T3560SMCExpired"}

Acted(u, r) ==
    LET v == IF GivesUp(r) THEN Releasing(u) ELSE u
    IN  IF Clears(r) THEN Cleared(v) ELSE v

Named(names) == {t \in armed : TimerOf[t[2]] \in names}

\* Mutant: the timers of the state that is left keep running.
Rearm_NoStop(o, r) ==
    (armed \ Named({TimerOf[e] : e \in r.start})) \union {<<o, e>> : e \in r.start}

\* Mutant: a Registration Accept sent again for a reused context is not guarded.
Rearm_AcceptUnguarded(o, r) ==
    (armed \ Named(r.stop)) \union
    (IF r.on = "RegRequestContextValid" THEN {} ELSE {<<o, e>> : e \in r.start})

\* Stop the row's timers, start the row's timers; Start replaces a timer of the
\* same name, whichever object armed it.
Rearm(o, r) ==
    IF Clears(r) THEN {}
    ELSE (armed \ Named(r.stop \union {TimerOf[e] : e \in r.start}))
         \union {<<o, e>> : e \in r.start}

\* A matching row is taken by object o; `live' is the registry's object.
Take(o, r, live) ==
    /\ fstate' = [fstate EXCEPT ![o] = r.to]
    /\ armed' = Rearm(o, r)
    /\ ue' = Mirror(Acted(ue, r), r.to)
    /\ fsm' = IF Clears(r) THEN None ELSE live

Ignored == UNCHANGED <<fsm, fstate, armed, ue>>

\* FireTimer: on the object the callback is bound to.
FireTimer(o, event) ==
    \/ Match(fstate[o], event) = {} /\ Ignored
    \/ \E r \in Match(fstate[o], event) : Take(o, r, fsm)

\* Of(ue).Fire: on the registry's object, or on a new one.
Fire(event) ==
    \/ Match(State, event) = {} /\ Ignored
    \/ \E r \in Match(State, event), o \in IF fsm = None THEN Objs \ InUse ELSE {fsm} :
        Take(o, r, o)

-----------------------------------------------------------------------------
(* The calls a handler makes, each a step of the worker.  A call that has to *)
(* make further calls puts them before what is left of the handler.         *)

Call(op, cont) == todo # <<>> /\ Head(todo) = op /\ todo' = cont \o Tail(todo)

UpdateUe(u) == ue' = u /\ UNCHANGED <<fsm, fstate, armed, due>>

WorkerFires ==
    /\ todo # <<>>
    /\ Head(todo) \in Events
    /\ Fire(Head(todo))
    /\ todo' = Tail(todo)
    /\ UNCHANGED due

SendOutcomes == {"sent"} \union (IF "sendFails" \in Env THEN {"unsent"} ELSE {})

\* Mutant: what is cached already is not replaced.
Cache_OnlyWhenEmpty(u, pdu, outcome) ==
    IF outcome = "sent" /\ u.retx = "none" THEN [u EXCEPT !.retx = pdu] ELSE u

\* The PDU is cached for retransmission only once it is sent.
Cache(u, pdu, outcome) == IF outcome = "sent" THEN [u EXCEPT !.retx = pdu] ELSE u

StartAuthentication ==
    \/ \E outcome \in SendOutcomes :
        /\ Call("startAuthentication", <<>>)
        /\ UpdateUe(Cache([ue EXCEPT !.authDone = FALSE, !.keys = "unconfirmed",
                                     !.proc = "registration"], "authreq", outcome))
    \/ \* the AUSF has no vector
        /\ "failure" \in Env
        /\ Call("startAuthentication", <<"abortRegistration">>)
        /\ UpdateUe([ue EXCEPT !.authDone = FALSE])

StartSecurityMode ==
    \/ \E outcome \in SendOutcomes :
        /\ Call("startSecurityMode", <<>>)
        /\ UpdateUe(Cache([ue EXCEPT !.pending = TRUE], "smc", outcome))
    \/ \* no common algorithm
        /\ "failure" \in Env
        /\ Call("startSecurityMode", <<"abortRegistration">>)
        /\ UpdateUe(ue)

\* abortRegistrationAndReleaseN1, with the gNB still there: the FSM is left as it is.
AbortRegistration ==
    /\ Call("abortRegistration", <<>>)
    /\ ue' = [Releasing(ue) EXCEPT !.hardRemove = TRUE, !.proc = "none", !.rm = "DEREGISTERED"]
    /\ armed' = {}
    /\ UNCHANGED <<fsm, fstate, due>>

\* Registry.Remove and its hooks: cancel the timers, drop the FSM.
Remove(u) ==
    /\ ue' = [u EXCEPT !.present = FALSE, !.indexed = FALSE]
    /\ fsm' = None
    /\ armed' = {}
    /\ UNCHANGED <<fstate, due>>

SendAuthenticationReject ==
    /\ Call("authenticationReject", <<>>)
    /\ Remove([Releasing(ue) EXCEPT !.authDone = FALSE, !.pending = FALSE, !.proc = "none"])

\* Mutant: the hooks are not run.
ClearVolatile_NoHooks(u) == UpdateUe(Cleared(u))

ClearVolatile(u) ==
    /\ ue' = Cleared(u)
    /\ fsm' = None
    /\ armed' = {}
    /\ UNCHANGED <<fstate, due>>

FinishDeregistration ==
    /\ Call("clearVolatile", <<>>)
    /\ ClearVolatile(ue)

\* sendRegistrationAcceptReusedContext.  When the Initial Context Setup cannot be
\* sent the handler authenticates after all, and fires the event for it only on
\* the path where the context was the UE's own.
AcceptReused ==
    \E op \in {"acceptReused", "acceptMigrated"} :
        \/ \E outcome \in SendOutcomes :
            /\ Call(op, <<"RegRequestContextValid">>)
            /\ UpdateUe(Cache(ue, "accept", outcome))
        \/ /\ "sendFails" \in Env
           /\ Call(op, IF op = "acceptReused" THEN <<"startAuthentication", "RegistrationRequest">>
                                              ELSE <<"startAuthentication">>)
           /\ UpdateUe(ue)

\* Mutant: the procedure is aborted, the FSM is left where it is.
LowerLayerFailure_KeepsFsm ==
    /\ Call("lowerLayerFailure", <<>>)
    /\ armed' = {}
    /\ ue' = [ue EXCEPT !.proc = "none", !.retx = "none", !.pending = FALSE]
    /\ UNCHANGED <<fsm, fstate, due>>

\* dispatch.go, OnNASLowerLayerFailure: abort the procedure, then ResetTo
\* REGISTERED or drop the FSM.
LowerLayerFailure ==
    /\ Call("lowerLayerFailure", <<>>)
    /\ armed' = {}
    /\ ue' = [ue EXCEPT !.proc = "none", !.retx = "none", !.pending = FALSE]
    /\ IF ue.rm = "REGISTERED"
       THEN \E o \in IF fsm = None THEN Objs \ InUse ELSE {fsm} :
                fsm' = o /\ fstate' = [fstate EXCEPT ![o] = "REGISTERED"]
       ELSE fsm' = None /\ UNCHANGED fstate
    /\ UNCHANGED due

-----------------------------------------------------------------------------
(* Uplink NAS messages.  The gNB delivers them as long as the context is in *)
(* the registry and the connection has not been released.                   *)

Idle == todo = <<>>

\* The handler of an Initial UE Message goes on with the NAS message it carries.
Uplink ==
    /\ Idle \/ todo = <<"dispatch">>
    /\ ue.present
    /\ ue.n2 = "connected" \/ (ue.n2 = "releasing" /\ "crossing" \in Env)

Handle(u, calls) ==
    /\ ue' = u
    /\ todo' = calls
    /\ UNCHANGED <<fsm, fstate, armed, due>>

\* A handler that cancels every timer before it goes on.
HandleQuietly(u, calls) ==
    /\ ue' = u
    /\ todo' = calls
    /\ armed' = {}
    /\ UNCHANGED <<fsm, fstate, due>>

\* checkCollision, for the two requests: a procedure in progress is aborted
\* before the handler runs.
Collides == ue.proc # "none"
Admits == Uplink /\ (Collides => "collision" \in Env)
Admitted == IF Collides THEN [ue EXCEPT !.proc = "none", !.retx = "none", !.pending = FALSE] ELSE ue
HandleAdmitted(u, calls) == IF Collides THEN HandleQuietly(u, calls) ELSE Handle(u, calls)

\* The same bytes again before the registration is over: the cached PDU is sent
\* again if there is one, and nothing else is done.
IsDuplicate(request) == ue.last = request /\ ue.rm = "DEREGISTERED"

DuplicateRequest(request) ==
    /\ Admits
    /\ IsDuplicate(request)
    /\ HandleAdmitted(Admitted, <<>>)

\* canReuseCachedContext, for an ngKSI that matches.
CanReuse(u) == u.authDone /\ u.keys # "none"

\* What the handler has noted when it decides: the request is being served, an
\* identity is asked for, its bytes are kept, its SUPI is known, the security
\* context of another context of the SUPI has been moved here.
Asked == [Admitted EXCEPT !.proc = "registration"]
Questioned == [Asked EXCEPT !.retx = "idreq"]
Known(request) == [Asked EXCEPT !.last = request]
Listed(request) == [Known(request) EXCEPT !.indexed = TRUE]
Migrated(request) ==
    [Listed(request) EXCEPT !.authDone = TRUE, !.keys = "operative", !.activated = TRUE]

\* How the handler may go on with a request: <<context, calls>>.
RegistrationOutcomes(request) ==
    {<<Listed(request), <<"startAuthentication", "RegistrationRequest">>>>,
     <<Questioned, <<"IdentityRequestSent">>>>}
    \union \* undecodable or no SUPI to be derived; unknown to the UDM or without a slice
    (IF "failure" \in Env
     THEN {<<Asked, <<"abortRegistration">>>>, <<Known(request), <<"abortRegistration">>>>}
     ELSE {})
    \union
    (IF CanReuse(Asked) THEN {<<Known(request), <<"acceptReused">>>>} ELSE {})
    \union \* the context found by SUPI or S-TMSI is another one
    (IF ~ue.indexed THEN {<<Migrated(request), <<"acceptMigrated">>>>} ELSE {})

RegistrationRequest(request) ==
    /\ Admits
    /\ ~IsDuplicate(request)
    /\ \E outcome \in RegistrationOutcomes(request) : HandleAdmitted(outcome[1], outcome[2])

IdentityResponse ==
    /\ Uplink
    /\ State = "IDENTIFICATION"
    /\ LET listed == [ue EXCEPT !.indexed = TRUE] IN
       \/ "failure" \in Env /\ Handle(ue, <<"IdentityResponseFail", "abortRegistration">>)
       \/ "failure" \in Env /\ ue.proc = "registration" /\ Handle(listed, <<"abortRegistration">>)
       \/ ue.proc = "registration" /\ Handle(listed, <<"startAuthentication", "IdentityResponse">>)
       \/ ue.proc # "registration" /\ Handle(listed, <<"IdentityResponse">>)

AuthenticationResponse ==
    /\ Uplink
    /\ State = "AUTHENTICATION"
    /\ ~ue.authDone
    /\ \/ Handle([ue EXCEPT !.authDone = TRUE], <<"startSecurityMode", "AuthResponseValid">>)
       \/ "failure" \in Env /\ Handle(ue, <<"AuthResponseInvalid", "abortRegistration">>)
       \/ "failure" \in Env /\ Handle(ue, <<"AuthResponseInvalid", "authenticationReject">>)

\* Mutant: the count is compared before it is raised.
AuthenticationFailure_OffByOne ==
    /\ Uplink
    /\ "failure" \in Env
    /\ State = "AUTHENTICATION"
    /\ LET again == [ue EXCEPT !.authRetry = @ + 1] IN
       IF ue.authRetry > MaxAuthRetries
       THEN Handle(again, <<"AuthenticationFailure", "authenticationReject">>)
       ELSE Handle(again, <<"startAuthentication", "AuthRetry">>)

\* Causes 20, 21 and 26 take a new vector, cause 71 sends the same challenge again.
AuthenticationFailure ==
    /\ Uplink
    /\ "failure" \in Env
    /\ State = "AUTHENTICATION"
    /\ LET again == [ue EXCEPT !.authRetry = @ + 1] IN
       \/ Handle(ue, <<"AuthenticationFailure">>)  \* undecodable
       \/ /\ again.authRetry >= MaxAuthRetries
          /\ Handle(again, <<"AuthenticationFailure", "authenticationReject">>)
       \/ /\ again.authRetry < MaxAuthRetries
          /\ \/ Handle(again, <<"startAuthentication", "AuthRetry">>)
             \/ Handle([again EXCEPT !.retx = "authreq"], <<"AuthRetry">>)
             \/ "sendFails" \in Env /\ Handle(again, <<"AuthenticationFailure">>)

\* PromoteContext, then the accept; the registration is aborted when the UE owes
\* the complete Registration Request and does not send it.
SecurityModeComplete ==
    /\ Uplink
    /\ State = "SECURITY_MODE"
    /\ ue.pending
    /\ LET secured == [ue EXCEPT !.pending = FALSE, !.authDone = TRUE, !.activated = TRUE,
                                 !.keys = "operative"] IN
       \/ \E outcome \in SendOutcomes :
            Handle(Cache(secured, "accept", outcome), <<"SecurityModeComplete">>)
       \/ "failure" \in Env /\ Handle([secured EXCEPT !.proc = "registration"], <<"abortRegistration">>)

SecurityModeReject ==
    /\ Uplink
    /\ "failure" \in Env
    /\ State = "SECURITY_MODE"
    /\ Handle([ue EXCEPT !.pending = FALSE], <<"SecurityModeReject", "abortRegistration">>)

\* Taken for a duplicate when RM is REGISTERED already.
RegistrationComplete ==
    /\ Uplink
    /\ State = "REGISTERED_INITIATED"
    /\ ue.rm = "DEREGISTERED"
    /\ Handle([ue EXCEPT !.rm = "REGISTERED", !.proc = "none"], <<"RegistrationComplete">>)

ServiceRequest ==
    /\ Uplink
    /\ ue.proc = "none"
    /\ State = "REGISTERED"
    /\ Handle(ue, <<"ServiceRequest">>)

\* No state guard.
ULNASTransport ==
    /\ Uplink
    /\ Handle(ue, <<"ULNASTransport">>)

DeregistrationRequestMO ==
    /\ Admits
    /\ HandleQuietly([Releasing(Admitted) EXCEPT !.rm = "DEREGISTERED", !.proc = "none"],
                     <<"DeregistrationRequestMO", "clearVolatile">>)

\* No state guard.
DeregistrationAcceptMT ==
    /\ Uplink
    /\ ue' = [Releasing(ue) EXCEPT !.rm = "DEREGISTERED", !.proc = "none"]
    /\ armed' = armed \ Named({"T3522"})
    /\ todo' = <<"DeregistrationAcceptMT", "clearVolatile">>
    /\ UNCHANGED <<fsm, fstate, due>>

-----------------------------------------------------------------------------
(* The N2 connection and the rest of the network.                          *)

\* Initial UE Message that names the context by its S-TMSI, which an accept has
\* allocated.
InitialUEMessage ==
    /\ Idle
    /\ ue.present
    /\ ue.activated
    /\ ue.n2 = "idle" \/ "crossing" \in Env
    /\ Handle([ue EXCEPT !.n2 = "connected", !.proc = "none", !.retx = "none"], <<"dispatch">>)

\* A message without effect: undecodable, or refused by checkCollision or allowedIn.
DropMessage ==
    /\ todo = <<"dispatch">>
    /\ Handle(ue, <<>>)

\* UE Context Release Request; a user inactivity one is dropped while a PDU is cached.
ReleaseRequest ==
    /\ Idle
    /\ ue.present
    /\ ue.n2 = "connected"
    /\ ue.proc # "none" => "radioLoss" \in Env
    /\ HandleQuietly(Releasing(ue), IF ue.proc = "none" THEN <<>> ELSE <<"lowerLayerFailure">>)

\* Mutant: the context of a rejected UE is kept like any deregistered one.
ReleaseComplete_ForgetsReject ==
    /\ Idle
    /\ ue.present
    /\ ue.n2 = "releasing"
    /\ UNCHANGED todo
    /\ LET u == [ue EXCEPT !.n2 = "idle"] IN
       IF ue.rm = "DEREGISTERED" THEN ClearVolatile(u) ELSE UpdateUe(u)

ReleaseComplete ==
    /\ Idle
    /\ ue.present
    /\ ue.n2 = "releasing"
    /\ UNCHANGED todo
    /\ LET u == [ue EXCEPT !.n2 = "idle"] IN
       \/ ue.rm = "DEREGISTERED" /\ ue.hardRemove /\ Remove([u EXCEPT !.hardRemove = FALSE])
       \/ ue.rm = "DEREGISTERED" /\ ~ue.hardRemove /\ ClearVolatile(u)
       \/ ue.rm = "REGISTERED" /\ UpdateUe(u)

\* Another worker registers the SUPI on its context.
Superseded ==
    /\ "supersede" \in Env
    /\ ue.present /\ ue.indexed
    /\ Remove(ue)
    /\ UNCHANGED todo

\* Once nothing refers to a removed context, or to a context the UE has no
\* S-TMSI of, the UE comes back with a new one.
NewContext ==
    /\ Idle
    /\ ~ue.present \/ (ue.n2 = "idle" /\ ~ue.activated)
    /\ armed = {} /\ due = {}
    /\ ue' = Fresh
    /\ fsm' = None
    /\ UNCHANGED <<fstate, armed, due, todo>>

-----------------------------------------------------------------------------
(* The tick goroutine of the timer manager, with the steps of TimerService. *)

Expire(timers) ==
    /\ due = {}
    /\ timers # {}
    /\ Idle \/ "race" \in Env
    /\ armed' = armed \ timers
    /\ due' = timers
    /\ UNCHANGED <<fsm, fstate, todo, ue>>

Deliver(t) ==
    /\ FireTimer(t[1], t[2])
    /\ due' = due \ {t}
    /\ UNCHANGED todo

Calls ==
    \/ WorkerFires
    \/ StartAuthentication
    \/ StartSecurityMode
    \/ AbortRegistration
    \/ SendAuthenticationReject
    \/ FinishDeregistration
    \/ AcceptReused
    \/ LowerLayerFailure

Messages ==
    \/ \E request \in Requests : DuplicateRequest(request) \/ RegistrationRequest(request)
    \/ IdentityResponse
    \/ AuthenticationResponse
    \/ AuthenticationFailure
    \/ SecurityModeComplete
    \/ SecurityModeReject
    \/ RegistrationComplete
    \/ ServiceRequest
    \/ ULNASTransport
    \/ DeregistrationRequestMO
    \/ DeregistrationAcceptMT
    \/ InitialUEMessage
    \/ DropMessage
    \/ ReleaseRequest
    \/ ReleaseComplete
    \/ Superseded
    \/ NewContext

Worker == (due = {} \/ "race" \in Env) /\ (Calls \/ Messages)

Next ==
    \/ Worker
    \/ \E timers \in SUBSET armed : Expire(timers)
    \/ \E t \in due : Deliver(t)

Spec == Init /\ [][Next]_vars

\* The worker finishes its handler and the tick goroutine its pass.  The tick
\* goroutine does not wait for the worker; a pass that falls between two handlers
\* again and again cannot be put off by a UE that keeps sending: strong fairness.
FairSpec ==
    /\ Spec
    /\ WF_vars(Calls /\ Worker)
    /\ SF_vars(\E timers \in SUBSET armed : Expire(timers))
    /\ WF_vars(\E t \in due : Deliver(t))

-----------------------------------------------------------------------------
(* Properties                                                              *)

Ops == {"startAuthentication", "startSecurityMode", "abortRegistration", "authenticationReject",
        "acceptReused", "acceptMigrated", "lowerLayerFailure", "clearVolatile", "dispatch"}

\* The shape of the variables; the authentication retries stay in their bound.
TypeOK ==
    /\ fsm \in Objs \union {None}
    /\ fstate \in [Objs -> States]
    /\ armed \subseteq Objs \X Expiries
    /\ due \subseteq Objs \X Expiries
    /\ todo \in Seq(Events \union Ops)
    /\ ue \in Ctx

\* The state each guard or periodic timer belongs to.
StateOf == [
    T3570Expired |-> "IDENTIFICATION", T3560AuthExpired |-> "AUTHENTICATION",
    T3560SMCExpired |-> "SECURITY_MODE", T3550Expired |-> "REGISTERED_INITIATED",
    T3512Expired |-> "REGISTERED", T3555Expired |-> "REGISTERED",
    T3522Expired |-> "MT_DEREG_PENDING", TwaitExpired |-> "DEREGISTRATION_INITIATED"]

\* A running timer is the one of the state its FSM object is in: no row forgets
\* to stop what it leaves behind, so no expiry and no retransmission is about a
\* wait that is over (fsm_transitions.go, every StopTimers and StartTimers; the
\* deregistrations and ResetTo, which stop nothing, after a CancelAllForUE).
\* Passes of the tick goroutine that overlap a handler are excepted.
TimerMatchesState == \A t \in armed : fstate[t[1]] = StateOf[t[2]]

\* A UE the AMF reports as RM-REGISTERED has an FSM that knows it: nothing sets
\* RM behind the back of an FSM that is, or will be made, DEREGISTERED
\* (mirrorToUECtx, ResetTo, handleRegistrationComplete, ClearVolatile).
RegisteredHasFsm == Idle /\ ue.present /\ ue.rm = "REGISTERED" => State # "DEREGISTERED"

Quiet == Idle /\ due = {}

Guarded == \E t \in armed : t[1] = fsm /\ StateOf[t[2]] = fstate[fsm]

\* Between two messages an FSM that waits for the UE has its guard timer running,
\* unless the connection is being released (fsm_transitions.go; the clean-up of
\* uectxrelease.go:362-368, without which "the AMF stays pinned" in the state).
WaitIsGuarded ==
    Quiet /\ ue.present /\ State \in Waiting /\ ue.n2 # "releasing" => Guarded

\* What a guard timer sends again is the message it guards (retransmit.go: "the
\* bytes the sender stashed right before the transition that armed the timer").
CachedBy == [T3570Expired |-> "idreq", T3560AuthExpired |-> "authreq",
             T3560SMCExpired |-> "smc", T3550Expired |-> "accept"]

RetransmitsOwnMessage ==
    Quiet /\ ue.n2 = "connected" =>
        \A t \in armed : t[2] \in DOMAIN CachedBy => ue.retx = CachedBy[t[2]]

\* Unless the connection is being released, an FSM in REGISTERED means a UE in
\* RM-REGISTERED: a rejection leaves the FSM behind, and the removal that ends
\* it comes with the Release Complete (registration_response.go:209-265).
StateAgrees ==
    Quiet /\ ue.present /\ ue.n2 # "releasing" /\ State = "REGISTERED" => ue.rm = "REGISTERED"

\* The context of a UE whose registration was rejected does not outlive the
\* connection (HardRemoveOnComplete, uectxrelease.go:589-594).
RejectedIsRemoved == Idle /\ ue.present /\ ue.n2 = "idle" => ~ue.hardRemove

\* Whatever the UE answers or does not answer, the FSM stops waiting for it, or
\* the release of the connection is under way, which is the gNB's to complete.
RegistrationEnds == State \in Waiting ~> State \notin Waiting \/ ue.n2 = "releasing"
=============================================================================
