------------------------------- MODULE NgapUe -------------------------------
(***************************************************************************)
(* nf/amf/ngap: the AMF side of the UE-associated NGAP procedures of one    *)
(* gNB (TS 38.413 8.2, 8.3): the FSM of each association, its timers, and   *)
(* the handlers and senders that fire events into it.                      *)
(*                                                                         *)
(* A worker per SCTP stream runs the handlers of the messages of its UEs,   *)
(* one after the other; here a UE has a stream of its own, and todo[u] is   *)
(* what the handler of u still has to call.  The goroutine of the timer     *)
(* manager runs every expiry callback of the process, one after the other.  *)
(* Fire holds the mutex of the FSM while it runs the action of a row.  All  *)
(* actions but one only log; the one of an expired Twait-ICS sends a UE     *)
(* Context Release Command, which fires an event itself.                   *)
(***************************************************************************)
EXTENDS Naturals, Sequences

CONSTANTS
    Ues,            \* AMF-UE-NGAP-IDs of UEs of the gNB
    Gens,           \* to tell the FSM objects of a UE apart
    MaxSetups,      \* bound on the unanswered PDU session setups of a UE
    Env,            \* what the environment may do, see EnvKinds
    None

\* crossing:  uplink NAS messages cross a release, or a new connection of the UE
\* late:      answers and release requests of the gNB cross a release
\* sendFails: the SCTP send of a message fails
\* linkLoss:  the SCTP association goes down
\* lateSetup: no answer to an Initial Context Setup Request within Twait-ICS
\* gone:      a session is removed while its setup is unanswered
\* race:      an expiry callback releases the UE between a sender's check and its send,
\*            or before its handler has come to reset the mark of the procedure
EnvKinds == {"crossing", "late", "sendFails", "linkLoss", "lateSetup", "gone", "race"}

ASSUME NgapAssumption ==
    /\ None \notin Gens /\ None \notin Ues \X Gens
    /\ MaxSetups \in Nat \ {0}
    /\ Env \subseteq EnvKinds

Objs == Ues \X Gens

States == {"NOT_ESTABLISHED", "ICS_PENDING", "ESTABLISHED", "RESOURCE_SETUP_PENDING",
           "CTX_RELEASE_PENDING", "RELEASED"}

\* A timer has the name of its expiry event.
Expiries == {"TICSExpired", "TwaitExpired"}

StateOf == [TICSExpired |-> "ICS_PENDING", TwaitExpired |-> "CTX_RELEASE_PENDING"]

VARIABLES
    fsm,        \* fsmReg: the FSM object of each UE, or None
    fstate,     \* the state of each FSM object
    pending,    \* pendingSessions of each FSM object
    armed,      \* running timers: <<object that armed it, event of its expiry>>
    due,        \* collected expiries whose callbacks have not returned
    held,       \* the object whose mutex an expiry callback holds during its action
    stage,      \* how far that action has come
    todo,       \* what the handler of each UE still has to call
    ue,         \* the AmfUeCtx of each UE and the gNB's side of it
    link        \* the SCTP association: up, or down and the UEs being released

vars == <<fsm, fstate, pending, armed, due, held, stage, todo, ue, link>>

Ctx == [
    conn : {"none", "idle", "connected", "releasing"},      \* none: no AmfUeCtx
    proc : {"none", "ics", "setup", "release"},             \* NGAPProc
    ics : BOOLEAN,          \* the gNB owes an Initial Context Setup Response
    setups : 0..MaxSetups]  \* and as many PDU Session Resource Setup answers

Absent == [conn |-> "none", proc |-> "none", ics |-> FALSE, setups |-> 0]

Fresh == [Absent EXCEPT !.conn = "connected"]

Init ==
    /\ fsm = [u \in Ues |-> None]
    /\ fstate = [o \in Objs |-> "NOT_ESTABLISHED"]
    /\ pending = [o \in Objs |-> 0]
    /\ armed = {}
    /\ due = {}
    /\ held = None
    /\ stage = "none"
    /\ todo = [u \in Ues |-> <<>>]
    /\ ue = [u \in Ues |-> Absent]
    /\ link = "up"

-----------------------------------------------------------------------------
(* fsm_transitions.go, the rows whose events some code fires; the rows for   *)
(* modification, release of one session, handover and paging have none.     *)

Row(from, on, to, stop, start) ==
    [from |-> from, on |-> on, to |-> to, stop |-> stop, start |-> start]

SetupRows == {
    Row("NOT_ESTABLISHED", "ICSRequestSent", "ICS_PENDING", {}, {"TICSExpired"}),
    Row("ICS_PENDING", "ICSResponse", "ESTABLISHED", {"TICSExpired"}, {}),
    Row("ICS_PENDING", "ICSFailure", "RELEASED", {"TICSExpired"}, {}),
    Row("ICS_PENDING", "TICSExpired", "CTX_RELEASE_PENDING", {}, {"TwaitExpired"}),
    Row("ESTABLISHED", "SetupRequestSent", "RESOURCE_SETUP_PENDING", {}, {}),
    Row("RESOURCE_SETUP_PENDING", "SetupRequestSent", "RESOURCE_SETUP_PENDING", {}, {}),
    Row("RESOURCE_SETUP_PENDING", "SetupResponse", "ESTABLISHED", {}, {})}

Releases == {"UECtxReleaseRequest", "UECtxReleaseCommand"}

\* Mutant: the setup guard outlives the setup.
ReleaseRows_NoStop ==
    {Row("NOT_ESTABLISHED", e, "CTX_RELEASE_PENDING", {}, {}) : e \in Releases}
    \union {Row("ICS_PENDING", e, "CTX_RELEASE_PENDING", {}, {}) : e \in Releases}
    \union {Row(s, e, "CTX_RELEASE_PENDING", {}, {"TwaitExpired"}) :
                s \in {"ESTABLISHED", "RESOURCE_SETUP_PENDING"}, e \in Releases}
    \union {Row("CTX_RELEASE_PENDING", e, "CTX_RELEASE_PENDING", {}, {}) : e \in Releases}

\* Nothing guards a release that begins before the context is established.
ReleaseRows ==
    {Row("NOT_ESTABLISHED", e, "CTX_RELEASE_PENDING", {}, {}) : e \in Releases}
    \union {Row("ICS_PENDING", e, "CTX_RELEASE_PENDING", {"TICSExpired"}, {}) : e \in Releases}
    \union {Row(s, e, "CTX_RELEASE_PENDING", {}, {"TwaitExpired"}) :
                s \in {"ESTABLISHED", "RESOURCE_SETUP_PENDING"}, e \in Releases}
    \union {Row("CTX_RELEASE_PENDING", e, "CTX_RELEASE_PENDING", {}, {}) : e \in Releases}

EndRows ==
    {Row("NOT_ESTABLISHED", "UECtxReleaseComplete", "RELEASED", {}, {}),
     Row("CTX_RELEASE_PENDING", "UECtxReleaseComplete", "RELEASED", {"TwaitExpired"}, {}),
     Row("CTX_RELEASE_PENDING", "TwaitExpired", "RELEASED", {}, {})}
    \union {Row(s, "NGReset", "RELEASED", {e \in Expiries : StateOf[e] = s}, {}) : s \in States}
    \union {Row(s, "UplinkNASTransport", s, {}, {}) : s \in States \ {"RELEASED"}}

Rows == SetupRows \union ReleaseRows \union EndRows

Events == {r.on : r \in Rows}

Match(state, event) == {r \in Rows : r.from = state /\ r.on = event}

-----------------------------------------------------------------------------
(* The FSM engine.                                                         *)

Owner(t) == t[1][1]

\* Mutant: an object stops and replaces the timers it has armed itself, and no other.
Rearm_OwnObject(o, r) ==
    {t \in armed : t[1] = o => t[2] \notin r.stop \union r.start}
    \union {<<o, e>> : e \in r.start}

\* Start replaces the running timer of that name and UE, whichever object armed it.
Rearm(o, r) ==
    {t \in armed : Owner(t) = o[1] => t[2] \notin r.stop \union r.start}
    \union {<<o, e>> : e \in r.start}

Take(o, r) ==
    /\ fstate' = [fstate EXCEPT ![o] = r.to]
    /\ armed' = Rearm(o, r)

FireOn(o, event) ==
    \/ Match(fstate[o], event) = {} /\ UNCHANGED <<fstate, armed>>
    \/ \E r \in Match(fstate[o], event) : Take(o, r)

InUse == {t[1] : t \in armed \union due} \union {held}

\* Of: the object in the registry, or a new one, NOT_ESTABLISHED with no sessions.
NewObj(u, o) ==
    /\ fsm[u] = None /\ o[1] = u /\ o \notin InUse
    /\ fsm' = [fsm EXCEPT ![u] = o[2]]

\* Of(u).Fire(event) with `count' sessions pending.  It waits for the mutex.
Fire(u, event, count) ==
    \/ \E o \in Objs :
        /\ o = <<u, fsm[u]>> /\ o # held
        /\ FireOn(o, event)
        /\ pending' = [pending EXCEPT ![o] = count]
        /\ UNCHANGED fsm
    \/ \E o \in Objs :
        /\ NewObj(u, o)
        /\ \/ Match("NOT_ESTABLISHED", event) = {}
              /\ fstate' = [fstate EXCEPT ![o] = "NOT_ESTABLISHED"] /\ UNCHANGED armed
           \/ \E r \in Match("NOT_ESTABLISHED", event) : Take(o, r)
        /\ pending' = [pending EXCEPT ![o] = count]

Pending(u) == IF fsm[u] = None THEN 0 ELSE pending[<<u, fsm[u]>>]

Reached(u) == IF fsm[u] = None THEN "NOT_ESTABLISHED" ELSE fstate[<<u, fsm[u]>>]

-----------------------------------------------------------------------------
(* The calls a handler makes, each a step of the worker of the UE.          *)

Call(u, op, cont) ==
    /\ todo[u] # <<>> /\ Head(todo[u]) = op
    /\ todo' = [todo EXCEPT ![u] = cont \o Tail(@)]

UpdateUe(u, v) == ue' = [ue EXCEPT ![u] = v]

Quietly == UNCHANGED <<fsm, fstate, pending, armed, due, held, stage, link>>

\* Mutant: the answer to the last session does not bring the FSM back.
AnswerFires_None(u) == FALSE

\* Untrack: the answer to the last session that is counted fires its event.
AnswerFires(u) == Pending(u) <= 1

\* Mutant: answers are not counted down.
Answered_Not(n) == n

\* untrackPending: never below zero.
Answered(n) == IF n = 0 THEN 0 ELSE n - 1

\* A session request is counted before its event is fired, an answer after it.
FiresEvent(u) ==
    \E event \in Events \ Expiries :
        /\ Call(u, event, <<>>)
        /\ CASE event = "SetupRequestSent" -> Fire(u, event, Pending(u) + 1)
             [] event = "SetupResponse" /\ AnswerFires(u) -> Fire(u, event, Answered(Pending(u)))
             [] event = "SetupResponse" /\ ~AnswerFires(u) ->
                    /\ <<u, fsm[u]>> # held
                    /\ pending' = [pending EXCEPT ![<<u, fsm[u]>>] = Answered(@)]
                    /\ UNCHANGED <<fsm, fstate, armed>>
             [] OTHER -> Fire(u, event, Pending(u))
        /\ UNCHANGED <<due, held, stage, ue, link>>

DropsFsm(u) ==
    /\ Call(u, "drop", <<>>)
    /\ fsm' = [fsm EXCEPT ![u] = None]
    /\ UNCHANGED <<fstate, pending, armed, due, held, stage, ue, link>>

SendOutcomes ==
    (IF link = "up" THEN {"sent"} ELSE {})
    \union (IF link = "down" \/ "sendFails" \in Env THEN {"unsent"} ELSE {})

\* Mutant: the procedure in progress is not looked at.
CanStart_Always(u, procedure) == TRUE

\* uectx.CanStartNGAPProcedure.
CanStart(u, procedure) ==
    ue[u].proc # "release" /\ ~(procedure = "ics" /\ ue[u].proc = "ics")

Goes(u, op, cont) ==
    /\ Call(u, op, cont)
    /\ UNCHANGED ue /\ Quietly

SendOf == [ics |-> "send-ics", setup |-> "send-setup"]

\* initialctxsetup.Send and pdusetup.Send look at NGAPProc, without a lock, ...
Checks(u) ==
    \E procedure \in {"ics", "setup"} :
        Goes(u, procedure, IF CanStart(u, procedure) THEN <<SendOf[procedure]>> ELSE <<>>)

\* ... and set it once the message is encoded and sent.
SendsIcs(u) ==
    \/ /\ "sent" \in SendOutcomes
       /\ Call(u, "send-ics", <<"ICSRequestSent">>)
       /\ UpdateUe(u, [ue[u] EXCEPT !.proc = "ics", !.ics = TRUE])
       /\ Quietly
    \/ "unsent" \in SendOutcomes /\ Goes(u, "send-ics", <<>>)

\* The first disjunct is bounded by MaxSetups.
SendsSetup(u) ==
    \/ /\ "sent" \in SendOutcomes
       /\ ue[u].setups < MaxSetups
       /\ Call(u, "send-setup", <<"SetupRequestSent">>)
       /\ UpdateUe(u, [ue[u] EXCEPT !.proc = "setup", !.setups = @ + 1])
       /\ Quietly
    \/ /\ "unsent" \in SendOutcomes \/ ue[u].setups = MaxSetups
       /\ Goes(u, "send-setup", <<>>)

Released(v) == [v EXCEPT !.proc = "release", !.conn = IF @ = "connected" THEN "releasing" ELSE @]

\* uectxrelease.SendCommand.
SendsCommand(u) ==
    \/ /\ "sent" \in SendOutcomes
       /\ Call(u, "release", <<"UECtxReleaseCommand">>)
       /\ UpdateUe(u, Released(ue[u]))
       /\ Quietly
    \/ "unsent" \in SendOutcomes /\ Goes(u, "release", <<>>)

\* The handlers of a release request and of a new connection fire or drop the FSM
\* first, and reset NGAPProc after that, whatever has been written there meanwhile.
Clears(u) ==
    /\ Call(u, "clear", <<>>)
    /\ UpdateUe(u, [ue[u] EXCEPT !.proc = "none"])
    /\ Quietly

ClearThen(calls) == <<"clear">> \o calls

Calls(u) ==
    \/ FiresEvent(u) \/ DropsFsm(u) \/ Clears(u)
    \/ Checks(u) \/ SendsIcs(u) \/ SendsSetup(u) \/ SendsCommand(u)

-----------------------------------------------------------------------------
(* The messages of the gNB.                                                *)

Idle(u) == todo[u] = <<>> /\ link = "up"

\* The gNB sends a message while it has the connection; one that is sent before
\* the release command arrives may come after it.
Arrives(u, kind) ==
    Idle(u) /\ (ue[u].conn = "connected" \/ (ue[u].conn = "releasing" /\ kind \in Env))

Handle(u, v, calls) ==
    /\ UpdateUe(u, v)
    /\ todo' = [todo EXCEPT ![u] = calls]
    /\ Quietly

\* What 5GMM makes of a NAS message (see Gmm): it sets the context up, sets up a
\* session, releases the connection, or does nothing here.
GmmCalls == {<<>>, <<"ics">>, <<"setup">>, <<"release">>}

\* A UE without a context; its AMF-UE-NGAP-ID is a new one, nothing refers to it.
NewUe(u) ==
    /\ Idle(u) /\ ue[u].conn = "none" /\ fsm[u] = None
    /\ \A o \in InUse \ {None} : o[1] # u
    /\ Handle(u, Fresh, <<>>)

\* The context is found by its S-TMSI: the FSM is dropped, its timers run on.
\* Answers of the old connection may still come when the messages cross.
InitialUEMessage(u) ==
    /\ Idle(u)
    /\ ue[u].conn = "idle" \/ (ue[u].conn # "none" /\ "crossing" \in Env)
    /\ \E calls \in GmmCalls :
        \/ Handle(u, Fresh, <<"drop">> \o calls)
        \/ Handle(u, [ue[u] EXCEPT !.conn = "connected"], <<"drop">> \o ClearThen(calls))

UplinkNASTransport(u) ==
    /\ Arrives(u, "crossing")
    /\ \E calls \in GmmCalls : Handle(u, ue[u], <<"UplinkNASTransport">> \o calls)

\* The sessions that waited for the context are set up next.
ICSResponse(u) ==
    /\ Arrives(u, "late")
    /\ ue[u].ics
    /\ \E calls \in {<<>>, <<"setup">>} :
        Handle(u, [ue[u] EXCEPT !.ics = FALSE, !.proc = "none"], <<"ICSResponse">> \o calls)

ICSFailure(u) ==
    /\ Arrives(u, "late")
    /\ ue[u].ics
    /\ Handle(u, [ue[u] EXCEPT !.ics = FALSE, !.proc = "none"], <<"ICSFailure">>)

\* One item, success or failure, of a PDU Session Resource Setup Response.  It is
\* skipped before it is counted when its session is not there any more.
SetupResponse(u) ==
    /\ Arrives(u, "late")
    /\ ue[u].setups > 0
    /\ \E calls \in {<<"SetupResponse">>} \union (IF "gone" \in Env THEN {<<>>} ELSE {}) :
        Handle(u, [ue[u] EXCEPT !.setups = @ - 1, !.proc = "none"], calls)

ReleaseRequest(u) ==
    /\ Arrives(u, "late")
    /\ Handle(u, ue[u], <<"UECtxReleaseRequest">> \o ClearThen(<<"release">>))

\* The context is kept, or removed with its registration.
ReleaseComplete(u) ==
    /\ Idle(u)
    /\ ue[u].conn = "releasing"
    /\ \E conn \in {"idle", "none"} :
        Handle(u, [Absent EXCEPT !.conn = conn], <<"UECtxReleaseComplete", "drop">>)

Messages(u) ==
    \/ NewUe(u)
    \/ InitialUEMessage(u)
    \/ UplinkNASTransport(u)
    \/ ICSResponse(u)
    \/ ICSFailure(u)
    \/ SetupResponse(u)
    \/ ReleaseRequest(u)
    \/ ReleaseComplete(u)

-----------------------------------------------------------------------------
(* The association.                                                        *)

\* handleAssociation: the workers are drained first, then the transport is gone.
LinkDown ==
    /\ "linkLoss" \in Env
    /\ link = "up"
    /\ \A u \in Ues : todo[u] = <<>>
    /\ link' = "down"
    /\ UNCHANGED <<fsm, fstate, pending, armed, due, held, stage, todo, ue>>

\* releaseUEFromGnb and the removal of the context.
Cascade(u) ==
    /\ link = "down"
    /\ ue[u].conn # "none"
    /\ Handle(u, Absent, <<"NGReset", "drop">>)

LinkUp ==
    /\ link = "down"
    /\ \A u \in Ues : ue[u].conn = "none" /\ todo[u] = <<>>
    /\ link' = "up"
    /\ UNCHANGED <<fsm, fstate, pending, armed, due, held, stage, todo, ue>>

-----------------------------------------------------------------------------
(* The tick goroutine of the timer manager, as TimerService specifies it.  *)

\* The gNB answers in time while it has the connection, or it need not.
Expires(t) ==
    t[2] = "TICSExpired" =>
        link = "down" \/ fsm[Owner(t)] # t[1][2] \/ "lateSetup" \in Env

Expire(timers) ==
    /\ due = {}
    /\ timers # {}
    /\ \A t \in timers : Expires(t)
    /\ armed' = armed \ timers
    /\ due' = timers
    /\ UNCHANGED <<fsm, fstate, pending, held, stage, todo, ue, link>>

TimesOut(t) == t[2] = "TICSExpired" /\ fstate[t[1]] = "ICS_PENDING"

\* Mutant: an expired release guard is only logged.
Deliver_LogsOnly(t) ==
    /\ held = None
    /\ ~TimesOut(t)
    /\ due' = due \ {t}
    /\ UNCHANGED <<fsm, fstate, pending, armed, held, stage, todo, ue, link>>

\* A callback whose row has an action that only logs.
Deliver(t) ==
    /\ held = None
    /\ ~TimesOut(t)
    /\ FireOn(t[1], t[2])
    /\ due' = due \ {t}
    /\ UNCHANGED <<fsm, pending, held, stage, todo, ue, link>>

\* actOnICSTimeout starts, under the mutex of the FSM.
TimeoutBegins(t) ==
    /\ held = None
    /\ TimesOut(t)
    /\ held' = t[1]
    /\ stage' = "send"
    /\ UNCHANGED <<fsm, fstate, pending, armed, due, todo, ue, link>>

\* A sender of u has looked at NGAPProc and has not sent yet.
Sending(u) == todo[u] # <<>> /\ Head(todo[u]) \in {"send-ics", "send-setup"}

\* The handler of u has still to reset NGAPProc.
Clearing(u) == \E i \in DOMAIN todo[u] : todo[u][i] = "clear"

\* A callback may write NGAPProc of u: nothing in the code keeps it from doing so
\* within a sender or a handler, see "race".
MayRelease(u) == Sending(u) \/ Clearing(u) => "race" \in Env

\* SendCtxReleaseCmdHook: the UE is looked up by its AMF-UE-NGAP-ID.
TimeoutSends ==
    /\ stage = "send"
    /\ MayRelease(held[1])
    /\ LET u == held[1] IN
       \/ /\ ue[u].conn # "none" /\ "sent" \in SendOutcomes
          /\ UpdateUe(u, Released(ue[u]))
          /\ stage' = "fire"
       \/ /\ ue[u].conn = "none" \/ "unsent" \in SendOutcomes
          /\ UNCHANGED ue
          /\ stage' = "return"
    /\ UNCHANGED <<fsm, fstate, pending, armed, due, held, todo, link>>

\* SendCommand fires into the FSM of the registry, and waits for its mutex.
TimeoutFires ==
    /\ stage = "fire"
    /\ Fire(held[1], "UECtxReleaseCommand", Pending(held[1]))
    /\ stage' = "return"
    /\ UNCHANGED <<due, held, todo, ue, link>>

TimeoutReturns ==
    /\ stage = "return"
    /\ FireOn(held, "TICSExpired")
    /\ due' = due \ {<<held, "TICSExpired">>}
    /\ held' = None
    /\ stage' = "none"
    /\ UNCHANGED <<fsm, pending, todo, ue, link>>

\* The callback of a 5GMM timer that gives the UE up.
GmmTimeout(u) ==
    /\ held = None
    /\ MayRelease(u)
    /\ ue[u].conn # "none" /\ "sent" \in SendOutcomes
    /\ UpdateUe(u, Released(ue[u]))
    /\ Fire(u, "UECtxReleaseCommand", Pending(u))
    /\ UNCHANGED <<due, held, stage, todo, link>>

Tick ==
    \/ \E t \in due : Deliver(t) \/ TimeoutBegins(t)
    \/ TimeoutSends
    \/ TimeoutFires
    \/ TimeoutReturns

Next ==
    \/ \E u \in Ues : Calls(u) \/ Messages(u) \/ Cascade(u) \/ GmmTimeout(u)
    \/ LinkDown
    \/ LinkUp
    \/ \E timers \in SUBSET armed : Expire(timers)
    \/ Tick

Spec == Init /\ [][Next]_vars

\* Goroutines that can go on do, and a timer that keeps running expires: the
\* tick goroutine comes back to it between two passes, whatever else it collects.
FairSpec ==
    /\ Spec
    /\ \A u \in Ues : WF_vars(Calls(u))
    /\ WF_vars(Tick)
    /\ \A t \in Objs \X Expiries :
        SF_vars(\E timers \in SUBSET armed : t \in timers /\ Expire(timers))

-----------------------------------------------------------------------------
(* Properties                                                              *)

Ops == {"drop", "clear", "ics", "setup", "send-ics", "send-setup", "release"}

\* The shape of the variables; the session count stays in its bound.
TypeOK ==
    /\ fsm \in [Ues -> Gens \union {None}]
    /\ fstate \in [Objs -> States]
    /\ pending \in [Objs -> 0..MaxSetups]
    /\ armed \subseteq Objs \X Expiries
    /\ due \subseteq Objs \X Expiries
    /\ held \in Objs \union {None}
    /\ stage \in {"none", "send", "fire", "return"}
    /\ todo \in [Ues -> Seq(Events \union Ops)]
    /\ ue \in [Ues -> Ctx]
    /\ link \in {"up", "down"}

\* A running timer guards what its FSM object is waiting for, however the passes
\* of the tick goroutine and the handlers overlap: no wait that is over leaves its
\* timer behind (fsm_transitions.go, every StopTimers; server.go:230-233).
TimersOfState == \A t \in armed : fstate[t[1]] = StateOf[t[2]]

\* An FSM only stays in RESOURCE_SETUP_PENDING while the gNB owes an answer: the
\* count of parallel setups brings it back with the last one (fsm.go:128-133).
SetupPendingIsOwed ==
    \A u \in Ues : Idle(u) /\ Reached(u) = "RESOURCE_SETUP_PENDING" => ue[u].setups > 0

\* No context and no session is set up on a connection whose release the gNB has
\* been ordered (uectx/states.go:117-121, initialctxsetup.go:96-98), also not by a
\* handler that was running when an expiry callback ordered it, or by a message that
\* crosses the order; the two windows of "race" break it.
NoSetupDuringRelease ==
    [][\A u \in Ues :
        ue[u].conn = "releasing" /\ ue'[u].conn = "releasing" =>
            ue'[u].setups <= ue[u].setups /\ (ue'[u].ics => ue[u].ics)]_vars

\* The objects of a UE, the one in the registry and those that were dropped, share
\* its two timers, and use them as the timer manager allows: one of a name runs at a
\* time, and what has been collected is run before the next pass, also if its callback
\* waits for a mutex (ngap/fsm/fsm.go:179-185, 218-236, 266).
TimerKey(t) == <<Owner(t), t[2]>>

Service == INSTANCE TimerService WITH
    Keys <- Ues \X Expiries,
    armed <- {TimerKey(t) : t \in armed},
    due <- {TimerKey(t) : t \in due}
ServiceSpec == Service!Spec

\* A release that is guarded ends, whether the gNB completes it or not: the FSM of
\* the UE leaves CTX_RELEASE_PENDING, or is dropped with the connection.
ReleaseEnds ==
    \A o \in Objs :
        <<o, "TwaitExpired">> \in armed ~>
            fstate[o] # "CTX_RELEASE_PENDING" \/ fsm[o[1]] # o[2]

\* fsm_transitions.go:108-111: when Twait-ICS expires the AMF sends the release
\* command and waits for its completion in CTX_RELEASE_PENDING.
SetupEnds ==
    \A o \in Objs :
        <<o, "TICSExpired">> \in armed ~> fstate[o] # "ICS_PENDING"
=============================================================================
