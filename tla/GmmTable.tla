------------------------------ MODULE GmmTable ------------------------------
(***************************************************************************)
(* nf/amf/gmm/fsm_transitions.go: the transition table of the 5GMM FSM      *)
(* (TS 24.501 5.1.3).  A row is listed once, under the event that fires it; *)
(* of two rows with the same state and event the engine only ever finds the *)
(* first, so the second is left out (line 490, behind 374, and line 525,    *)
(* behind 387).                                                             *)
(***************************************************************************)

Waiting == {"IDENTIFICATION", "AUTHENTICATION", "SECURITY_MODE", "REGISTERED_INITIATED",
            "DEREGISTRATION_INITIATED", "MT_DEREG_PENDING"}

States == {"DEREGISTERED", "REGISTERED"} \union Waiting

\* The timer-manager name of each expiry event a row can arm: T3560 guards two
\* different messages.
TimerOf == [
    T3570Expired |-> "T3570", T3560AuthExpired |-> "T3560", T3560SMCExpired |-> "T3560",
    T3550Expired |-> "T3550", T3512Expired |-> "T3512", T3555Expired |-> "T3555",
    T3522Expired |-> "T3522", TwaitExpired |-> "Twait-ue-ctx-release"]

Expiries == DOMAIN TimerOf

Timers == {TimerOf[e] : e \in Expiries}

Row(from, on, to, stop, start) ==
    [from |-> from, on |-> on, to |-> to, stop |-> stop, start |-> start]

IdentificationRows == {
    Row("DEREGISTERED", "IdentityRequestSent", "IDENTIFICATION", {}, {"T3570Expired"}),
    Row("IDENTIFICATION", "IdentityResponse", "AUTHENTICATION", {"T3570"}, {"T3560AuthExpired"}),
    Row("IDENTIFICATION", "IdentityResponseFail", "DEREGISTERED", {"T3570"}, {}),
    Row("IDENTIFICATION", "T3570Expired", "DEREGISTERED", {}, {})}

AuthenticationRows == {
    Row("AUTHENTICATION", "AuthResponseValid", "SECURITY_MODE", {"T3560"}, {"T3560SMCExpired"}),
    Row("AUTHENTICATION", "AuthResponseInvalid", "DEREGISTERED", {"T3560"}, {}),
    Row("AUTHENTICATION", "AuthRetry", "AUTHENTICATION", {"T3560"}, {"T3560AuthExpired"}),
    Row("AUTHENTICATION", "AuthenticationFailure", "DEREGISTERED", {"T3560"}, {}),
    Row("AUTHENTICATION", "T3560AuthExpired", "DEREGISTERED", {}, {})}

SecurityModeRows == {
    Row("SECURITY_MODE", "SecurityModeComplete", "REGISTERED_INITIATED", {"T3560"}, {"T3550Expired"}),
    Row("SECURITY_MODE", "SecurityModeReject", "DEREGISTERED", {"T3560"}, {}),
    Row("SECURITY_MODE", "T3560SMCExpired", "DEREGISTERED", {}, {})}

\* A Registration Request is legal in six states; what each of them guards is
\* stopped and the authentication guard is started.
RegistrationRequestRows ==
    {Row("DEREGISTERED", "RegistrationRequest", "AUTHENTICATION", {}, {"T3560AuthExpired"})}
    \union
    {Row(s[1], "RegistrationRequest", "AUTHENTICATION", {s[2]}, {"T3560AuthExpired"}) :
        s \in {<<"REGISTERED", "T3512">>, <<"REGISTERED_INITIATED", "T3550">>, <<"IDENTIFICATION", "T3570">>,
               <<"SECURITY_MODE", "T3560">>, <<"AUTHENTICATION", "T3560">>}}

AcceptRows == {
    Row("DEREGISTERED", "RegRequestContextValid", "REGISTERED_INITIATED", {}, {"T3550Expired"}),
    Row("REGISTERED", "RegRequestContextValid", "REGISTERED_INITIATED", {"T3512"}, {"T3550Expired"}),
    Row("REGISTERED_INITIATED", "RegistrationComplete", "REGISTERED", {"T3550"}, {"T3512Expired"}),
    Row("REGISTERED_INITIATED", "T3550Expired", "REGISTERED", {}, {"T3512Expired"})}

RegisteredRows ==
    {Row("REGISTERED", e, "REGISTERED", {}, {}) :
        e \in {"ULNASTransport", "ServiceRequest", "ConfigUpdateComplete", "Status5GMM", "T3555Expired"}}
    \union
    {Row("REGISTERED", "ConfigUpdateCommandSent", "REGISTERED", {}, {"T3555Expired"}),
     Row("REGISTERED", "T3512Expired", "DEREGISTERED", {}, {})}

DeregistrationRows == {
    Row("REGISTERED", "DeregistrationRequestSentMT", "MT_DEREG_PENDING", {"T3512"}, {"T3522Expired"}),
    Row("REGISTERED", "DeregistrationRequestMO", "DEREGISTRATION_INITIATED", {"T3512"}, {"TwaitExpired"}),
    Row("DEREGISTRATION_INITIATED", "UEContextReleaseComplete", "DEREGISTERED", {"Twait-ue-ctx-release"}, {}),
    Row("DEREGISTRATION_INITIATED", "TwaitExpired", "DEREGISTERED", {}, {}),
    Row("MT_DEREG_PENDING", "DeregistrationAcceptMT", "DEREGISTERED", {"T3522"}, {}),
    Row("MT_DEREG_PENDING", "T3522Expired", "DEREGISTERED", {}, {})}

Rows == IdentificationRows \union AuthenticationRows \union SecurityModeRows
        \union RegistrationRequestRows \union AcceptRows \union RegisteredRows
        \union DeregistrationRows

Events == {r.on : r \in Rows}

\* The row the engine finds: the empty set when no row matches.
Match(state, event) == {r \in Rows : r.from = state /\ r.on = event}
=============================================================================
