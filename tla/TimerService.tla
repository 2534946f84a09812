---------------------------- MODULE TimerService ----------------------------
(***************************************************************************)
(* What infra/timers promises the components that use it.  A timer is a    *)
(* key; a key is armed, or its expiry is due, or both (it was armed again   *)
(* between the moment the tick goroutine collected the expiry and the       *)
(* moment it runs the callback), or neither.                                *)
(*                                                                         *)
(* The one guarantee the callers can build on: an expiry that is due can no *)
(* longer be taken back, an expiry that is not due yet can.                 *)
(***************************************************************************)
CONSTANT Keys

VARIABLES armed,    \* keys with a running timer
          due       \* keys whose expiry callback has been collected, not run

vars == <<armed, due>>

TypeOK == armed \subseteq Keys /\ due \subseteq Keys

Init == armed = {} /\ due = {}

\* Any number of Cancel calls followed by any number of Start calls.
Update ==
    /\ armed' \subseteq Keys
    /\ UNCHANGED due

\* One pass of the tick goroutine; it runs every callback before the next one.
Expire ==
    /\ due = {}
    /\ due' \subseteq armed
    /\ armed' = armed \ due'

\* The expiry callback of k is run; it may itself cancel and start timers.
Deliver(k) ==
    /\ k \in due
    /\ due' = due \ {k}
    /\ armed' \subseteq Keys

Next ==
    \/ Update
    \/ Expire
    \/ \E k \in Keys : Deliver(k)

Spec == Init /\ [][Next]_vars
=============================================================================
