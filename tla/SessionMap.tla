----------------------------- MODULE SessionMap -----------------------------
(***************************************************************************)
(* What the session table of the UPF promises the threads that look         *)
(* sessions up: a session is there from the end of its creation until the   *)
(* beginning of its deletion, and nothing that is done for another session  *)
(* makes it come or go.                                                    *)
(***************************************************************************)
CONSTANT Key

VARIABLES live,     \* the sessions a lookup finds
          opening,  \* the session being created, at most one
          closing   \* the session being deleted, at most one

vars == <<live, opening, closing>>

Init == live = {} /\ opening = {} /\ closing = {}

Begin(k) ==
    /\ opening = {} /\ closing = {}
    /\ k \notin live
    /\ opening' = {k}
    /\ UNCHANGED <<live, closing>>

Open(k) ==
    /\ opening = {k}
    /\ live' = live \cup {k}
    /\ opening' = {}
    /\ UNCHANGED closing

Close(k) ==
    /\ opening = {} /\ closing = {}
    /\ k \in live
    /\ live' = live \ {k}
    /\ closing' = {k}
    /\ UNCHANGED opening

End ==
    /\ closing' = {}
    /\ UNCHANGED <<live, opening>>

Next ==
    \/ \E k \in Key : Begin(k) \/ Open(k) \/ Close(k)
    \/ End

Spec == Init /\ [][Next]_vars
=============================================================================
