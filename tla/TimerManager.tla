---------------------------- MODULE TimerManager ----------------------------
(***************************************************************************)
(* core/infra/timers/manager.go: the process-wide 3GPP timer manager.       *)
(*                                                                         *)
(* Any goroutine calls Start, Cancel and CancelAllForUE under m.mu.  One    *)
(* goroutine ticks: under m.mu it collects the retransmissions and the      *)
(* expiries that are due, then, without the lock, runs their callbacks one  *)
(* after the other.  Between the two parts everything may happen.           *)
(*                                                                         *)
(* Time is relative: `expires' and `nextRetransmit' hold the time left.     *)
(***************************************************************************)
EXTENDS Naturals, Functions

CONSTANTS
    Keys,       \* the (name, ueID) pairs in use
    UEs,
    UeOf,       \* [Keys -> UEs], the ueID of a key
    Entries,    \* identities of the *entry objects on the heap
    Opt,        \* what the caller of Start passes for a key, see OptAssumption
    MaxLag,     \* bound: time from one pass of the tick goroutine to the next
    None

\* duration is Start's argument; retransmitEvery = 0 stands for a timer without
\* a retransmission stream (nil Retransmit callback or zero MaxInterval).
OptAssumption ==
    Opt \in [Keys -> [duration : Nat \ {0}, maxRetransmit : Nat, retransmitEvery : Nat]]

ASSUME TimerAssumption ==
    /\ Keys # {}
    /\ UeOf \in [Keys -> UEs]
    /\ None \notin Entries
    /\ OptAssumption
    /\ MaxLag \in Nat \ {0}

VARIABLES
    timers,     \* Manager.timers: the entry armed under a key, or None
    entry,      \* the heap: the contents of each entry object ...
    cancelled,  \* ... and the objects whose cancelled flag is set
    retx,       \* tick's local list of retransmissions still to be called
    expired,    \* tick's local list of expiries still to be called
    current,    \* the list element whose `cancelled' has been read as false
    lag         \* time since the tick goroutine last looked at the map

vars == <<timers, entry, cancelled, retx, expired, current, lag>>

Entry == [key : Keys, expires : Nat, nextRetransmit : Nat, retransmitCount : Nat]

Armed == {timers[k] : k \in Keys} \ {None}

\* Go's collector may reuse an object nothing refers to.
Free(e) == e \notin Armed \union retx \union expired

Init ==
    /\ timers = [k \in Keys |-> None]
    /\ entry \in [Entries -> {[key |-> CHOOSE k \in Keys : TRUE, expires |-> 0,
                               nextRetransmit |-> 0, retransmitCount |-> 0]}]
    /\ cancelled = {}
    /\ retx = {}
    /\ expired = {}
    /\ current = None
    /\ lag = 0

-----------------------------------------------------------------------------
(* The API, called by any goroutine, the callbacks included.               *)

NewEntry(k) == [key |-> k, expires |-> Opt[k].duration,
                nextRetransmit |-> Opt[k].retransmitEvery, retransmitCount |-> 0]

ArmedUnder(keys) == {timers[k] : k \in keys} \ {None}

Start(k) ==
    \E e \in Entries :
        /\ Free(e)
        /\ timers' = [timers EXCEPT ![k] = e]
        /\ entry' = [entry EXCEPT ![e] = NewEntry(k)]
        /\ cancelled' = (cancelled \union ArmedUnder({k})) \ {e}
        /\ UNCHANGED <<retx, expired, current, lag>>

Remove(keys) ==
    /\ timers' = [k \in Keys |-> IF k \in keys THEN None ELSE timers[k]]
    /\ cancelled' = cancelled \union ArmedUnder(keys)
    /\ UNCHANGED <<entry, retx, expired, current, lag>>

\* The call that returns true; the other one changes nothing.
Cancel(k) == timers[k] # None /\ Remove({k})

CancelAllForUE(u) == Remove({k \in Keys : UeOf[k] = u})

-----------------------------------------------------------------------------
(* The tick goroutine.                                                     *)

Idle == retx = {} /\ expired = {}

\* Mutant: one retransmission short.
RetransmitDue_OffByOne(e) ==
    LET o == Opt[entry[e].key] IN
    /\ o.retransmitEvery > 0
    /\ entry[e].retransmitCount + 1 < o.maxRetransmit
    /\ entry[e].nextRetransmit = 0

RetransmitDue(e) ==
    LET o == Opt[entry[e].key] IN
    /\ o.retransmitEvery > 0
    /\ entry[e].retransmitCount < o.maxRetransmit
    /\ entry[e].nextRetransmit = 0

Resent(e) == [entry[e] EXCEPT !.retransmitCount = @ + 1,
                              !.nextRetransmit = Opt[entry[e].key].retransmitEvery]

\* Mutant: the collected expiries stay in the map.
Tick_KeepsExpired ==
    LET resend == {e \in Armed : RetransmitDue(e)}
        over   == {e \in Armed \ resend : entry[e].expires = 0}
    IN
    /\ Idle
    /\ retx' = resend
    /\ expired' = over
    /\ entry' = [e \in Entries |-> IF e \in resend THEN Resent(e) ELSE entry[e]]
    /\ lag' = 0
    /\ UNCHANGED <<timers, cancelled, current>>

\* Mutant: an entry with a retransmission stream never reaches the expiry test.
Tick_StreamSkipsExpiry ==
    LET resend == {e \in Armed : RetransmitDue(e)}
        over   == {e \in Armed : Opt[entry[e].key].retransmitEvery = 0 /\ entry[e].expires = 0}
    IN
    /\ Idle
    /\ retx' = resend
    /\ expired' = over
    /\ timers' = [k \in Keys |-> IF timers[k] \in over THEN None ELSE timers[k]]
    /\ entry' = [e \in Entries |-> IF e \in resend THEN Resent(e) ELSE entry[e]]
    /\ lag' = 0
    /\ UNCHANGED <<cancelled, current>>

\* The locked part of tick: a retransmission that is due goes before an expiry
\* that is due, which then waits for the next pass.
Tick ==
    LET live   == Armed \ cancelled
        resend == {e \in live : RetransmitDue(e)}
        over   == {e \in live \ resend : entry[e].expires = 0}
    IN
    /\ Idle
    /\ retx' = resend
    /\ expired' = over
    /\ timers' = [k \in Keys |-> IF timers[k] \in live \ over THEN timers[k] ELSE None]
    /\ entry' = [e \in Entries |->
                    IF e \in resend THEN Resent(e) ELSE entry[e]]
    /\ lag' = 0
    /\ UNCHANGED <<cancelled, current>>

\* Mutant: a pass with retransmissions returns before the expiries.
Batch_RetransmitsOnly == retx

\* Both lists are walked without the lock, the retransmissions first.
Batch == IF retx # {} THEN retx ELSE expired

\* The read of e.cancelled races with Cancel and Start, which write it under
\* m.mu: it may return false although true has been written.
PickUp(e) ==
    /\ current = None
    /\ e \in Batch
    /\ current' = e
    /\ UNCHANGED <<timers, entry, cancelled, retx, expired, lag>>

Done(e) ==
    /\ retx' = retx \ {e}
    /\ expired' = expired \ {e}

Skip(e) ==
    /\ current = None
    /\ e \in Batch
    /\ e \in cancelled
    /\ Done(e)
    /\ UNCHANGED <<timers, entry, cancelled, current, lag>>

\* Mutant: the walk does not move past an element it has called.
Call_NoReset(e) ==
    /\ current = e
    /\ e \in Entries
    /\ Done(e)
    /\ UNCHANGED <<timers, entry, cancelled, current, lag>>

\* safeCall: a panic of the callback is recovered, the walk goes on.
Call(e) ==
    /\ current = e
    /\ e \in Entries
    /\ Done(e)
    /\ current' = None
    /\ UNCHANGED <<timers, entry, cancelled, lag>>

-----------------------------------------------------------------------------

Less(n) == IF n = 0 THEN 0 ELSE n - 1

\* One unit of time.  MaxLag says how late the tick goroutine can be: its
\* ticker period plus the time the callbacks of a pass take.
ClockAdvance ==
    /\ lag < MaxLag
    /\ lag' = lag + 1
    /\ entry' = [e \in Entries |->
                    IF e \in Armed
                    THEN [entry[e] EXCEPT !.expires = Less(@), !.nextRetransmit = Less(@)]
                    ELSE entry[e]]
    /\ UNCHANGED <<timers, cancelled, retx, expired, current>>

Next ==
    \/ \E k \in Keys : Start(k)
    \/ \E k \in Keys : Cancel(k)
    \/ \E u \in UEs : CancelAllForUE(u)
    \/ Tick
    \/ \E e \in Entries : PickUp(e)
    \/ \E e \in Entries : Skip(e)
    \/ \E e \in Entries : Call(e)
    \/ ClockAdvance

Spec == Init /\ [][Next]_vars

\* Time passes, and the goroutine of StartManager is scheduled.
FairSpec ==
    /\ Spec
    /\ WF_vars(ClockAdvance)
    /\ WF_vars(Tick)
    /\ WF_vars(\E e \in Entries : PickUp(e))
    /\ WF_vars(\E e \in Entries : Call(e))

-----------------------------------------------------------------------------
(* Properties                                                              *)

\* Every variable keeps its shape; what `current' names is in the list walked.
TypeOK ==
    /\ timers \in [Keys -> Entries \union {None}]
    /\ entry \in [Entries -> Entry]
    /\ cancelled \subseteq Entries
    /\ retx \subseteq Entries
    /\ expired \subseteq Entries
    /\ current \in Batch \union {None}
    /\ lag \in 0..MaxLag

\* A Cancel that returned true, and a Start that replaced a running timer, are
\* final: no entry they marked is in the list of expiries the tick goroutine is
\* still going to call.  manager.go:111-113, 126-128 and 315-316: this holds
\* because tick deletes what it collects under the same lock, and not because
\* of the racy check of e.cancelled at line 329, which an expiry never fails.
CancelIsFinal == expired \cap cancelled = {}

\* An expiry is only collected once the whole retransmission stream has been
\* sent, provided the tick goroutine is late by less than one retransmission
\* interval in all (MaxLag * maxRetransmit <= retransmitEvery) and the duration
\* is the one startTimer computes, interval * (max + 1) (nf/amf/gmm/fsm/fsm.go
\* 211-216, manager.go 307-317).
RetransmitsBeforeExpiry ==
    \A e \in expired :
        LET o == Opt[entry[e].key] IN
        o.retransmitEvery > 0 => entry[e].retransmitCount = o.maxRetransmit

\* The manager implements the abstract timer service: at most one callback per
\* Start, and only of a timer that was armed when the pass collected it.
Service == INSTANCE TimerService WITH
    armed <- {k \in Keys : timers[k] # None},
    due <- {entry[e].key : e \in expired}
ServiceSpec == Service!Spec

\* A running timer does not stay in the map for ever: it is called, cancelled
\* or restarted, whatever the retransmissions that go before its expiry.
TimerEnds == \A k \in Keys, e \in Entries : timers[k] = e ~> timers[k] # e

\* What a pass collected is called, whatever Start and Cancel do meanwhile.
ExpiryDelivered == \A e \in Entries : e \in expired ~> e \notin expired
=============================================================================
