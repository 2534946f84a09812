-------------------------- MODULE UpfSessionTable --------------------------
(***************************************************************************)
(* upf_session_table.c: the sessions of the UPF data plane, an array whose  *)
(* slots are handed out by an rte_hash with lock-free readers.              *)
(*                                                                         *)
(* Two threads: the API thread, on which the cgo bridge runs every create   *)
(* and delete, one at a time, and the packet thread, which looks a session  *)
(* up for each packet and uses the slot without a lock.  The slot of a      *)
(* deleted session must not become another session's under the packet      *)
(* thread; to that end a deleted position waits in a ring of Depth entries  *)
(* and is given back when Depth more sessions have been deleted.            *)
(*                                                                         *)
(* One step is what the other thread can tell apart: the lookup and         *)
(* rte_hash_add_key of a create are one step, filling the slot and setting  *)
(* "active" are two.  Stores become visible in the order of the program.    *)
(***************************************************************************)
EXTENDS RteHash

CONSTANT Depth     \* SESSION_DEFERRED_DEPTH

ASSUME DepthAssumption == Depth \in Nat \ {0}

\* extra_flag = RTE_HASH_EXTRA_FLAGS_RW_CONCURRENCY_LF
ASSUME LockFreeReaders == FreeOnDel = FALSE

VARIABLES pool,         \* session_pool
          count,        \* session_count
          deferred,     \* session_deferred
          deferredIdx,  \* session_deferred_idx
          api,          \* what the API thread is doing
          result,       \* how its last call ended
          packet        \* what the packet thread is doing

tableVars == <<pool, count, deferred, deferredIdx>>
vars == <<hashVars, tableVars, api, result, packet>>

Slot == [owner : Key \cup {None}, active : BOOLEAN]
Index == 0..(Depth - 1)
Results == {"none", "ok", "full", "exists", "no_slot", "no_bucket", "absent"}

TypeOK ==
    /\ HashTypeOK
    /\ pool \in [Position -> Slot]
    /\ count \in 0..Entries
    /\ deferred \in [Index -> Position \cup {None}]
    /\ deferredIdx \in Index
    /\ api \in [pc : {"idle", "fill", "activate", "unlink"},
                key : Key \cup {None}, pos : Position \cup {None}]
    /\ result \in Results
    /\ packet \in [pc : {"idle", "found", "using"}, key : Key \cup {None},
                   pos : Position \cup {None}, deletions : 0..(Depth + 1)]

ApiIdle == [pc |-> "idle", key |-> None, pos |-> None]
NoPacket == [pc |-> "idle", key |-> None, pos |-> None, deletions |-> 0]

\* upf_session_table_init
Init ==
    /\ HashInit
    /\ pool = [p \in Position |-> [owner |-> None, active |-> FALSE]]
    /\ count = 0
    /\ deferred = [i \in Index |-> None]
    /\ deferredIdx = 0
    /\ api = ApiIdle
    /\ result = "none"
    /\ packet = NoPacket

-----------------------------------------------------------------------------
(* upf_session_create *)

Refused(why) ==
    /\ result' = why
    /\ UNCHANGED <<tableVars, api, packet>>

\* The cap is reached.
CreateFull(k) ==
    /\ api.pc = "idle"
    /\ count >= Entries
    /\ Refused("full")
    /\ UNCHANGED hashVars

CreateExists(k) ==
    /\ api.pc = "idle"
    /\ count < Entries
    /\ Hits(k) # {}
    /\ Refused("exists")
    /\ UNCHANGED hashVars

\* rte_hash_add_key fails.
CreateFails(k) ==
    /\ api.pc = "idle"
    /\ count < Entries
    /\ \/ AddNoSlot(k) /\ Refused("no_slot")
       \/ AddNoBucket(k) /\ Refused("no_bucket")

\* The key can be found from here on; its slot is not active yet.
CreateAdds(k, p) ==
    /\ api.pc = "idle"
    /\ count < Entries
    /\ AddNew(k, p)
    /\ api' = [pc |-> "fill", key |-> k, pos |-> p]
    /\ UNCHANGED <<tableVars, result, packet>>

\* memset of the slot, then the identity of the session.
CreateFills ==
    /\ api.pc = "fill"
    /\ pool' = [pool EXCEPT ![api.pos] = [owner |-> api.key, active |-> FALSE]]
    /\ api' = [api EXCEPT !.pc = "activate"]
    /\ UNCHANGED <<hashVars, count, deferred, deferredIdx, result, packet>>

\* Mutant: the session is not counted.
CreateActivates_NotCounted ==
    /\ api.pc = "activate"
    /\ pool' = [pool EXCEPT ![api.pos].active = TRUE]
    /\ api' = ApiIdle
    /\ result' = "ok"
    /\ UNCHANGED <<hashVars, count, deferred, deferredIdx, packet>>

CreateActivates ==
    /\ api.pc = "activate"
    /\ pool' = [pool EXCEPT ![api.pos].active = TRUE]
    /\ count' = count + 1
    /\ api' = ApiIdle
    /\ result' = "ok"
    /\ UNCHANGED <<hashVars, deferred, deferredIdx, packet>>

-----------------------------------------------------------------------------
(* upf_session_delete *)

DeleteAbsent(k) ==
    /\ api.pc = "idle"
    /\ Hits(k) = {}
    /\ Refused("absent")
    /\ UNCHANGED hashVars

\* Mutant: the slot stays active until it is used again.
DeleteMarks_StaysActive(k, p) ==
    /\ api.pc = "idle"
    /\ p \in Hits(k)
    /\ api' = [pc |-> "unlink", key |-> k, pos |-> p]
    /\ UNCHANGED <<hashVars, tableVars, result, packet>>

\* Marked inactive before it is removed from the table.
DeleteMarks(k, p) ==
    /\ api.pc = "idle"
    /\ p \in Hits(k)
    /\ pool' = [pool EXCEPT ![p].active = FALSE]
    /\ api' = [pc |-> "unlink", key |-> k, pos |-> p]
    /\ UNCHANGED <<hashVars, count, deferred, deferredIdx, result, packet>>

\* Mutant: the index of the deferred ring runs on.
NextIndex_NoWrap(i) == i + 1

NextIndex(i) == IF i = Depth - 1 THEN 0 ELSE i + 1

\* Mutant: the position that is overwritten is never given back.
Reclaimed_Never(ring) == ring

\* The position that has waited for Depth deletions is given back.
Reclaimed(ring) ==
    IF deferred[deferredIdx] = None THEN ring
    ELSE Enqueue(ring, deferred[deferredIdx])

\* rte_hash_del_key and the deferred-free ring.
DeleteUnlinks ==
    /\ api.pc = "unlink"
    /\ DelEntry(api.key, api.pos)
    /\ freeSlots' = Reclaimed(AfterDel(api.pos))
    /\ deferred' = [deferred EXCEPT ![deferredIdx] = api.pos]
    /\ deferredIdx' = NextIndex(deferredIdx)
    /\ count' = IF count > 0 THEN count - 1 ELSE count
    /\ packet' = IF packet.pc # "idle" /\ packet.deletions <= Depth
                 THEN [packet EXCEPT !.deletions = @ + 1] ELSE packet
    /\ api' = ApiIdle
    /\ result' = "ok"
    /\ UNCHANGED pool

-----------------------------------------------------------------------------
(* The packet thread: upf_session_get, then the slot is used. *)

\* rte_hash_lookup; a key that is not found drops the packet.
PacketLookup(k, p) ==
    /\ packet.pc = "idle"
    /\ p \in Hits(k)
    /\ packet' = [pc |-> "found", key |-> k, pos |-> p, deletions |-> 0]
    /\ UNCHANGED <<hashVars, tableVars, api, result>>

\* sess->active ? sess : NULL
PacketChecks ==
    /\ packet.pc = "found"
    /\ packet' = IF pool[packet.pos].active THEN [packet EXCEPT !.pc = "using"]
                 ELSE NoPacket
    /\ UNCHANGED <<hashVars, tableVars, api, result>>

PacketDone ==
    /\ packet.pc = "using"
    /\ packet' = NoPacket
    /\ UNCHANGED <<hashVars, tableVars, api, result>>

Create(k) ==
    \/ CreateFull(k) \/ CreateExists(k) \/ CreateFails(k)
    \/ \E p \in Position : CreateAdds(k, p)

Delete(k) ==
    \/ DeleteAbsent(k)
    \/ \E p \in Position : DeleteMarks(k, p)

Next ==
    \/ \E k \in Key : Create(k) \/ Delete(k)
    \/ CreateFills \/ CreateActivates \/ DeleteUnlinks
    \/ \E k \in Key, p \in Position : PacketLookup(k, p)
    \/ PacketChecks \/ PacketDone

Spec == Init /\ [][Next]_vars
-----------------------------------------------------------------------------
Free == {freeSlots[i] : i \in DOMAIN freeSlots}
Linked == {p \in Position : \E k \in Key : <<k, p>> \in bucket}
Held == {deferred[i] : i \in Index} \ {None}

\* Every position is free, or a session's, or waiting in the deferred ring,
\* and never two of these nor twice the same: no create and delete in any
\* order loses a position or gives one back twice.
PositionsConserved ==
    /\ \A i, j \in DOMAIN freeSlots : freeSlots[i] = freeSlots[j] => i = j
    /\ \A i, j \in Index : deferred[i] = deferred[j] /\ deferred[i] # None => i = j
    /\ \A k, l \in Key, p \in Position :
          <<k, p>> \in bucket /\ <<l, p>> \in bucket => k = l
    /\ Free \cap Linked = {} /\ Free \cap Held = {} /\ Linked \cap Held = {}
    /\ Free \cup Linked \cup Held = Position

\* A packet thread that holds a slot keeps the session it looked up: as long
\* as no more than Depth sessions have been deleted since, the slot has not
\* become another session's.  This is the grace the deferred ring is there for.
PacketKeepsItsSession ==
    packet.pc = "using" /\ packet.deletions <= Depth
        => pool[packet.pos].owner = packet.key

\* A create is refused for want of a position only if the sessions and the
\* positions held back fill the table: the ring costs at most Depth sessions
\* of the configured number.
RefusedOnlyWhenSpent ==
    result = "no_slot" => count + Depth >= Entries

\* To the threads that look sessions up the table is a SessionMap.
Sessions == INSTANCE SessionMap WITH
    live <- {k \in Key : \E p \in Hits(k) : pool[p].active /\ pool[p].owner = k},
    opening <- IF api.pc \in {"fill", "activate"} THEN {api.key} ELSE {},
    closing <- IF api.pc = "unlink" THEN {api.key} ELSE {}

SessionMapSpec == Sessions!Spec
=============================================================================
