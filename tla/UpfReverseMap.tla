--------------------------- MODULE UpfReverseMap ---------------------------
(***************************************************************************)
(* The reverse maps of upf_pkt_io.c: from the TEID of an uplink packet, or  *)
(* the UE address of a downlink one, to the session it belongs to.  Both    *)
(* maps are an rte_hash and an array indexed by its positions, with a ring  *)
(* of Depth deleted positions that are given back later; this module is one *)
(* of the two.  All calls run on the API thread, one at a time.            *)
(*                                                                         *)
(* The two tables are created without extra_flag, so rte_hash_del_key gives *)
(* the position back itself; the ring gives it back a second time.         *)
(***************************************************************************)
EXTENDS Naturals, Sequences

CONSTANTS Key,        \* TEIDs, or UE addresses
          Session,    \* pairs of IMSI and PDU session id
          Entries,    \* teid_map_capacity
          RingRoom, None,
          Depth       \* DEFERRED_FREE_DEPTH

VARIABLES freeSlots, bucket, store,  \* teid_hash, or ueip_hash
          entry,        \* teid_entries: the session at each position
          deferred,     \* teid_deferred
          deferredIdx,  \* teid_deferred_idx
          told          \* what the PFCP handler registered and did not unregister

\* rte_hash_parameters without RTE_HASH_EXTRA_FLAGS_RW_CONCURRENCY_LF
INSTANCE RteHash WITH FreeOnDel <- TRUE

vars == <<freeSlots, bucket, store, entry, deferred, deferredIdx, told>>

\* upf_pkt_io_init
Init ==
    /\ HashInit
    /\ entry = [p \in Position |-> None]
    /\ deferred = [i \in 0..(Depth - 1) |-> None]
    /\ deferredIdx = 0
    /\ told = [k \in Key |-> None]

\* upf_pkt_io_add_teid_map; the entry of a key that is present is overwritten.
Add(k, s, p) ==
    /\ AddPresent(k, p) \/ AddNew(k, p)
    /\ entry' = [entry EXCEPT ![p] = s]
    /\ told' = [told EXCEPT ![k] = s]
    /\ UNCHANGED <<deferred, deferredIdx>>

AddFails(k) ==
    /\ AddNoSlot(k) \/ AddNoBucket(k)
    /\ UNCHANGED <<entry, deferred, deferredIdx, told>>

\* defer_free_position, after rte_hash_del_key
Deferred(ring) ==
    IF deferred[deferredIdx] = None THEN ring
    ELSE Enqueue(ring, deferred[deferredIdx])

\* upf_pkt_io_del_teid_map
Del(k, p) ==
    /\ DelEntry(k, p)
    /\ freeSlots' = Deferred(AfterDel(p))
    /\ entry' = [entry EXCEPT ![p] = None]
    /\ deferred' = [deferred EXCEPT ![deferredIdx] = p]
    /\ deferredIdx' = (deferredIdx + 1) % Depth
    /\ told' = [told EXCEPT ![k] = None]

DelAbsent(k) ==
    /\ Hits(k) = {}
    /\ told' = [told EXCEPT ![k] = None]
    /\ UNCHANGED <<freeSlots, bucket, store, entry, deferred, deferredIdx>>

Next ==
    \E k \in Key :
        \/ \E s \in Session, p \in Position : Add(k, s, p)
        \/ AddFails(k)
        \/ \E p \in Position : Del(k, p)
        \/ DelAbsent(k)

Spec == Init /\ [][Next]_vars
-----------------------------------------------------------------------------
\* A key that was registered and not unregistered since is found, with the
\* session it was registered for: no packet of a live session is dropped as
\* unknown, or taken for another session's.
RegisteredIsFound ==
    \A k \in Key : told[k] # None => \E p \in Hits(k) : entry[p] = told[k]
=============================================================================
