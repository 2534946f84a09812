------------------------------ MODULE RteHash ------------------------------
(***************************************************************************)
(* DPDK's rte_hash as the data plane of the UPF uses it: a table of keys    *)
(* that hands out positions, which the caller uses as indexes of arrays of  *)
(* its own.  A key is found through a bucket entry, which names a position, *)
(* and the copy of the key stored at that position: both must agree.        *)
(*                                                                         *)
(* Positions that are not in use wait in a ring, in the order in which they *)
(* were given back.  Whether deleting a key gives its position back at once *)
(* depends on the flags of the table (FreeOnDel): with lock-free readers    *)
(* (RW_CONCURRENCY_LF) the caller has to do it later, by                    *)
(* rte_hash_free_key_with_position; without, the table does it itself.      *)
(*                                                                         *)
(* Abstracted: signatures and the two buckets of a key (an entry is a pair  *)
(* of key and position); the dummy slot 0; extension buckets, RCU and       *)
(* per-core caches, which the UPF does not ask for.                         *)
(***************************************************************************)
EXTENDS Naturals, Sequences

CONSTANTS Key,         \* session keys, TEIDs or UE addresses
          Entries,     \* rte_hash_parameters.entries
          RingRoom,    \* positions the ring of free positions has room for
          FreeOnDel,   \* not no_free_on_del
          None         \* no key, no position

ASSUME EntriesAssumption == Entries \in Nat \ {0}
ASSUME RoomAssumption == RingRoom \in Nat /\ RingRoom >= Entries
ASSUME NoneAssumption == None \notin Key /\ None \notin Nat

VARIABLES freeSlots,   \* the ring of free positions
          bucket,      \* the bucket entries: pairs of a key and a position
          store        \* the key stored at each position

hashVars == <<freeSlots, bucket, store>>

Position == 1..Entries

HashTypeOK ==
    /\ freeSlots \in Seq(Position)
    /\ bucket \subseteq Key \X Position
    /\ store \in [Position -> Key \cup {None}]

\* rte_hash_create: every position is queued, in order.
HashInit ==
    /\ freeSlots = [p \in Position |-> p]
    /\ bucket = {}
    /\ store = [p \in Position |-> None]

\* The positions at which a lookup of k can succeed.
Hits(k) == {p \in Position : <<k, p>> \in bucket /\ store[p] = k}

\* free_slot: the position goes to the end of the ring; a full ring loses it.
Enqueue(ring, p) == IF Len(ring) < RingRoom THEN Append(ring, p) ELSE ring

\* rte_hash_add_key of a key that is present: its position is returned again.
AddPresent(k, p) ==
    /\ p \in Hits(k)
    /\ UNCHANGED <<freeSlots, bucket, store>>

\* ... of a new key: it takes the position that has been free for longest.
AddNew(k, p) ==
    /\ Hits(k) = {}
    /\ freeSlots # <<>>
    /\ p = Head(freeSlots)
    /\ freeSlots' = Tail(freeSlots)
    /\ bucket' = bucket \cup {<<k, p>>}
    /\ store' = [store EXCEPT ![p] = k]

\* ... when no position is free (-ENOSPC).
AddNoSlot(k) ==
    /\ Hits(k) = {}
    /\ freeSlots = <<>>
    /\ UNCHANGED <<freeSlots, bucket, store>>

\* ... when no entry of its two buckets can be vacated (-ENOSPC): the key has
\* been copied to the position, which goes to the end of the ring.
AddNoBucket(k) ==
    /\ Hits(k) = {}
    /\ freeSlots # <<>>
    /\ freeSlots' = Enqueue(Tail(freeSlots), Head(freeSlots))
    /\ store' = [store EXCEPT ![Head(freeSlots)] = k]
    /\ UNCHANGED bucket

\* Mutant: the flag of the table is not looked at.
AfterDel_AtOnce(p) == Enqueue(freeSlots, p)

\* The ring once rte_hash_del_key has removed the bucket entry of p.
AfterDel(p) == IF FreeOnDel THEN Enqueue(freeSlots, p) ELSE freeSlots

\* The bucket entry of k at p is removed; the key stays where it is stored.
DelEntry(k, p) ==
    /\ p \in Hits(k)
    /\ bucket' = bucket \ {<<k, p>>}
    /\ UNCHANGED store
=============================================================================
