---------------------------- MODULE UpfDownlink ----------------------------
(***************************************************************************)
(* The downlink of one PDU session through the UPF: packets are forwarded   *)
(* to the gNB while there is a tunnel, and kept in a small buffer while     *)
(* there is none; the first packet kept makes the UPF report to the SMF,    *)
(* which has the AMF page the UE.                                          *)
(*                                                                         *)
(* Three threads and no lock between them: the packet loop                  *)
(* (upf_pkt_io.c), the SMF, whose calls change the forwarding action rule   *)
(* (upf_dp_api.c), and the one that carries reports to the SMF              *)
(* (upf_report.c, report.go).                                              *)
(*                                                                         *)
(* A thread is as many steps as it has reads and stores another one can     *)
(* tell apart.  What is undefined in C is a choice: a buffer that is freed  *)
(* reads as anything, a count two threads change may come out wrong, and a  *)
(* store through a pointer that is gone may go to freed memory or fault.    *)
(***************************************************************************)
EXTENDS Naturals, Sequences, FiniteSets

CONSTANTS Packets,     \* bound: packets that arrive
          Slots,       \* UPF_DL_BUF_SLOTS
          ReportRoom,  \* bound: reports of this session under way
          Releases     \* bound: AN releases

ASSUME SlotsAssumption == Slots \in Nat \ {0}
ASSUME BoundsAssumption == Packets \in Nat /\ ReportRoom \in Nat /\ Releases \in Nat

Packet == 1..Packets
NoPacket == 0

VARIABLES action,     \* of the downlink rule: forward or buffer
          tunnel,     \* the rule has the TEID and the address of a gNB
          header,     \* ohc_type says GTP-U
          buf,        \* the packets kept in dl_buf, oldest first
          mem,        \* what the pointer dl_buf points to
          hand,       \* the packet in hand, the step that is next for it, was_empty
          call,       \* the step that is next in the call of the SMF
          state,      \* of the session at the SMF
          policy,     \* the session has an SM policy association; never changes
          reports,    \* Downlink Data Reports on their way to the SMF
          paged,      \* the AMF has been told to page, the UE has not answered
          lapse,      \* ghost: why nobody may have been told of the packets kept
          arrived,    \* packets so far
          fate,       \* ghost: what became of each packet
          flushes,    \* ghost: flushes that found a packet
          released    \* AN releases so far

rule == <<action, tunnel, header>>
buffer == <<buf, mem>>
smf == <<call, state>>
paging == <<reports, paged, lapse>>
ghosts == <<flushes, released>>
vars == <<rule, buffer, hand, smf, policy, paging, arrived, fate, ghosts>>

Steps == {"none", "forward", "look", "allocate", "reserve", "count", "report", "fault"}
Calls == {"idle", "toForward", "toHeader", "toFlush", "flush", "free", "unlink",
          "toActive", "clear", "toSuspended"}
Lapses == {"late", "emptied", "refused", "undelivered", "ignored", "noPolicy", "notPaged"}

\* Packets dropped are counted as such, those missed are not; what a flush sent
\* a second time from a slot two threads wrote is sent.
Fates == {"none", "sent", "stray", "dropped", "missed", "lost"}

TypeOK ==
    /\ action \in {"forward", "buffer"} /\ tunnel \in BOOLEAN /\ header \in BOOLEAN
    /\ buf \in Seq(Packet) /\ Len(buf) <= Slots
    /\ mem \in {"none", "live", "freed"} /\ (mem # "live" => buf = <<>>)
    /\ hand \in [pkt : Packet \cup {NoPacket}, at : Steps, empty : BOOLEAN]
    /\ call \in Calls
    /\ state \in {"active", "suspended"} /\ policy \in BOOLEAN
    /\ reports \in 0..ReportRoom
    /\ paged \in BOOLEAN /\ lapse \subseteq Lapses
    /\ arrived \in 0..Packets
    /\ fate \in [Packet -> Fates]
    /\ flushes \in Nat /\ released \in 0..Releases

EmptyHand == [pkt |-> NoPacket, at |-> "none", empty |-> FALSE]

\* A session just established: the gNB has not yet given its tunnel.  The SMF
\* goes on without a policy association if the PCF refused it.
Init ==
    /\ action = "buffer" /\ tunnel = FALSE /\ header = FALSE
    /\ buf = <<>> /\ mem = "none" /\ hand = EmptyHand
    /\ call = "idle" /\ state = "active" /\ policy \in BOOLEAN
    /\ reports = 0 /\ paged = FALSE /\ lapse = {}
    /\ arrived = 0 /\ fate = [p \in Packet |-> "none"]
    /\ flushes = 0 /\ released = 0

-----------------------------------------------------------------------------
(* The packet thread: process_dl_packet *)

\* The session is found and the packet classified.
Classify ==
    /\ hand.at = "none"
    /\ arrived < Packets
    /\ arrived' = arrived + 1
    /\ hand' = [pkt |-> arrived + 1, empty |-> FALSE,
                at |-> IF action = "forward" THEN "forward" ELSE "look"]
    /\ UNCHANGED <<rule, buffer, smf, paging, fate, ghosts>>

HandOnly == UNCHANGED <<rule, smf, paged, arrived, ghosts>>
Advances(at) == hand' = [hand EXCEPT !.at = at]
Becomes(f) == fate' = [fate EXCEPT ![hand.pkt] = f]

\* Sent to whatever tunnel the rule has now.  Without the type of the header
\* nothing is done, and nothing counted.
Forward ==
    /\ hand.at = "forward"
    /\ Becomes(IF ~header THEN "missed" ELSE IF tunnel THEN "sent" ELSE "stray")
    /\ hand' = EmptyHand
    /\ HandOnly /\ UNCHANGED <<buffer, reports, lapse>>

\* sendto fails.
SendFails ==
    /\ hand.at = "forward" /\ header
    /\ Becomes("dropped")
    /\ hand' = EmptyHand
    /\ HandOnly /\ UNCHANGED <<buffer, reports, lapse>>

\* Mutant: the count is looked at as it will be with the packet.
WasEmpty_Late == Len(buf) = 1

WasEmpty == buf = <<>>

Look ==
    /\ hand.at = "look"
    /\ \E e \in IF mem = "freed" THEN BOOLEAN ELSE {WasEmpty} :
          /\ hand' = [hand EXCEPT !.at = "allocate", !.empty = e]
          /\ lapse' = lapse \cup (IF mem = "freed" /\ ~e THEN {"emptied"} ELSE {})
    /\ HandOnly /\ UNCHANGED <<buffer, fate, reports>>

Allocate ==
    /\ hand.at = "allocate"
    /\ mem' = IF mem = "none" THEN "live" ELSE mem
    /\ Advances("reserve")
    /\ HandOnly /\ UNCHANGED <<buf, fate, reports, lapse>>

\* Mutant: a packet is kept whether there is room or not.
Room_Unchecked == TRUE

Room == Len(buf) < Slots

\* The pointer may be the one read before, whatever has become of it.
Reserve ==
    /\ hand.at = "reserve"
    /\ mem = "live" => Room
    /\ Advances("count")
    /\ HandOnly /\ UNCHANGED <<buffer, fate, reports, lapse>>

\* No memory for a buffer, no room in it, or no buffer any more.
KeepFails ==
    /\ \/ hand.at = "allocate" /\ mem = "none"
       \/ hand.at = "reserve" /\ (mem = "live" => ~Room)
    /\ Becomes("dropped")
    /\ hand' = EmptyHand
    /\ HandOnly /\ UNCHANGED <<buffer, reports, lapse>>

\* What was_empty was read as decides on a report.
Leaves == hand' = IF hand.empty THEN [EmptyHand EXCEPT !.at = "report"] ELSE EmptyHand

\* The packet is copied and counted.  The first in a buffer starts a new account
\* of why nobody may have been told.
Keep ==
    /\ hand.at = "count" /\ mem = "live"
    /\ buf' = Append(buf, hand.pkt)
    /\ lapse' = {why \in lapse : buf # <<>> \/ (why = "emptied" /\ ~hand.empty)}
                 \cup (IF action = "forward" THEN {"late"} ELSE {})
    /\ Leaves
    /\ HandOnly /\ UNCHANGED <<mem, fate, reports>>

\* ... while the flush changes head and count: its own count is lost, ...
KeepUncounted ==
    /\ hand.at = "count" /\ call = "flush"
    /\ Becomes("lost")
    /\ Leaves
    /\ HandOnly /\ UNCHANGED <<buffer, reports, lapse>>

\* ... or it is copied over a packet that waits.
KeepOver ==
    /\ hand.at = "count" /\ call = "flush"
    /\ \E i \in DOMAIN buf :
          /\ buf' = [buf EXCEPT ![i] = hand.pkt]
          /\ fate' = [fate EXCEPT ![buf[i]] = "lost"]
    /\ Leaves
    /\ HandOnly /\ UNCHANGED <<mem, reports, lapse>>

\* It is copied into memory that is freed, ...
KeepGone ==
    /\ hand.at = "count" /\ mem # "live"
    /\ Becomes("lost")
    /\ Leaves
    /\ HandOnly /\ UNCHANGED <<buffer, reports, lapse>>

\* ... or through the null pointer, and all threads stop.
KeepFaults ==
    /\ hand.at = "count" /\ mem = "none"
    /\ Advances("fault")
    /\ HandOnly /\ UNCHANGED <<buffer, fate, reports, lapse>>

\* To tell nobody matters if a packet is kept.
Because(why) == lapse' = IF buf = <<>> THEN lapse ELSE lapse \cup {why}

\* upf_report_enqueue: the ring all sessions share may be full, and nothing
\* tries again.
Report ==
    /\ hand.at = "report"
    /\ \/ reports < ReportRoom /\ reports' = reports + 1 /\ UNCHANGED lapse
       \/ Because("refused") /\ UNCHANGED reports
    /\ hand' = EmptyHand
    /\ HandOnly /\ UNCHANGED <<buffer, fate>>

-----------------------------------------------------------------------------
(* The SMF: ActivateUserPlane and upf_dp_update_far *)

\* The tunnel is stored first.  A rule that does not buffer keeps its action.
InstallTunnel ==
    /\ tunnel' = TRUE
    /\ call' = IF action = "buffer" THEN "toForward" ELSE "toActive"
    /\ paged' = FALSE
    /\ UNCHANGED <<action, header, buffer, hand, state, reports, lapse, arrived, fate, ghosts>>

\* The gNB answers a resource setup: the UE was reached by other means, or
\* comes of its own accord.
Activate == call = "idle" /\ ~paged /\ InstallTunnel

\* ... or the UE answers the page.
PageAnswered == call = "idle" /\ paged /\ InstallTunnel

SetForward ==
    /\ call = "toForward"
    /\ action' = "forward" /\ call' = "toHeader"
    /\ UNCHANGED <<tunnel, header, buffer, hand, state, paging, arrived, fate, ghosts>>

SetHeader ==
    /\ call = "toHeader"
    /\ header' = TRUE /\ call' = "toFlush"
    /\ UNCHANGED <<action, tunnel, buffer, hand, state, paging, arrived, fate, ghosts>>

\* Mutant: the buffer is left for the next packet to find.
StartFlush_Never ==
    /\ call = "toFlush"
    /\ call' = "toActive"
    /\ UNCHANGED <<rule, buffer, hand, state, paging, arrived, fate, ghosts>>

\* An empty buffer is not flushed, and not freed.
StartFlush ==
    /\ call = "toFlush"
    /\ IF buf = <<>> THEN call' = "toActive" /\ UNCHANGED flushes
                     ELSE call' = "flush" /\ flushes' = flushes + 1
    /\ UNCHANGED <<rule, buffer, hand, state, paging, arrived, fate, released>>

\* One turn of the loop of upf_pkt_io_flush_dl_buf, whatever sendto answers.
FlushOne ==
    /\ call = "flush" /\ buf # <<>>
    /\ \E f \in {"sent", "missed"} : fate' = [fate EXCEPT ![Head(buf)] = f]
    /\ buf' = Tail(buf)
    /\ UNCHANGED <<rule, mem, hand, smf, paging, arrived, ghosts>>

\* Mutant: off by one.
Flushed_Early == Len(buf) <= 1

Flushed == buf = <<>>

FlushEnds ==
    /\ call = "flush" /\ Flushed
    /\ call' = "free"
    /\ UNCHANGED <<rule, buffer, hand, state, paging, arrived, fate, ghosts>>

Kept == {buf[i] : i \in DOMAIN buf}

\* A packet in hand, found not to be the first.
FoundMore == hand.at \in {"allocate", "reserve", "count"} /\ ~hand.empty

\* The buffer is freed with what has been put in it since.
FreeBuffer ==
    /\ call = "free"
    /\ fate' = [p \in Packet |-> IF p \in Kept THEN "lost" ELSE fate[p]]
    /\ buf' = <<>> /\ mem' = "freed"
    /\ lapse' = IF FoundMore THEN {"emptied"} ELSE {}
    /\ call' = "unlink"
    /\ UNCHANGED <<rule, hand, state, reports, paged, arrived, ghosts>>

Unlink ==
    /\ call = "unlink"
    /\ mem' = "none" /\ call' = "toActive"
    /\ UNCHANGED <<rule, buf, hand, state, paging, arrived, fate, ghosts>>

SetActive ==
    /\ call = "toActive"
    /\ state' = "active" /\ call' = "idle"
    /\ UNCHANGED <<rule, buffer, hand, paging, arrived, fate, ghosts>>

-----------------------------------------------------------------------------
(* The SMF: DeactivateUserPlane and upf_dp_deactivate_dl *)

\* Mutant: the action is left to the next call.
Deactivate_KeepsAction ==
    /\ call = "idle" /\ state # "suspended" /\ released < Releases
    /\ released' = released + 1
    /\ call' = IF action = "buffer" THEN "toSuspended" ELSE "clear"
    /\ UNCHANGED <<rule, buffer, hand, state, paging, arrived, fate, flushes>>

\* A session that is suspended is left out of an AN release; a rule that
\* buffers already is not touched.
Deactivate ==
    /\ call = "idle" /\ state # "suspended" /\ released < Releases
    /\ released' = released + 1
    /\ action' = "buffer"
    /\ call' = IF action = "buffer" THEN "toSuspended" ELSE "clear"
    /\ UNCHANGED <<tunnel, header, buffer, hand, state, paging, arrived, fate, flushes>>

ClearTunnel ==
    /\ call = "clear"
    /\ tunnel' = FALSE
    /\ call' = "toSuspended"
    /\ UNCHANGED <<action, header, buffer, hand, state, paging, arrived, fate, ghosts>>

SetSuspended ==
    /\ call = "toSuspended"
    /\ state' = "suspended" /\ call' = "idle"
    /\ UNCHANGED <<rule, buffer, hand, paging, arrived, fate, ghosts>>

-----------------------------------------------------------------------------
(* The reports on their way, and HandleDLDataNotification *)

\* A report may be lost on N4.  The SMF ignores one on a session that is not
\* suspended or has no policy association; the AMF does not page a UE it does
\* not know, or has a connection with.
Failures ==
    {"undelivered"} \cup IF state # "suspended" THEN {"ignored"}
                         ELSE IF policy THEN {"notPaged"} ELSE {"noPolicy"}

Consume ==
    /\ reports > 0
    /\ reports' = reports - 1
    /\ \/ state = "suspended" /\ policy /\ paged' = TRUE /\ UNCHANGED lapse
       \/ (\E why \in Failures : Because(why)) /\ UNCHANGED paged
    /\ UNCHANGED <<rule, buffer, hand, smf, arrived, fate, ghosts>>

-----------------------------------------------------------------------------
Running == hand.at # "fault" /\ UNCHANGED policy

PacketThread ==
    Running /\ \/ Forward \/ SendFails \/ Look \/ Allocate \/ Reserve \/ KeepFails
               \/ Keep \/ KeepUncounted \/ KeepOver \/ KeepGone \/ KeepFaults
               \/ Report

CallSteps ==
    Running /\ \/ SetForward \/ SetHeader \/ StartFlush \/ FlushOne \/ FlushEnds
               \/ FreeBuffer \/ Unlink \/ SetActive
               \/ ClearTunnel \/ SetSuspended

Next ==
    \/ PacketThread \/ CallSteps
    \/ Running /\ (Classify \/ Activate \/ PageAnswered \/ Deactivate \/ Consume)

Spec == Init /\ [][Next]_vars

\* The packet loop and the calls of the SMF go on, the consumer wakes every
\* 10 ms, and a UE that is paged answers.  Nothing else has to happen.
FairSpec ==
    /\ Spec
    /\ WF_vars(PacketThread) /\ WF_vars(CallSteps)
    /\ WF_vars(Running /\ Consume) /\ WF_vars(Running /\ PageAnswered)
-----------------------------------------------------------------------------
InHand == {hand.pkt} \ {NoPacket}
Fallen(f) == {p \in Packet : fate[p] = f}

\* A packet that has arrived is in hand, kept, or has met one fate; outside a
\* flush the buffer keeps the order of arrival; and a flush that meets an
\* append, which no lock keeps apart, loses one packet at most: of all the
\* packets in hand since the rule forwards only one can still be one to keep.
OneLostPerFlush ==
    /\ \A p \in 1..arrived : fate[p] = "none" <=> p \in InHand \cup Kept
    /\ InHand \cap Kept = {}
    /\ call # "flush" => \A i, j \in DOMAIN buf : i < j => buf[i] < buf[j]
    /\ Cardinality(Fallen("lost")) <= flushes

\* An AN release costs at most the one packet the packet thread had classified
\* before it: the UPF starts "buffering DL packets instead of forwarding to a
\* stale gNB TEID", and the TEID and address 0 it stores reach no second packet.
StrayAtMostOne == Cardinality(Fallen("stray")) <= released

\* Packets wait with nobody told of them only for a reason the code has: they
\* were kept after the flush looked for them, or in a buffer that a flush had
\* emptied since the packet thread looked; or their report was refused by the
\* ring, lost on N4, ignored as the session was not suspended or had no policy
\* association, or not acted on by the AMF; or they are about to be flushed.
WaitingIsReported ==
    buf # <<>> /\ reports = 0 /\ ~paged /\ hand.at # "report"
        => \/ lapse # {}
           \/ call \in {"toForward", "toHeader", "toFlush", "flush", "free"}

\* A report that is on its way once the session is suspended brings the UE back,
\* and what has been kept is sent; unless it is lost, the session has no policy
\* association or the AMF does not page.
ReportedIsDelivered ==
    (state = "suspended" /\ call = "idle" /\ reports > 0 /\ buf # <<>>)
        ~> (buf = <<>> \/ lapse \cap {"undelivered", "noPolicy", "notPaged"} # {})

\* What the comments say of the report: the first packet kept leads to paging,
\* so packets kept while the rule buffers and the session is suspended are
\* delivered in the end, here of a session that has been forwarded once and has
\* a policy association.  Left out are the reports that are refused, lost, or
\* of packets a flush has met; that the SMF ignores one is not.
KeptIsDelivered ==
    (state = "suspended" /\ policy /\ header /\ action = "buffer" /\ buf # <<>>)
        ~> (buf = <<>> \/ lapse \ {"ignored"} # {})
=============================================================================
