-------------------------- MODULE MC_TimerManager --------------------------
(* Two UEs: one with a guarded NAS timer (a retransmission stream), one with *)
(* a plain timer; one entry object more than there are keys.               *)
EXTENDS TimerManager

MCUeOf == [k \in Keys |-> IF k = "T3550|1" THEN "1" ELSE "2"]

MCOpt == [k \in Keys |->
    IF k = "T3550|1"
    THEN [duration |-> 6, maxRetransmit |-> 2, retransmitEvery |-> 2]
    ELSE [duration |-> 1, maxRetransmit |-> 0, retransmitEvery |-> 0]]

=============================================================================
