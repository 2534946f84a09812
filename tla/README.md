# Formal verification of the 5G core of "Anomaly Detection in 5G NWDAF"

TLA+ models of the two parts of the repository that carry the state of a UE and of its sessions:
the timers, 5GMM and NGAP layers of the AMF, and the data plane of the UPF. TLC checks them on small
instances, TLAPS proves every safety property of the passing runs for every value of the constants.

    tlc -config TimerManager.cfg MC_TimerManager.tla     (and so on, see "Runs")
    tlapm TimerManager_proofs.tla                        (and the other *_proofs modules)

`PROJECT.json` maps every definition that models code to its source lines, lists each run with its
properties, a mutant of the code for every property, the findings, the hazards and the theorems.

## 1. The system

The repository is a 5G core in Go (`src/core`) with an NWDAF that scores subscribers, a Python
"Security Layer" that turns scores into decisions, an ML service and a closed loop around them,
and a tester (gNB and UE simulator). The Go network functions run in one process and call each
other directly. What is concurrent is: one receiving goroutine per SCTP association (gNB), one
worker goroutine per stream of it, the one goroutine of the timer manager, HTTP handlers.

| component | state it keeps | operations | modelled |
|---|---|---|---|
| `infra/timers` | map of armed timers, entries with a `cancelled` flag | Start, Cancel, CancelAllForUE, tick | `TimerManager` |
| AMF 5GMM (`nf/amf/gmm`) | FSM object per UE context in a registry, the UE context, cached NAS PDU | a handler per uplink NAS message, expiry callbacks, collision check | `GmmTable`, `Gmm` |
| AMF NGAP UE association (`nf/amf/ngap`) | FSM object per (gNB, AMF-UE-NGAP-ID) with a mutex and a session counter, `NGAPProc` of the context | Initial UE Message, Uplink NAS, ICS, PDU session setup, release, association loss | `NgapUe` |
| AMF NG Setup, SCTP FSM, handover, paging | association FSM, gNB contexts | NG Setup, reset, handover steps, paging retries | no (plan) |
| UE registry (`uectx`) | four indexes over contexts | Insert, Remove, lookups | one context's entry in `Gmm` (plan) |
| SMF sessions, PFCP | session table and FSM, N4 associations, address pool | establish, modify, release, heartbeats | no (plan) |
| UPF session table (`dataplane/src/upf_session_table.c`) | array of sessions, `rte_hash` of keys, ring of deferred positions | create, delete, get | `RteHash`, `UpfSessionTable` |
| UPF reverse maps (`upf_pkt_io.c`) | two `rte_hash` from TEID and UE address to a session, two rings | add, delete, lookup | `RteHash`, `UpfReverseMap` |
| UPF downlink (`upf_pkt_io.c`, `upf_report.c`, part of `upf_dp_api.c`) | forwarding rule, packet buffer, ring of reports | packet, flush, activate, deactivate, report, page | `UpfDownlink` |
| UPF rules (`upf_dp_api.c`, `upf_classifier.c`, `upf_qos_meter.c`) | arrays of PDRs, FARs, QERs, URRs, meters | add, update, remove, classify, police | `UpfRules` |
| UPF PFCP handlers and cgo bridge | staged establishments, key lists | N4 requests | no (plan) |
| UPF slices, DPI, SDF text, GTP-U, PMD loop | tables nobody fills; none | pure functions | no |
| NWDAF | feature windows, subscriptions | collect, analyse, notify | no (plan: subscriptions) |
| NSACF | UE and session counts per slice | admission, release | no (plan) |
| AUSF, UDM, UDR, PCF, NSSF, CHF, ... | records | request/response | answers are choices of the callers |
| MCPTT floor control, other services | floor queue and state | request, release, revoke | no (plan: floor control) |
| `libs/fsm`, `infra/resilience`, `infra/lb`, ... | event channel, breaker state | Send, Emit, Call | no (plan) |
| Security Layer | ids seen, audit files, trust records | evaluate, handle_request, update | no (plan) |
| ML service, phase3, experiments, tester | files | scripts | no: sequential, numeric |
| codecs; DPDK but for the operations of `rte_hash` and `rte_meter` the UPF calls | none | pure functions, third party | no |

How the modelled parts interact:

* A stream worker decodes an NGAP message and runs its handler. Initial UE Message and Uplink NAS
  Transport hand the NAS message to `gmm.Dispatch`, which checks collisions and runs a 5GMM handler.
* A handler changes the UE context (`AmfUeCtx`), sends, and *fires* events into the FSMs. `Fire`
  takes the FSM's mutex, looks up a row, stops and starts timers, sets the state, runs the action
  of the row, mirrors the 5GMM state into the context. A missing row is only logged.
* A timer is armed with a callback bound to the FSM object. The tick goroutine collects expired
  entries under its lock and calls them afterwards, one after the other, for the whole process.
* The FSM objects live in registries of their own; `Drop` takes an object out without stopping
  its timers, `Of` makes a new one. NAS timers carry the key "id", NGAP timers "gnb#id".
* The release of a connection is ordered by the 5GMM layer, by expiry callbacks or asked for by
  the gNB, and confirmed by the gNB; both layers clean up at the request and at the completion.

* The UPF data plane is C behind cgo. All calls of the SMF (create, delete, rules, activate) run one at
  a time on one API thread; the packet thread, one loop for both directions, reads what they write without
  any lock; the
  UPF reports to the SMF through a ring that a goroutine drains every 10 ms, and the SMF has the AMF
  page the UE. Meters, sessions and hash positions are arrays joined by an index.

What is hard here: expiries that were collected before the answer came; FSM objects that are
dropped while a timer or a goroutine still has them; three descriptions of one procedure (FSM state,
`GMMProc`/`NGAPProc`, running timer) kept in step by hand; one retransmission buffer for all
timers; messages that cross a release or a new connection; failing sends in the middle of a
handler; actions that run under a mutex; slots reused under a reader that holds no lock; a position
given back once, not twice and not never; a report that is made once only; stores of one call seen one by
one by the packet thread; what outlives the slot it belongs to. Section 7 lists the hazards with what covers them.

What makes each modelled component correct:

* timers: cancelling is final, each Start is called at most once, none is lost or put off for ever;
* 5GMM: a waiting FSM has the guard of exactly that wait, every wait ends, what is retransmitted is
  what is waited for, FSM, RM state and registry agree, rejected contexts go away;
* NGAP: timers belong to the state, every guarded release ends, parallel setups come back, nothing
  is set up on a connection being released.

* UPF session table: slots are conserved, a reader keeps its session for the grace it is promised, a
  session comes and goes once; reverse maps: a registered key is found, with its session;
* UPF downlink: a flush that meets an append loses one packet at most, none but the one in hand is sent
  to a gNB that was left, packets kept are reported and delivered;
* UPF rules: an identifier has one slot, a QoS rule its own meter, a packet the best rule.

### The share of the code this covers

The repository holds about three million lines of C, of which the UPF data plane (5,600 lines) is the
only C of the project; the rest is the vendored DPDK, mostly drivers of network cards that are not
loaded. A share of all C lines is therefore near zero whatever is modelled. Of the data plane the
definitions stand for about a quarter of the lines; of `upf_session_table.c`, `upf_classifier.c`,
`upf_qos_meter.c`, `upf_pkt_io.c` and `upf_dp_api.c` for between a third and three quarters, the rest
being parsing, encoding, queries and logging. The AMF parts are Go, which such a count leaves out.

## 2. The modules

**TimerService** is what the timer manager promises: sets of armed and of due timers; a pass moves
armed timers to due; a due timer can no longer be taken back. The manager is proved to implement it,
and the NGAP layer, whose FSM objects share the timers of a UE, is proved to use them as it allows.
`Gmm` takes its steps as they are.

**TimerManager** (`infra/timers/manager.go`). `timers` is the map, `entry` and `cancelled` the heap
objects, `retx` and `expired` the local lists of `tick`, `current` the list element whose
`cancelled` the goroutine has read without the lock. `Start`, `Cancel`, `CancelAllForUE` are one
step each (they hold the lock); a pass is `Tick` (locked) and then `PickUp`/`Skip` (the unlocked
read) and `Call` for each element, so every API call may fall between the read and the callback.
An object is reused when nothing refers to it, as the collector may. Time is relative and discrete.
The random order of the map is abstracted: the two lists are sets and every order is possible.

**GmmTable** (`gmm/fsm_transitions.go`, `gmm/fsm/event.go`, `state.go`). The rows as records:
states, event, next state, timers stopped and started, name of the action. Rows of events
nothing in the AMF fires are left out. `Match` is the lookup of `Fire`.

**Gmm** (`gmm/*.go`, `gmm/fsm/fsm.go`, the 5GMM part of `uectxrelease.go` and `initialue.go`). One
UE context. `fsm` is the object in the registry, `fstate` the state of every object, `armed` the
running timers with the object that armed them, `due` the expiries collected and not yet run,
`ue` the context. `todo` is what the running handler has still to call, so that an expiry falls
between two calls and never inside `Fire`. There is one action per message handler (guards are
the collision check, `allowedIn` and the early returns), one per helper that changes state
(`StartAuthentication`, `AbortRegistration`, `ClearVolatile`, ...), `WorkerFires`, and for the tick
goroutine `Expire` and `Deliver`. `Env` names what the environment may do, so that each property is
checked in the widest environment it holds in, and a finding is shown in the smallest one.
Abstracted: contents of NAS messages (a Registration Request is a value to compare), keys (which
procedure KAMF came from), identities (known or not), wording of causes.

**NgapUe** (`ngap/fsm`, `fsm_transitions.go`, `fsm_actions.go`, `server.go`, handlers and senders of
`initialue`, `ulnas`, `initialctxsetup`, `pdusetup`, `uectxrelease`, `sctp_transitions.go`). UEs of
one gNB, each with its worker. `fsm`, `fstate`, `pending` are the objects and their session
counters; `held` and `stage` follow the one action that does more than log, inside the mutex; `ue`
holds the connection, `NGAPProc`, and what the gNB still owes. What a handler does to `NGAPProc` after its calls
is a call of its own (`Clears`): a release request fires the FSM first, a new connection drops it first, and
both reset `NGAPProc` when that is done. `LinkDown`, `Cascade`, `LinkUp`
are the clean-up of a lost association: the workers drain, the FSMs are reset, the UEs removed.

**RteHash** (`dpdk-25.11/lib/hash/rte_cuckoo_hash.c`). What the UPF uses of `rte_hash`: bucket
entries (key, position), the key stored at a position, the ring of free positions, and the one flag that
matters, whether deleting a key gives its position back at once (`FreeOnDel`). Both tables below are
built on it, with the flag each of them really passes.

**SessionMap** is what the session table promises those who look sessions up: a session is there from
the end of its creation to the beginning of its deletion and nothing done for another one changes that.

**UpfSessionTable** (`upf_session_table.c`). `pool` are the slots, `deferred` and `deferredIdx` the
ring, `count` the counter, `api` where the API thread is in a create or delete (add to the hash, fill,
activate; mark inactive, unlink and defer), `packet` where the packet thread is (looked up, using) and
how many deletions it has seen since, a ghost that `PacketKeepsItsSession` needs.

**UpfReverseMap** (`upf_pkt_io.c`, the TEID or the address map) is `RteHash` with `FreeOnDel`, as the
tables are created without flags, and the same deferred ring beside it; `told` is what the PFCP handler
registered.

**UpfDownlink** (`process_dl_packet`, `upf_pkt_io_flush_dl_buf`, `upf_dp_update_far`,
`upf_dp_deactivate_dl`, `upf_report.c`, `report.go`, `dlnotify.go` and the SMF calls around them). One
session, and a step for every read and store another thread can tell apart. `action`, `tunnel`, `header` are
the stores of its downlink rule; `buf` is what is kept, `mem` what the pointer `dl_buf` points to (nothing, a
buffer, freed memory); `hand` is the packet of the packet thread, the step next for it and `was_empty` as read;
`call` is the next store of the SMF call that is running, `state` and `policy` (an SM policy association) are
the session's at the SMF, `reports` what is on its way there. A packet is classified (`Classify`) and
forwarded (`Forward`), or the buffer is looked at (`Look`), allocated, checked for room (`Reserve`), the packet
copied and counted (`Keep`) and reported (`Report`). An activation stores tunnel, action and header, flushes
packet by packet (`FlushOne`), frees the buffer and clears the pointer, with no lock against any of that.
Undefined behaviour is a choice: a freed buffer reads as anything, a count both threads change loses a packet
(`KeepUncounted`, `KeepOver`), a store through a pointer that is gone writes nowhere or faults (`KeepGone`,
`KeepFaults`). `fate` says what became of each packet; `lapse` remembers why nobody may have been told of
the packets kept, and each reason is in the action that adds it.

**RuleSet** is what a session's rules are to those who set them: per kind a set of rules by identifier,
one being set at a time, and no other touched.

**UpfRules** (`upf_dp_api.c`, `upf_classifier.c`, `upf_qos_meter.c`). `table` holds the slots in use of
each kind; `SlotFor` is the search `find_or_alloc_*_slot` (same identifier, next slot, first inactive);
an addition is wipe, stamp, filters one by one or meter in two stores, so that the packet thread sees every
state in between. `Classify` folds over the slots as the loop of `upf_classify` does, `Policed` is what the
two meters may answer. `meter` and `ambrMeter` are indexed by slot and survive `NewSession`. Addresses and
ports are classes of packets; a token bucket may pass or refuse; `"fault"` is the division by zero.

**MC_*** instantiate them for TLC; **\*_proofs** hold the theorems, `GmmCalls_proofs` and
`NgapUeCalls_proofs` those that need to know what a handler has still to call.

Not composed: 5GMM and NGAP are checked apart. `Gmm` has the connection as `n2` (connected,
releasing, idle), which is what its handlers read of it; `NgapUe` has the 5GMM layer as messages
that may start a setup or a release at any time (`GmmCalls`, `GmmTimeout`), more than 5GMM does. The
three models of the UPF share the session: `UpfSessionTable` knows of a slot only whose it is, `UpfDownlink`
and `UpfRules` are one session that is there (`NewSession` puts another at the same index).

## 3. Runs

| run | module, cfg | checks | states |
|---|---|---|---|
| timers | MC_TimerManager | TypeOK, CancelIsFinal, RetransmitsBeforeExpiry, ServiceSpec, TimerEnds, ExpiryDelivered | 44 k |
| gmm_orderly | MC_Gmm, GmmOrderly | WaitIsGuarded, RetransmitsOwnMessage, StateAgrees, RejectedIsRemoved, RegistrationEnds | 147 k |
| gmm_faults | MC_Gmm, GmmFaults | TypeOK, TimerMatchesState, RegisteredHasFsm | 808 k |
| ngap_orderly | MC_NgapUe, NgapOrderly | SetupPendingIsOwed, ReleaseEnds | 26 k |
| ngap_faults | MC_NgapUe, NgapFaults | TypeOK, TimersOfState, NoSetupDuringRelease, ServiceSpec | 1.2 M |
| upf_table | MC_UpfSessionTable, UpfTable | TypeOK, PositionsConserved, PacketKeepsItsSession, RefusedOnlyWhenSpent, SessionMapSpec | 51 k |
| upf_downlink | MC_UpfDownlink, UpfDownlink | TypeOK, OneLostPerFlush, StrayAtMostOne, WaitingIsReported, ReportedIsDelivered | 1.7 M |
| upf_rules | MC_UpfRules, UpfRules | TypeOK, OneSlotPerRule, MeterFollowsQer, ClassifiesBest, RuleSetSpec | 1.2 M |

Four more runs, `ngap_deadlock`, `upf_reverse`, `upf_paging`, `upf_meter`, each show one finding
(section 6) and are expected to end with a counterexample.

Properties in words:

* *CancelIsFinal*: no cancelled or replaced entry is among the expiries still to be called, although
  the flag is read without the lock. It holds because `tick` removes what it collects from the map.
* *RetransmitsBeforeExpiry*: an expiry is collected only after all retransmissions, when the tick
  goroutine is late by less than one interval in total (MaxLag * maxRetransmit <= interval). With
  more lateness it does not hold; the cfg has 1 * 2 <= 2, the largest lateness allowed.
* *TimerEnds*, *ExpiryDelivered*: an armed entry does not stay, a collected one is called.
* *ServiceSpec*: the refinement of TimerService, by the manager and by the NGAP layer.
* *TimerMatchesState*, *TimersOfState*: every running timer, also of a dropped FSM object, is one of
  the state of its object.
* *WaitIsGuarded*: between messages an FSM in a waiting state has the timer of that state running.
* *RetransmitsOwnMessage*: the one buffer holds the message the running timer guards.
* *StateAgrees*, *RegisteredHasFsm*: REGISTERED of the FSM means RM-REGISTERED, and conversely a
  UE in RM-REGISTERED has an FSM that has not forgotten it.
* *RejectedIsRemoved*: the mark a rejection leaves is honoured by the completion of the release.
* *RegistrationEnds*: a waiting state is left, whatever the UE does.
* *SetupPendingIsOwed*: RESOURCE_SETUP_PENDING means an answer of the gNB is outstanding.
* *NoSetupDuringRelease*: no context or session is set up after the release was ordered; a
  callback of 5GMM may order it at any point of a handler but two: between the check and the send of a setup, and before a handler
  has reset `NGAPProc`. There it does not hold (section 7).
* *ReleaseEnds*: a release with Twait running ends.
* *PositionsConserved*: each position is free, linked to one key or deferred, exactly once.
* *PacketKeepsItsSession*: a slot in use by the packet thread is still the session's it looked up, as
  long as no more than Depth sessions were deleted since.
* *RefusedOnlyWhenSpent*: a create fails for want of a position only if sessions and deferred positions
  fill the table. The price is in the formula: with the smallest size the API accepts (256) and a ring of
  256, a table with no session at all can refuse every create (see the hazards).
* *SessionMapSpec*, *RuleSetSpec*: the refinements of SessionMap and RuleSet.
* *OneLostPerFlush*: a packet that arrived is in hand, kept, or has met one fate; outside a flush the buffer
  is in order of arrival; and at most one packet per flush is lost to the race of append, flush and free.
  *StrayAtMostOne*: an AN release costs at most the packet in hand.
* *WaitingIsReported*: packets are kept with no report and no page outstanding only for the reasons the code
  has: kept after the flush looked, or in a buffer a flush emptied after `was_empty` was read; the report
  refused by the ring, lost on N4, ignored by the SMF, not acted on by the AMF; or about to be flushed.
  *ReportedIsDelivered*: a report outstanding on a suspended session ends with an empty buffer, unless it is
  lost, the session has no policy association or the AMF does not page.
* *OneSlotPerRule*: the two searches of a QoS rule (active only) and of its meter (any slot) meet.
  *MeterFollowsQer*: a QoS rule in force has the meter of its own rates, whoever had the index before.
  *ClassifiesBest*: the search ends at the first matching rule of least precedence.

### Bounds, and why they are enough

* Timers: two UEs with one timer each (one with a retransmission stream, one plain), three heap
  entries: both lists can be filled while the API restarts a timer with a fresh object. Durations 6 =
  2 * (2 + 1) and 1, so that the stream, its end, and expiries of both in one pass occur.
* Gmm: one UE context. Contexts share nothing but the timer goroutine, whose other work is the
  freedom of when `Expire` and `Deliver` happen, and the SUPI index (`Superseded`). Two FSM objects:
  one in the registry and one dropped with a timer or expiry left; a third could only differ by
  name. Two request contents, for "the same" and "another". `MaxAuthRetries` is 3 as in the code
  where liveness is checked, 2 in the larger run, 1 where the counter plays no part.
* NgapUe: one UE (UEs share the link, the timer goroutine and no other state; the goroutine's other
  callbacks are the freedom of its steps), two or three FSM objects, so one in the registry and up
  to two dropped ones with a running timer. `MaxSetups` 2 where sessions are counted, else 1.
* UpfSessionTable: four keys over three positions and a ring of two: the table fills, a create is refused
  for each reason, the ring wraps while a packet is in use, and the same key comes back at another
  position. The code has 256 deferred positions and any table size of at least 256; the theorems are for all.
* UpfReverseMap: the shortest history that gives a position back twice needs a ring of one.
* UpfDownlink: four packets over a buffer of two, two reports, two releases: the buffer fills, is flushed
  in every position of an append and fills again, a report is refused, and a second release meets the
  leftovers of the first. The run of the finding has one packet and one release.
* UpfRules: three identifiers for two slots of detection rules and two for one slot of QoS rules, so that
  slots are reclaimed for another identifier; one forwarding and one usage rule. Two contents of a
  detection rule with a deny filter before a permit, three of a QoS rule. Volumes saturate at `MaxVolume`.
  `NoPrec` stands for UINT32_MAX.
* Symmetry over object names, keys and sessions is used only in runs without liveness.

`CHECK_DEADLOCK FALSE` appears in the NGAP runs with `lateSetup`, where the deadlock of finding
1 really stops all goroutines of the model, and in the runs of UpfDownlink, which stop when the packets
and releases of the bound are spent; the other runs check for deadlock.

### Fairness

* TimerManager: time passes; the goroutine of `StartManager` is scheduled (`run` loops on a ticker
  until shutdown). Nothing is assumed of the callers, who may cancel and restart for ever.
* Gmm: the worker finishes the handler it is in (`WF` of its calls), the tick goroutine its pass (`WF`
  of `Deliver`). A pass happens though the worker is busy again and again: the ticker does not
  wait for the worker, but in the model the two alternate, hence `SF` of `Expire`. No fairness
  for messages: the UE and the gNB may stay silent for ever.
* NgapUe: `WF` of each worker's calls and of the tick goroutine's steps; `SF` per timer that it is
  eventually in a pass: the deadline of an armed timer passes, and any pass after it takes it.

* UpfDownlink: `WF` of the packet thread for the packet it has in hand, of the SMF for the call it is in,
  of the consumer of reports (a loop with a ticker), and of the answer to a page: the environment
  assumption that a paged UE comes back. Packets, activations and releases need not happen. The two
  liveness properties use the same fairness; one holds, one is a finding.

## 4. Proofs

Every invariant, every refinement and the action property of the passing runs is a theorem. Each proof
assumes the named assumptions of its module (types of the constants, never their size); where a theorem
needs more, it says so in its statement, and the table says what.

| theorem | what it assumes beyond the types of the constants |
|---|---|
| `TimerManager`: `StreamBeforeExpiry` | `Punctual`: the durations callers pass; lateness less than an interval in all |
| `Gmm`: `TimersFollowState`, `RegisteredIsKnown` | no `"race"` |
| `Gmm`: `RejectedRemoved`, `RegisteredAgree` | no `"race"`, `"crossing"` |
| `Gmm`: `WaitGuarded` | no `"race"`, `"crossing"`, `"collision"` |
| `Gmm`: `RetransmitsGuarded` | no `"race"`, `"crossing"`, `"collision"`, `"sendFails"` |
| `NgapUe`: `TypeCorrect`, `SetupOwed` | no `"gone"` |
| `NgapUe`: `NoSetupReleased` | no `"late"`, `"race"` |
| all others | nothing |

The words in quotes are kinds of the environment (`Env`), and what is not excluded may all happen at
once. None is excluded for the proof's sake: with any one kind of a line added to what its theorem allows,
TLC finds the property violated, and the hazards say what in the code is behind them.

### Timers

`CancelIsFinal` is not inductive alone: the invariant `Inv` adds that an armed entry carries its key and
is not cancelled (*ArmedInv*), that collected entries are in neither the map nor the list of
retransmissions (*CollectedInv*), and that collected entries have distinct keys (*KeyInv*, needed for the
refinement: a due *key* is delivered once). One lemma per operation (`StartInv`, `RemoveInv`, `TickInv`,
`WalkInv`, `ClockInv`), then `TypeCorrect`, `InvCorrect`, `CancelFinal`, and, with one refinement lemma per
operation, `RefinesService`. For `StreamBeforeExpiry` the invariant `StreamInv` says that the time an armed
entry has left covers the retransmissions still to come, less the lateness of the passes so far: each one
sent adds at most `MaxLag`, and the one that is due the time since the last pass. With
`MaxLag * maxRetransmit <= interval` the sum cannot use up the interval after the last retransmission.

### 5GMM

`Gmm_proofs` and `GmmCalls_proofs` hold for any set of FSM objects and requests and any retry bound.
`TableSound` is about the data: each row that leaves a state stops that state's timers or goes to a state
with the same one, and starts only what belongs to the next. `Base` (types of what the proof needs, and at
most one running timer of each name) is inductive: most handlers are *Plain* (they start nothing and leave
the FSM objects alone), proved once per group; firing, the reset after a lower-layer failure and the expiry
are proved apart. `TimersFollowState` needs more: expiries already *collected* must be
of the state of their object too, or a late delivery could take a row that starts a timer in the wrong
state, and nothing collected is armed again. That is inductive only while a pass of the tick goroutine does
not overlap a handler. In the code nothing keeps the two apart: the theorem says what the table and the
handlers guarantee apart from that race.

The other properties speak of the context, and need what the running handler has still to call. `todo` is at
most two calls, and each layer of `GmmCalls_proofs` adds to the one before:

1. `CallInv`, in every environment: which call may follow which, none on an idle connection, and the last
   retry of an authentication counted only by a handler about to reject. Hence `TypeCorrect`.
2. `FsmInv`: every timer and expiry is of the object in the registry, and a registered UE has an FSM that
   knows it, also within a handler. Hence `RegisteredIsKnown`.
3. `RejectInv`: a rejected UE is being released, and no expiry is left that would register it after all
   (T3550 completes a registration when it gives up); an FSM in REGISTERED goes with RM-REGISTERED.
   Hence `RejectedRemoved`, `RegisteredAgree`.
4. `GuardInv`: the FSM is where the next call expects it; a release leaves nothing to wait for but what the
   clean-up still to be called ends; while the FSM waits a timer is running or due. Hence `WaitGuarded`.
5. `RetxInv`: the cached PDU is the one of the event about to be fired or of the timer that runs.
   Hence `RetransmitsGuarded`.

The actions are not treated one by one in each layer: what a step may do to the context and to the calls
left is stated once, for every environment, and the layers use that.

### NGAP

`NgapUe_proofs` and `NgapUeCalls_proofs` hold for any number of UEs and objects. `TimersFollowState` is for
every environment: the invariant adds the shape of the variables and what `held` and `stage` say while the
action of the expired Twait-ICS runs inside `Fire`, namely that the object is still in ICS_PENDING and no
other goroutine can take a row of it. `UsesService`, for every environment too, is about the keys `gnb#id`,
which the objects of one UE share: `Once` says that at most one object has a timer of a name running and at
most one of a name is due, so that what one object starts replaces what another one left, as in the manager.

The rest needs the handlers. `HandlerInv` says what a worker has still to call, in every environment. `CountInv`
compares the two counts of sessions: what the FSM counts, with the request about to be counted, is no more
than what the gNB owes, with the answer about to be counted; and an FSM in RESOURCE_SETUP_PENDING counts at
least one. It fails only if a session goes away whose answer is then not counted (`"gone"`), hence
`TypeCorrect` and `SetupOwed`. `ReleaseInv` says that a connection under release has `NGAPProc` release and
no handler is about to reset it, and that a sender that has passed its check does not have it when it sends;
hence the action property, `NoSetupReleased`. With a callback let in between (`"race"`) neither half is
inductive, nor true of the code (section 7).

### UPF

`UpfSessionTable_proofs` is for any finite or infinite set of keys, any number of positions, a ring of free
positions at least as large, any Depth. None of the four properties is inductive. `IInv` says what the
parts owe each other: the positions in the free ring, linked in the buckets and deferred are a partition,
without repetition (so *PositionsConserved*); a linked position stores its key; the slot of a live session
carries its key; what the API thread has begun is where its `pc` says; `count` is the number of linked keys
without the one being opened (so the ring accounts for the rest: *RefusedOnlyWhenSpent*); and a position the
packet thread holds is still linked, or waits in the deferred ring at a distance from `deferredIdx` that
leaves it there for as many deletions as are missing to Depth (so *PacketKeepsItsSession*). One lemma per
action; `TableIsASessionMap` maps each action to a step of SessionMap or a stutter.

`UpfDownlink_proofs` is for any number of packets, slots, reports and releases, and whatever the threads'
steps overlap; it assumes nothing but the types of the constants. `BaseInv` has the types, what the packet thread has in
hand, what rule and buffer are at each store of an SMF call, that room once found stays, and that a packet
classified to be forwarded counts as astray once the rule buffers again (hence *StrayAtMostOne*). For
*WaitingIsReported* come `LateInv`, a rule that forwards has packets in the buffer only if they came late, and
`EmptiedInv`, a packet that did not find the buffer empty is its first only after a flush. For *OneLostPerFlush*,
`KeptInv` says where every packet is and that the order is kept, and `LostInv` that the packet a flush in
progress may still cost is not paid for yet: at most one, since a packet that arrives after the rule forwards is
not one to keep; hence `LossBounded`.

`UpfRules_proofs` is for arrays of any size, any identifiers and contents; that the maximum bit rates of a
QoS rule are rates, and a precedence a number up to UINT32_MAX, are assumptions. It proves `TypeCorrect`,
`OneSlot`, `MetersFollow`, `BestRule` and `RulesAreASet`, the refinement of RuleSet. The invariant adds what the
API thread has chosen a slot for: no other slot of the kind has the identifier, a slot in use is inactive
until it is stamped, and only the wiped slot has the identifier 0. A slot is the next one or the least of a
set; that a set of numbers has a least member (`LeastIsLeast`) comes from the well-founded order of the
finite sets `1..i`. Each action that sets a slot goes through two lemmas: `SetSlot` (what it does to the arrays)
and `SlotSet` (what it does to the set of rules). `BestRule` is about the recursive function of the search.
That a function satisfies the defining equation has to be shown before the definition says anything:
the function that gives for each number of slots the best rule among them does. Then any that satisfies it is
best after each slot (`UpTo`, induction by the least counterexample, on the same `LeastIsLeast`).

### Model-checked only

The five liveness properties (`TimerEnds`, `ExpiryDelivered`, `RegistrationEnds`, `ReleaseEnds`,
`ReportedIsDelivered`), which are out of the prover's reach. `UpfReverseMap` has no theorem: its promise is
violated (finding 2).

## 5. Faithfulness notes

* A handler's sequence of calls is the code's, including calls after a failed send and the ones that
  are missing (the migrated context that falls back to authentication fires no event).
* The expiry row a late callback finds is looked up in the state of *its* object, and its action
  works on the shared context, as `FireTimer` does.
* `Cancel` in `fsm.go` cancels by name and UE id, so an object stops timers another object armed.
* Sends fail only where the code checks the result or acts on the failure; a message that is sent and
  lost is a UE or gNB that does not answer.
* The stores of the C code are seen in program order; no fence orders them in `upf_session_table.c`, and
  on a machine that reorders stores `active` could be seen before the slot is filled. A packet is one step
  in `UpfRules` and two (classify, send) in `UpfDownlink`, where the difference matters.
* Two operations of the API thread never overlap: the bridge runs them through one dispatcher
  (`cgo_bridge_linux.go`). The flush of the buffer runs on that thread and the append on the packet thread;
  their steps interleave freely.
* A packet sent twice from a slot that append and flush both wrote counts as sent. Encoding a kept packet
  cannot fail (at most 1,600 bytes, `upf_types.h:44`, into a buffer of 64 KB, `upf_pkt_io.c:40`); `sendto` can, and the
  flush does not look (the fate "missed"). Left out: the debug line that reads the count once more
  (`upf_pkt_io.c:708`), and so a null pointer met there after the packet was counted.
* A report goes from the ring through `upfloop.runReportForwarder` and a PFCP Session Report Request to
  `PfcpBridge.handleInbound`, `consumeLoop` and `HandleDLDataNotification`; what may fail on the way is one step
  (`Consume`). Duplicates of a retransmitted request are not modelled (they ask for what is asked for already), and the N4
  requests that carry the SMF's calls succeed.
* The data races on `AmfUeCtx` fields inside a single call of a handler are not modelled; "race"
  lets passes overlap the calls of a handler.

## 6. Findings

1. `ngap_deadlock`: the expiry of Twait-ICS locks a mutex its goroutine holds, and the timer
   goroutine of the process stops (`ngap/fsm_actions.go:48`, `ngap/fsm/fsm.go:158`).
2. `upf_reverse`: the reverse maps are created without the lock-free flag their deferred ring is for, so
   positions are freed twice and one can serve two TEIDs (`upf_pkt_io.c:319` against `:81-83`).
3. `upf_paging`: a report consumed after the rule buffers but before the SMF has suspended the session is
   ignored, and none follows: the session is suspended with a packet waiting and the UE never paged
   (`dlnotify.go:99` against `upf_pkt_io.c:714-722`).
4. `upf_meter`: a rate limited in one direction only makes a packet of the other divide by zero
   (`upf_qos_meter.c:105`, `rte_meter.h:404` against `upf_qos_meter.h:54`, `upf_dp_api.h:167`).

Two that have no run of their own, and are notes of hazards. A release ordered by a timer callback between the
check of `NGAPProc` and the send of a setup is followed by the setup the check should block
(`ngap/initialctxsetup/initialctxsetup.go:99` against `:96-98`): `NoSetupDuringRelease` with "race" in `Env`. And a
flush frees the buffer while the packet thread is about to put a packet in it, which is then written to freed
memory or through a null pointer (`upf_pkt_io.c:861`, "no longer needed once FAR is FORW"): the steps `KeepGone`
and `KeepFaults`.

Five disagreements of the AMF that an earlier stage showed by runs of their own are still in the models
and are now notes of hazards: the collision check wipes cached PDU and guard before a repeated
Registration Request is recognised (`gmm/dispatch.go:384`); KAMF of an unconfirmed authentication
overwrites the operative one (`gmm/auth.go:183`); a new connection hides a procedure from the clean-up of a
later release (`ngap/initialue/initialue.go:181`); the timer of a dropped FSM releases the next connection
(`:153`); the answer for a removed session is not counted (`ngap/pdusetup/pdusetup.go:337`). `Env`
switches the first three on with `"collision"`, `"failure"` and `"crossing"`, the last with `"gone"`.

## 7. Hazards

`PROJECT.json` lists them at their lines with the properties that watch them. Two deserve a word
because the passing run excludes them by its environment: answers that cross a release set
`NGAPProc` back to none (`Env` "late"), and a release ordered by a callback while a handler is between its check
and its send, or has still to reset `NGAPProc` (`uectxrelease.go:360`, `initialue.go:181`; `Env` "race"); with either in `Env`, `NoSetupDuringRelease` does not hold. In `Gmm`, "race" does the same to
`TimerMatchesState`. Those without a property are in components not modelled yet, need the
idle state with paging, or speak of an atomicity the code does not promise.

## 8. Plan

Done: timers, 5GMM, NGAP UE association, and the UPF data plane (session table, reverse maps, downlink,
rules), with the theorems of section 4. Next, in this order:

1. *PDU sessions*: `PduSession` (5GSM FSM, establishment and release through SMF, address pool) and
   `PfcpAssociation` (N4 requests and heartbeats), with the staging, rollback and key lists of the UPF's side
   (`cgo_bridge_linux.go`); composed with `NgapUe` by a setup that is started by
   a session and a session that can be released in every state of it.
2. *Policy handler* of the Security Layer: threads in `handle_request`, failing writes, retries.
   Abstract specification: each exception id is enforced exactly once.
3. *UE registry*: contexts and the four indexes, Insert/Remove/re-key by several workers.
4. *Paging and handover*: with the idle state, T3513 and the periodic registration timer.
5. *NG Setup and the SCTP FSM*: superseded associations, loss of a gNB with several UEs.
6. *Smaller machines*: `libs/fsm` event loop, MCPTT floor control, NSACF counters, circuit breaker,
   NWDAF subscriptions; trust levels as an operator over bounded histories.

The number of runs is kept small: where a later stage needs one, the finding of a violation run whose
property another run checks moves to a hazard.

To prove next: what `UpfReverseMap` does guarantee although positions are freed twice (which keys are still
found), and, with the modules above, an abstract specification of a registration that `Gmm` implements and one
of a UE's connection that `NgapUe` implements.
