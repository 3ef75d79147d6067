# TLA+ models of linuxptp-daemon

linuxptp-daemon runs on every node of a cluster. It turns PTP profiles into configurations, starts
linuxptp's programs (ptp4l, phc2sys, ts2phc, synce4l) with gpsd, gpspipe and chronyd, restarts the ones
that die, reads their logs, derives from them the state of each clock, and hands these states to the
cloud-event-proxy, which notifies subscribers over HTTP. The modules here model the parts in which
goroutines, timers, channels, sockets and restarts meet. All paths below are relative to the repository.

## 1. Inventory

| Part | State | Operations | Hard because |
|---|---|---|---|
| Boundary/ordinary clock, `pkg/clock/bc.go` | sync and overall state, follower interface, clock class, holdover timer and its generation | AddEvent for offset samples, source loss, parent data set, expiry; Reset | an expiry is posted by a goroutine and may arrive after a re-lock, a cancel or a second holdover |
| OS clock, `pkg/clock/osclock.go`, `pkg/utils` | filter and window of samples, disciplining state, reported (E3) state | AddEvent, Reset, derivation from all clocks | derived from many clocks, re-derived only on some events |
| Clock manager, `pkg/clockmgr` | map of clocks, OS clock, status signal | AddClock, RemoveAllClocks, ProcessEvents | profiles are re-applied while events of the old one are under way |
| Grandmaster clock, `pkg/clock/gm.go` | data of three sources, sync state, class believed announced | AddEvent, updateState, announceClockClassIfChanged, Reset | a decision table with don't-cares, PMC requests that fail half way |
| T-BC clock, `pkg/clock/tbc.go`, detector in `ptp_process.go` | upstream ports, sync state, filters, upstream data and its token | AddEvent, updateState, fetches and announcements in goroutines | goroutines finish in any order and after a reset |
| HA clock, `pkg/clock/ha.go` | member states, active member | intercepts the members' messages | one state of the node out of many clocks |
| DPLL, `pkg/dpll` | lock status, offset, holdover and its goroutine | notifications, ticks, start and stop | three kinds of goroutine write the same fields, some without the lock |
| Log parsing, `pkg/daemon/log_parsing.go`, `ptp_process.go` | follower interface and master offset source per config | offset, summary and port-transition lines | drops events when a channel is full |
| ts2phc poll, `pkg/daemon/ts2phc.go` | stamps of a poll cycle, timeouts, roles | time stamp, offset, timeout and selection lines | stamps of two edges in one cycle |
| Process manager, `pkg/daemon/process_manager.go` | list of processes, events channel | stopAllProcesses, StartProcesses, processEvents, restart, start and stop conditions | the apply, the event loop and one goroutine per process change the same states |
| Processes, `ptp_process.go`, `gpsd.go`, `gpspipe.go`, `pmc.go`, `pkg/dpll` | process state, command, stopCh, wait group | Start, run, Stop | locks are released between reading and setting the state |
| NTP failover plugin, `addons/generic/ntpfailover.go` | failover state | reads log lines, sends plugin events | its events start and stop other processes |
| IPC cache and link, `pkg/ipc` | dedup store, outbound channel, connection | Send, Clear, Snapshot, Run/serve | messages dropped while the peer is down; snapshot and queue overlap |
| Cloud-event-proxy, `pkg/cep` | event cache, connections, subscriptions and their saved records | accept, incoming events, POST/GET/DELETE, publish, load | handlers, reader, restart and failing writes interleave |
| Leap manager, `pkg/leap` | list of leap seconds, ConfigMap, indication | indications, ticks, PMC leap flag | the flag is read and written back without a lock |
| Hardware configuration, `pkg/hardwareconfig` | resolved chains, pin and defaults caches | resolve, apply, conditions met by notifications | an update is three steps, the daemon applies between them |
| PHC first step, `addons/phcfirststep` | none between calls | measure, correct, set, verify | sign and carry of seconds and nanoseconds |
| Controllers, `pkg/controller`, `cmd/main.go` | managed configurations, update channel, timers, flags | reconcile, tick, update, restart | retries, debouncing and the daemon's loop race |
| Daemon, status, SyncE, netlink, support | profile lists, files, devices | rendering, device I/O | data transformation; only the order of applying a profile is modelled |

How they interact:

    controllers -> Daemon.applyNodePTPProfiles -> ProcessManager, ClockManager
    processes -> log lines -> eventsIn -> ProcessManager.processEvents -> events -> ClockManager
    DPLL, gpsd, ts2phc, PMC goroutines, holdover timers -> events
                                                  ClockManager -> ipc.Cache -> Link ~socket~> proxy
    proxy: incoming events -> EventCache -> PubSub -> subscribers;  HTTP handlers -> PubSub

`PROJECT.json` lists every component with what is left out of it, and under "hazards" each place where
something can go wrong that a unit test would hardly reach, with the properties that cover it.

## 2. Modules

**PTPState** holds the states of `pkg/event` and the operators that rank and combine them. **EventData** is
what a clock remembers of its sources: entries, details per interface, the sliding window. Times occur in it
only as the two comparisons the code makes: a late event, a detail gone stale.

**ClockManager** is the event loop of `pkg/clockmgr` with its boundary clocks, the OS clock, the timers, the
two channels, the log parser and the apply. A clock object is a record `bc[c]`; `AddEvent`, `sourceLost`,
`offsetSample`, `armHoldoverTimer`, `cancelHoldoverTimer`, `handleHoldoverExpired` have the names of the
methods. One action per handler: `ProcessReset`, `ProcessOSClock`, `ProcessUnregistered`,
`ProcessClockEvent` (the whole of one event: clock, messages, E3 state, status signal), `TimerFires`,
`TimerCanceled`, `TimerPosts`, the log lines, `Forward`, and the steps of the apply. A sample is its verdict
(in or out of range). History variables number objects and holdovers and are read by the bounds and properties
alone.

**GMClock** is the grandmaster clock over EventData: `GMAddEvent` is one event with the decision table
(`updateState`), the PMC requests with their answers, and what is published. Inputs are the events the senders
can build: gpsd reports an offset out of range as a lost source, `pkg/dpll` a traceable frequency never.
**HAClock** is the HA clock with its members reduced to their states, and the OS clock with its filter.

**TBCClock** is the T-BC clock with the upstream port detector of `ptp_process.go` and the bounded event channel
between them. Fetches and announcements are goroutines: sequences of requests that finish in any order and fail.
**SyncFSM** is the abstract machine its comments speak of; TBCClock implements it under
`INSTANCE SyncFSM WITH state <- tbc.state, class <- tbc.class`.

**DPLLMonitor** is one DPLL: the monitor that dials and waits, the receiver that applies notifications under the
lock, the holdover goroutines, whose tick is two steps because it does not take the lock.

**IPCLink** is `pkg/ipc` with the socket and the reading side of `pkg/cep`: dedup and drop in `Send`, the
two steps of `Clear`, `Snapshot`, `Dial`, `serve`, a write that waits, times out or meets a closed peer, the
listener's backlog, the accept loop and restarts of the proxy. A message is its key and value.

**PubSub** is `pkg/cep/pubsub.go` with its users: slots, free list, resource index, saved records, the three
steps of creating a subscription, publication (update, choice of targets, one write each), failed saves
and writes, restart with LoadFromStore one record at a time.

**ProcessManager** is `process_manager.go` with the processes. A process object is a name and the number of
the profile that created it, because events carry names only. The three implementations of
Start/run/Stop are kinds: "exec" (ptpProcess), "child" (GPSD, GpsPipe) and "session" (PMCProcess,
DpllConfig). Every lock that is released and taken again separates two actions: `ExecStart`,
`ChildStart`/`ChildRunning`, `SessionStart`, `SendUp`, `Exit`, `ReadState`, `SetState`, `SendDown`, `Finish`.
The apply is `ApplyBegin`, `stopAllProcesses` (one Stop per step, in the code's order), `StopWaited`,
`ClearProcesses`, `createProcesses`, `StartProcesses`; the loop is `Receive`, `handleProcessDown`, `Restart`,
`evalActions`, `reconcileWaiting`, `Scan`, `Decide`. Conditions are sets of alternative atoms (a process is
up, a plugin event, the clock is ready); the verdict of the clock conditions is an input. A Go panic sets
`crashed` and ends the behaviour. The plugin hooks and SyncInitialState that follow a Start change
nothing that is modelled.

**HWController** is the way from the API server or a profile file to what the daemon runs: both controller modes,
the debounce timer, failing reads and updates, requeues, the update channel and the ticker. **HardwareConfig** is
the manager an update ends in, over **PinCommands** (commands of a chain, merging, phase adjustment with its
width) and **ClockChain** (resolution against the node), which are operators on data. What an application does
is a list of steps (files to write, pins to set, a failure, a nil pointer), known when it starts because it
resolves against the stored chain and the pin cache; `run` says what a list leaves, whatever fails on the way.

**LeapManager** is `pkg/leap` with time, the API server and ptp4l's settings, which the GM clock reads and
writes back too. **TS2PHCPoll** is the poll cycle over ts2phc's log. **PHCFirstStep** is one call of the plugin
with the code's integer arithmetic.

**MCIPCLink, MCPubSub, MCProcessManager, MCTBC, MCHardwareConfig, MCHWController** give constants for TLC;
**MCComponents** puts six components that share no state side by side, one moving in each behaviour.
**ClockManagerProofs, TBCClockProofs** (T-BC clock and DPLL), **IPCLinkProofs, PubSubProofs, ProcessManagerProofs,
HardwareConfigProofs** and **ComponentProofs** (GM clock, HA clock, ts2phc poll, leap file manager and PHC first step)
hold the theorems, **SequenceLemmas** what several of them need of sequences.

## 3. Runs

| Run | Shows |
|---|---|
| holdover | An expiry of the clock object never ends a later holdover (ExpiryOfThisHoldover); every holdover ends (HoldoverEnds); the class is published in whichever order class and interface become known (ClassPublished) |
| publish | What the cache says of a clock is missing or current (PublishedSyncState, PublishedPortState); overall and E3 states are the worst of their inputs (OverallCurrent, E3Current) |
| link | The messages under way lead the proxy to the cache's state for every key that is not lost (PeerFollows), and it gets there when the clocks stop changing (Converges) |
| subscriptions | Index, slots and free list agree (IndexMatches); the saved records are the active ones (SavedIsActive); a change between Subscribe and the first notification is not missed (NotifiedOfCurrent) |
| lifecycle_bc | ptp4l with its PMC session over two profiles: a process object has one live command (OneChild); dead processes are restarted (DeadRestarted), a process that waits for another is started (WaiterStarts) |
| failover | ts2phc, gpspipe and phc2sys under plugin events that start and stop them: a Dead process has its Down on the way (DeadReported), a live one has a goroutine (LiveHasRun) |
| tbc_fsm | The T-BC clock implements SyncFSM (ImplementsFSM) while details age and offsets walk through the filters; a reported loss of the upstream port is seen (LossSeen) |
| tbc_announce | No upstream data older than the last request is announced (NoStaleUpstream); a clock that is not locked announces its own class (LocalClassAnnounced) |
| tbc_loss | Expects a violation of LossSeen with two upstream ports; section 6 |
| dpll | One goroutine at most holds over (OneHoldover), the clock was told the present state (ReportCurrent), a holdover ends (HoldoverEnds) |
| controllers | When edits end the daemon runs what the cluster and the file say (Converges, RunsOnStored), on changed keys too (AuthReapplied), and the status is written (StatusReported) |
| components | GM clock: AnnouncedIsSet, TableWithDPLL, GMPublishedCurrent. HA clock: NodeSyncState. Hardware configuration: CachedAsOrdered, InitHolds, ProfileIsolation. ts2phc: SilenceReported, MissedSinkReported. Leap seconds: UtcOffsetTrue, LeapSignalled. PHC first step: Stepped |

OneChild has one exception, and the model shows why: a ptpProcess whose command fails to start is Dead before its
goroutine reports. If the restart comes first, the old goroutine declares the new command Dead and the next
Down starts a second one (`ptp_process.go:416`). History variable `failed` marks these objects.

Bounds. Channels hold one event (two for the outbound channel), so that full channels occur; with one slot every
drop-or-block decision is taken in both ways. Two applications of a profile are the least in which events and
timers of a superseded profile meet the next; two holdovers the least in which an expiry can be stale. One
death suffices for a restart in every phase of an apply; one failed start uses the same budget. Two values and
two keys distinguish stale from current messages; a third connection would only wait in the backlog behind
the second. Three subscription ids allow a removal, a reuse of the slot and a conflict. A window of one sample
with offsets inside and outside each threshold takes every turn of the filters; the T-BC filter counts to one.
Two interfaces let a DPLL fail off the leading one. Seven moments, of which the fifth is the leap, contain each
side of the announcement window. Eight bits and 15 as the largest integer bring overflow and clamping within
reach; a measurement errs by 1 and setting takes 0 to 2, around a threshold of 1. Symmetry is used for clients where
no liveness is checked. Deadlock is not checked: with exhausted bounds every model stops, as the system does when
nothing happens.

Fairness. holdover: the event loop and the forwarder are goroutines in endless loops, timers fire and
wait for room (strongly fair, since other senders may fill the channel again and again); log lines, resets and
applies are not fair. link: the Link and the accept loop keep running, the kubelet restarts the proxy, a begun
Clear ends. lifecycle_bc: goroutines, the apply and the loop run; deaths, log lines and applies are never
forced; Receive is strongly fair because Go's select chooses among ready cases at random, so ticks do not starve
events. dpll: the goroutines run and the clock takes events; notifications are not fair. controllers: the
goroutines, the work queue and the ticker run; timers and the queue are strongly fair because another event can
disable them for a moment; edits and failures are not fair and bounded.

## 4. Proofs

All theorems hold for every value of the constants that satisfies the named assumption of the module (sets
disjoint from their null values, capacities not zero, bounds natural numbers, a non-empty profile of non-empty
groups, a faulty offset above every real one). TLC evaluates the assumptions in the runs above. Where a theorem
needs more it says so in an ASSUME of its own. The hardware configuration's assumptions say what the kernel and the
API server hand over: pins have ids of their own and a clock's pins labels of their own, the dump is finite
(DumpAssumption), and lists are slices of records with the fields the API's types have (TemplatesAssumption,
PtpDevicesAssumption, UpdatesAssumption).


- OverallIsCurrent and ClassIsPublished: one config, or no reset. A reset event empties the whole cache and the
  OS clock but only the named clock forgets (`clockmgr.go:416`, `baseclock.go:79`); with two clocks and resets
  both properties are false, and TLC shows it.
- PortStatePublished: one interface. With two, the port state of an interface the clock has left stays behind.
- LossSeenAlways: there is one upstream port; with two the property fails (tbc_loss).
- The T-BC theorems but NoStaleUpstreamAlways and LossSeenAlways: the clock has controlled ports. One without is a slave-only clock
  (isTTSC), which reports class 255 in every state and announces nothing.
- InitConditionsOfAll: the configurations of one update name different profiles. Those of one profile are applied
  one after another and may write the same pin, so an earlier one's init condition may be undone.
  InitConditionsHold needs no such hypothesis: it is about each profile that has one configuration.

**ClockManagerProofs.** TypeCorrect; Generations; HoldoverTimed; ExpiryEndsItsHoldover; SyncStatePublished;
E3IsCurrent; OverallIsCurrent; PortStatePublished; ClassIsPublished. HoldoverHasTimer alone is not inductive: that
a cancel or a re-arm leaves exactly one valid expiry needs ExpiryGenerations (no expiry of the present object is
ahead of its generation, and one with the clock's generation in HOLDOVER was armed for it). The published states
need that the store is emptied with the clocks; overall state, port state and class also need that samples and losses
under way name an interface and that resets occur only where their source runs (EventsOK), and that a clock in
LOCKED or HOLDOVER knows its interface (IFacesKnown).

**TBCClockProofs.** NoStaleUpstreamAlways; TBCInvariant; TBCImplementsFSM; LocalClassAnnouncedAlways; LossSeenAlways. The refinement
is proved step by step: each action of the clock is a step of SyncFSM, or leaves state and class alone
(Moves). What makes it inductive is that the class is determined by the state except in LOCKED (ClassOfState)
and that the leading clock's parameters carry a class the machine knows (Named). LocalClassAnnounced follows from
an invariant about the one announcement goroutine that may be on its way (PortsInv). LossSeen needs LossInv: the
clock keeps one detail for ptp4l, and the last event of the detector on its way, or with none that detail, says
FREERUN whenever the detector does (LastTold), so that resets and the events of other sources change nothing.

The DPLL, in the same module. DPLLInvariant; OneHoldoverAlways; ReportCurrentAlways. While a holdover goroutine is left the
DPLL is in holdover or is closing it; this, not the flag alone, keeps stateDecision from starting a second one
in the steps between a close and the goroutine's end.

**IPCLinkProofs.** LinkTypeOK; PeerFollowsAlways. The inductive invariant is Shape /\ Leads:

    Shape == TypeOK /\ Emptied /\ Waiting /\ LinkAlive /\ OneEach
    Leads == ~clearing => \A k \in Keys \ lost : Sole(k) => KeyOK(k)

Shape says that the store is empty between the halves of Clear, that only the oldest connection was accepted,
that the Link serves an open connection or that of a dead proxy, and that serve holds one message about a key at
most. KeyOK has three parts: the last word of the outbound queue about a key is its state (QueueSays); a key
without a state is safe on every connection, answered or not, because no snapshot will mention it (NoneLeft); a
key with a state is what proxy, socket, serve and queue lead to from the answer on (Chain). "The last word" is
the greatest index of a message about the key; lemmas for appending, taking the first and concatenation of
queues carry it through every step.

**PubSubProofs.** PubSubTyped; IndexAgrees; SubscribedOnce; SavedIsActiveAlways; NotifiedAlways. Every operation on
slots preserves "injective sequence with exactly this range"; lemmas for appending, cutting the last and
removing one element come first. The invariants hold while LoadFromStore is half done because the records still to
be loaded are distinct from the active ones. NotifiedOfCurrent is the quiet case of DeliveredOrOwed: every active
subscriber has the current event or somebody still owes it (the reader that has not chosen its targets or has it
among them, or the handler that has yet to send the first notification).

**ProcessManagerProofs.** TypeCorrect; LiveProcessHasRun; DeadProcessReported; NewProfileUntouched; OneChildAlways. The
inductive invariant is

    IInv == TypeOK /\ FreshUntouched /\ LiveHasRun /\ DeadReported

FreshUntouched says that no goroutine, event or decision of an earlier profile refers to an object that is still
to be created: without it createProcesses could bring a Dead process without a report into the list. Each
step of a goroutine is summarised by RunEffect, each Start and Stop by Touches; the invariants follow from
these summaries, so that the proof has one case per action and not one per action and kind. DeadReported
follows a Down from the goroutine to eventsIn, to the loop and to the restart. OneChild is inductive once the
goroutines counted are those from Start to the end of run (Unsettled), each of which keeps its object live.

**ComponentProofs**, GM clock. GMInvariant; AnnouncedIsSetAlways; GMPublishedCurrentAlways; TableWithDPLLAlways. The invariant

    GMInv == types /\ LockedIsClass6(gm) /\ AnnouncedIsSet /\ GMPublishedCurrent /\ Rows(gm, gmData) /\ ...

carries the data of the sources as typed sequences of details. The table is only inductive together with "a
LOCKED clock has class 6", because in its don't-care rows the class stays as it was; AnnouncedIsSet with what
ptp4l calls its time for a class that is not 6, because new settings are only sent when the class differs.

HA clock. NodeSyncStateAlways. HAInv says besides that the HA clock is LOCKED exactly when a member is, and that its
overall state is the worst of its own and the OS clock's; bestMemberState is stated over the set of the members'
states, so that no induction over the members is needed.

ts2phc poll. SilenceReportedAlways; MissedSinkReportedAlways. SilenceInv says where a run of timeouts stands: all in
one second, which is the second timeoutGroup remembers, or no sink is LOCKED. For MissedSinkReported the invariant
says what the cycle in progress proves about the watched sink while it is still LOCKED (Watched):

    ~vouched.newer => Has(cycle, watch.phc) \/ Unpolled(cycle, watch.iface)
    ~vouched.older => Has(cycle, watch.phc) /\ Unpolled(cycle, watch.iface)

with the dates of the stamps (Dated: a stamp of a PHC that has logged none of this edge is of an earlier edge, so
the next stamp of it ends the cycle) and SinksOpen (a stamp that is not handled is a sink's). It needs one
interface for each PHC, which is how the code builds phcToIface.

Leap seconds. LeapInvariant; UtcOffsetTrueAlways; LeapSignalledAlways. The list is that of the image, or that one
with the leap second at its end, dated as announced or in the past (Running); no settings on their way before the
leap hold another offset or the flag of the wrong sign. It needs that the leap seconds of the image have passed.

PHC first step. SteppedAlways. FormatValue and ReadValue show that the split of a time into seconds and
nanoseconds, negative or not, is undone by the reader, or meets the clamp and is refused.

**HardwareConfigProofs.** HWInvariant; TransitionsIsolated; CachedCommandsAsOrdered; InitConditionsHold;
InitConditionsOfAll. The invariant

    HWInv == faults \in Nat /\ pinCache \in {{}, Dump} /\ AreEnriched(configs) /\ UpdatingInv

says that every configuration stored, or resolved and about to be stored, carries the structure and condition
commands of its own resolved chain (Enriched), however many updates, dumps and writes failed; a GNSS
status written in between disturbs none of it. The three properties then are about lists of any length:

- Joined lists and maps written one over another (`laterWins`) are described once, by induction on the length:
  what joining keeps in which order (FlattenFacts), that writing a joined list is writing what each part
  writes (LaterWinsFlatten), and that lists on disjoint fields may change places (LaterWinsApart). `run` follows
  by one more induction: without a fault it writes exactly its steps one over another (RunClean), and with faults
  nothing but fields of its steps (RunWrites).
- ProfileIsolation: each command of a transition comes from GetPin under the clock of a subsystem of the
  profile's own configuration, merging keeps ids, and the dump numbers its pins.
- CachedAsOrdered: the condition with a name of its own keeps its entry in the cached map (BehaviorFacts); files
  and pin fields are disjoint, so that all files first changes nothing; a merged batch writes each field as
  the last command that carries it does (OrderedIsMerged).
- InitHolds: a clean run writes the init conditions last (ConfigStepsFacts), and each as its desired states do
  with the dump in the pin cache; with a nil cache the application fails or panics and nothing is promised.

The merged batch is sent in a Go map's order, which the model leaves open; the proofs need no order.

**SequenceLemmas** states what the provers need about appending, tails, removal of an index, ranges and functional
updates of sequences. NatSetInduction is induction over lengths, stated for a set: one that holds 0 and the
successor of each natural it holds contains Nat.

Only model-checked. Liveness under fairness is beyond the prover: both HoldoverEnds, both Converges, DeadRestarted,
WaiterStarts, RunsOnStored, AuthReapplied, StatusReported. Every invariant the passing runs check is stated by a
theorem. What the operators over structures compute beyond what these theorems need (the delay routes, the
eSync sequences, the holdover parameters) is only exercised by the runs' configurations.

## 5. Assumptions of the models

The Go runtime delivers what the language promises: mutexes exclude, channels are first-in first-out, select
picks any ready case. SIGTERM ends a command. A write to the socket either arrives, waits or fails. JSON, HTTP,
regular expressions, metrics and log texts are left out. Counters (generations, ids) are unbounded in the code
for all practical purposes and bounded by the named constants here.

## 6. Disagreements between code and comments

With a run:

- tbc_loss, `ptp_process.go:252` against `:219`: when the last upstream port is lost the detector forgets which one it
  was before it reports the loss, under the first port's name; the clock still counts the other port as locked.

Stated in the modules and refuted by TLC on the constants of the component's run (more where given), without a run
of their own:

- AnyExpiryOfThisHoldover, `pkg/clockmgr/clockmgr.go:242` against `bc.go:40`: RemoveAllClocks drops clocks without
  stopping their timers; the new clock counts generations from 0, and an old expiry ends its holdover.
- FollowerLossSeen, `pkg/daemon/log_parsing.go:120` and `:258`: a summary line of phc2sys makes itself the master offset
  source of the ptp4l config, and the next loss of the follower port is ignored.
- SourceLossTakesEffect (`log_parsing.go:271-284` against `bc.go:23`): a loss that is dropped at a full channel, or
  not recognised, leaves the clock LOCKED. Under FairSpec.
- IFaceOfOwnProfile (`daemon.go:638-640`): the offset maps are initialised before late events of the old profile.
- SignalOnTransition (`clockmgr.go:385` against `:87`): not every transition signals.
- MissedEventReceived, `pkg/ipc/cache.go:52-55`: while the proxy is down the newest states are dropped and the oldest
  kept; they overwrite the snapshot after the reconnect, and the missed event is not received.
- PriorStateInvalidated (`link.go:127` against `cache.go:75`), PerProfileState (`event_cache.go:125` against
  `docs/cloud-event-proxy/cep-v2-mermaid.md:14`), GetReturnsRequested (`pubsub.go:233` against `:227`).
- NoOrphan, `pkg/daemon/daemon.go:613-616`: the event loop restarts a process while stopAllProcesses runs, and the list
  is cleared over it.
- NoPanic (`process_manager.go:289` and `:268`; constants of PM_failover, two profiles): a Stop between the two
  reads of the state makes stateTransitionAction panic.
- StopReturns (`pmc.go:141`; constants of PM_bc, FairSpec): a restart between the Down event and wg.Done keeps the
  wait group from reaching zero, and the apply waits for a session nobody stops.
- FollowsPtpConfig (`hardwareconfig_controller.go:609-611`): in full mode a changed PtpConfig does not make the
  HardwareConfigs be reconciled.
- With two clocks and resets, ClassPublished and OverallCurrent fail (`clockmgr.go:416`, `baseclock.go:79`).
- `crashed = "pid"` (`gpsd.go:207`, `gpspipe.go:150`): Stop of a command that has not been started yet.

Met while reading, kept as the code has it in the models:

- OS clock and plugin: E3 is not re-derived when no clock reports a state (`clockmgr.go:311` against `osclock.go:120`);
  a loss while not LOCKED changes nothing (`bc.go:133` against `:131`); the failover plugin's state outlives the
  profile, so a new chronyd misses the event it waits for (`ntpfailover.go:139`).
- GM clock: the second table above updateState ("when DPLL not available") is not what happens while satellites
  are lost, when the class waits although no DPLL will ever move; class 140 needs a traceable frequency, which
  `pkg/dpll` never reports; gpsd reports an offset out of range as a lost source (`gpsd.go:467`), so the rows
  "FREERUN(offset)" (`gm.go:347-348`) cannot be met and the class waits for the DPLL instead of becoming 248.
- DPLL: a failed redial is never retried (`dpll.go:711`); a change between DumpDeviceGet and JoinGroup is lost (656);
  closing is never reset (701); of several messages in one notification only the last counts (566); a closing
  goroutine sets inSpec (971).
- Leap seconds: the flag is never cleared; GM clock and leap manager read and write ptp4l's settings without a
  common lock (`leap-file.go:264-288`, `gm.go:230`); RunPMCExpGetGMSettings may return zeros and no error
  (`pmc.go:74-88`); a restart of ptp4l loses the flag; the UTC offset is only sent with a change of class.
- ts2phc: a cycle may mix stamps of two edges (`ts2phc.go:147-193`); timeouts before the first stamp are ignored.
- Hardware configuration: a failed dump leaves a nil pin cache (`hardwareconfig.go:328`, `:1311`); conditions of one name
  overwrite each other's commands; a waiting reader ignores its deadline (`:2115`); a clamped adjustment is
  clamped after rounding; the defaults cache is never invalidated; a read-back that fails in BatchPinSet drops the
  commands after it.
- Controllers: a reconciliation the timer starts discards its Result; the security flag is consumed before a
  malformed file is parsed and waits in full mode; nothing restarts when all configurations are removed.
- PHC first step: with the default timeout 0 it waits for ever without a time transmitter.
- PMC monitor (not modelled): a parent data set is remembered before a send that may drop it (`pmc.go:331`);
  handlers in goroutines may finish out of order (`:59-62`).

## 7. Plan

1. Done: clocks, OS clock and clock manager; link and proxy; subscriptions; process manager; DPLL; hardware
   configuration and controllers; leap seconds, ts2phc, PHC first step. Proved: types and main invariants of the
   clock manager, GM clock, HA clock, T-BC clock, DPLL, link, subscriptions, process manager, ts2phc poll, leap file
   manager and PHC first step, what the hardware configuration writes, and the refinement of SyncFSM.
2. Worth adding: InitHolds for configurations of one profile that write different pins.
3. Not planned as models: the PMC expect session, netlink and ublox encodings (generated or device I/O), the intel
   addons that the hardware configuration replaces, Kubernetes status objects, metrics and configuration rendering
   (data transformation without interleaving).
