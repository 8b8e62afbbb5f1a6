# A TLA+ model of plane-watcher

plane-watcher is an ADS-B receiver: an FPGA design (`hdl/rtl`) that detects and
decodes Mode-S messages, and user space in Go (`ps`) that reads them over AXI
registers and serves them as a Beast or Radarcape stream. This directory holds
TLA+ modules of its core, TLC configurations that check them, and TLAPS proofs.

- [The system](#the-system)
- [Modules](#modules)
- [Runs](#runs)
- [Fairness](#fairness)
- [Proofs](#proofs)
- [Where code and documents differ](#where-code-and-documents-differ)
- [What is not modelled](#what-is-not-modelled)
- [What could come next](#what-could-come-next)

## The system

```
 ADC -> sample FIFO -> preamble detector -> 8 decoders (bit flipper, CRC)
     -> aggregator -> async message FIFO ==AXI registers==> plane-feeder
 PPS -> timestamp counter ----------------AXI registers==> pps.Watcher <- chronyc
 plane-feeder: poll loop -> ICAO filter -> reorder buffer -> emit
     emit -> Radarcape state machine -> Beast server -> TCP clients
     emit -> tracker channel -> tracker -> web dashboard
 gpsd <-> gps.Client <- UBX exchange <- gpsmon.Collector -> web dashboard
                                     <- cmd/ubx (settings, survey-in, status)
 cmd/watch-stats <-> web handlers <-> CONFIG, debug counters
```

| component | state | operations | what is hard | what makes it correct |
|---|---|---|---|---|
| Message aggregator `hdl/rtl/message_aggregator.vhd` | a slot per decoder, round-robin index, packet count and timer | capture, output and clear, padding | a slot is cleared a cycle after it is read, while its decoder goes on | each message output once, within N cycles; none lost if decoders are slow enough |
| Message FIFO `async_msg_fifo.vhd` | memory, pointers, synchronisers, flags | write, read, reset | two unrelated clocks, metastable captures | it is a queue; its flags and count are conservative; overflows are reported |
| Timestamp counter `timestamp_counter.vhd` | counter, PPS latch, PPS count | count, edge | wraps, spurious and missing edges | the latch and the count belong together |
| AXI registers `axi_regs.vhd`, `internal/regs` | two handshakes, debug select and data, control, config, the FIFO's read side | read (RPL pops), write, ReadMessage, ReadPpsStable, ReadDbg, setters, soft reset | several users without a lock; several accesses for one value; a value that changes between them | a message is read whole and once; the parts of a value are of one moment |
| Detector, decoders, bit flipper `preamble_detector.vhd`, ... | busy flags, hold-off, search state | detect, allocate, flip, check | allocation under load | a detection goes to a free decoder or is counted |
| PPS watcher `internal/pps`, `internal/chrony` | last sample, reference, statistics; cached chrony answer | tick: check chrony, read, update, publish | the clock of the tick, of chronyc and of the edge are three | a synced reference is rightly labelled, and lost in time |
| Feeder loop `cmd/plane-feeder`, `internal/icao` | filter, reorder buffer, times of last read and stats | stats tick, drain a burst, flush when quiet | timing of flush against late messages | all accounted for, in order |
| Reorder buffer `internal/reorder` | heap, newest TOA | Push, FlushAll | late, equal, overflowing TOAs; flush between pushes | sorted but for what had to leave early |
| Radarcape state machine `cmd/plane-feeder`, `internal/beast` | mode, last good reference | update, control frames, welcome frames | mode changes against clients that join or lag | every client can decode what it gets |
| Beast server `internal/server` | client map, channel per client, welcome frames | accept, AddConn, Broadcast, writer, Stop | goroutines under one mutex, stuck peers, shutdown | no panic, no forgotten client, order kept, nobody blocks the rest |
| gpsd client `internal/gps/client.go` | connection, reader goroutine, device list, a channel per subscription, first transport error | dial, dispatch, subscribe, close | a reader that dies while others wait on it; a full channel | every wait ends; the cause of a loss is kept |
| UBX exchange `client.go`, `tmode.go`, `nav5.go`, `tp5.go`, `cfgcfg.go`, ... | the request on the wire, the answers in the channel | poll, write with acknowledgement, write and verify, save | answers that are late, lost, refusals, or meant for another program | what is reported done is in force |
| ubx commands `cmd/ubx`, `surveyin.go` | the steps left, the cached time mode, rollback armed | each command; survey-in: cache, configure, poll, roll back | a signal, a deadline, a refusal or a lost gpsd between two steps | no rollback owed at exit; exit code 0 means done |
| GPS monitor `internal/gpsmon`, `ubx status`, GPS pages | a snapshot being built, the published one, the history | probe, cycle of polls, overlay, publish, serve | partial failure; values of different polls in one snapshot | nothing stale is shown as current; what is missing is named; it recovers |
| Tuning console `cmd/watch-stats`, statistics and tuning handlers of `internal/web` | last and previous answer, rates, requests in progress; CONFIG | tick, key, clear, answer; read-modify-write of CONFIG | answers late, lost and overlapping; a restarted feeder | no rate that never was; the screen catches up |
| Tracker, diagnostics | aircraft map, ring of rejects | process, expire, snapshot | two lock sections, reads without a lock | no update of a deleted aircraft |
| Build runner and lock | plan, events | run, cancel | a full event channel, a second run | one run at a time, every step ends in an event |
| Other tools, scripts, wrappers | - | - | they share the registers with the feeder | - |

`PROJECT.json` lists every component with its files, and under `hazards`, at its
line, what is hard to test in it; the properties are aimed at those.

## Modules

Definitions keep the names of the code. `PROJECT.json` maps each to its lines.
Variables and definitions that a comment calls *history* are not in the code:
they record what a property needs. Definitions that a comment calls a *mutant*
are plausible mistakes, used by nothing; putting one in the place of the
definition it follows makes a property fail, which shows that the property
looks at that code.

| module | models |
|---|---|
| `ReorderBuffer` | `reorder.go`. The heap is a set from which an entry of least TOA is taken. A call is a start action and one step per loop iteration. |
| `ClientFeed` | what the server promises its clients: welcome first, broadcasts in order, skipped only when the queue is full. Abstract. |
| `BeastServer` | `server.go`, one process per goroutine. What runs under `s.mu` is one action; the taking of a frame and the return of the write are two. |
| `RadarcapeFeed` | the Radarcape part of `emit` and the encoders it calls, on top of `BeastServer`. A frame is its kind, the mode its timestamp is in and the mode it announces. |
| `WatcherState` | `watcherState.update`, with the widths of both hardware counters as moduli. |
| `PpsWatcher` | `Watcher.run` in real time, with the PPS edges, the ticker and chronyc as its environment. |
| `WatcherStats` | `watcherState` under any sequence of samples, for the statistics and the wraps. |
| `MessageQueue` | what the message FIFO promises: a bounded queue. Abstract. |
| `AsyncFifo` | `async_msg_fifo.vhd`. A step is an edge of one clock or of both; a bit that changes while it is sampled is caught before or after. |
| `FeederLoop` | the poll loop of `main.go` with `icao/filter.go`, on top of `ReorderBuffer`. |
| `MessageAggregator` | `message_aggregator.vhd`. A step is a clock edge of both processes. |
| `AxiRegs` | `axi_regs.vhd` clock by clock, under the accesses that `regs.go` makes: `ReadMessage`, `ReadPpsStable`, `ReadDbg`, and the soft reset of `regdump`. |
| `GpsdClient` | `client.go`: the reader goroutine, the channels whose closing wakes waiters, one subscription. |
| `UbxExchange` | the requests on top of it: `WaitFor`, `SendAndAwaitACK`, `SendAndAwaitResponse`, `WriteAndVerify`, and the receiver behind gpsd, whose answers come late or not at all, or answer another program. |
| `UbxCommands` | `cmd/ubx`: every command as the list of its steps; `SurveyIn` with its rollback; signals and deadlines. |
| `GpsMonitor` | `gpsmon.go`: the probe, the cycle with its error paths, overlay, publication, history; the GPS pages of `web.go`; `ubx status`, which polls in the same way. |
| `StatsConsole` | `watch-stats` against the handlers for statistics and tuning, each request a process; the read-modify-write of CONFIG; the restart of the feeder. |
| `*_proofs` | theorems about the module of that name; `MessagePath_proofs` is about `MessageAggregator` and `AsyncFifo`, one behind the other in `adsb_top`. |
| `MC*` | small values for TLC. |

Composition: `RadarcapeFeed` EXTENDS `BeastServer` and drives its `Broadcast` and
`SetWelcome`; `FeederLoop` EXTENDS `ReorderBuffer` and drives `Push` and
`FlushAll`; `PpsWatcher` and `WatcherStats` EXTEND `WatcherState`; `UbxExchange`
EXTENDS `GpsdClient`, and `UbxCommands` and `GpsMonitor` each EXTEND
`UbxExchange` with the program that uses it. `BeastServer` implements
`ClientFeed`, `AsyncFifo` implements `MessageQueue`, both by a refinement
mapping; `AxiRegs` and `FeederLoop` take of the message FIFO what is shown there.

Abstractions worth knowing:

- A Radarcape frame may be due periodically at any message: wall time is left
  out of `RadarcapeFeed`. The clock reference of a message is any of nil,
  unsynced and synced. Position frames are switched off in the code
  (`main.go:445`).
- `FeederLoop` takes a time unit for a sleep and at most one to read a message
  or to flush. `Skew` says how late a message may reach the FIFO after its TOA;
  `StreamSorted` needs the window to be no shorter, which is what the flag is for.
- `PpsWatcher` counts time in quarter seconds and lets it pass while the
  goroutine waits for a tick or for chronyc; the rest of an iteration is
  microseconds. Registers are read atomically (`ReadPpsStable`).
- `AsyncFifo` starts its two sides out of reset together, as `combined_reset`
  does. The clocks bear no relation to each other; only `OverflowsReported` asks
  that an edge of the read clock alone come between two of the write clock.
- In `AxiRegs` a step is an edge of the AXI clock or something a core does. A user
  has one access at a time, since the registers are mapped as device memory, and
  the bus one read and one write. `MSG_DATA` stands for its four words and `TOA`
  for its two. The latched counter of a PPS edge is the number of the edge; a read
  in the cycle of an edge may give its old value, its new value or a mix of the
  two, as nothing synchronises these registers.
- A UBX payload is its meaning: which time mode, whose position, the values asked
  for or others. Layout, checksums and scaling are left to the unit tests. An
  answer that is too short is as short as its reader finds it (`Lengths`): a TMODE
  may be cut before its mode, before its position, or after it, and the code reads
  what is there. A position is in ECEF, or was set in degrees by a tool other than
  these programs ("LLH"), which the code takes for ECEF all the same. A
  request's answer, acknowledgement or refusal, or silence, is the receiver's
  choice within the budget of faults; an earlier command may have left requests
  in the queue, and another program on the same gpsd may poll.
- In `StatsConsole` the handlers' accesses to the debug counters are left out
  (`AxiRegs` has them); those to CONFIG are two steps each.
- In `MessageAggregator`, `Gap` is how many cycles lie between two messages of a
  decoder. A decoder works through a message of 56 or 112 microseconds, so the
  real gap is hundreds of cycles against N + 2 = 10. A cycle in which several
  slots drop a message counts one drop, as the signal's assignment in a loop does.

## Runs

| run | checks | bounds and why they suffice |
|---|---|---|
| `feeder` | nothing lost or repeated, order of the buffer and of the whole stream, flush when quiet, the filter | 8 units against a window of 2, a lifetime of 3, a stats period of 4; 4 messages of every kind against a capacity of 2: late, equal, overflowing and flushed messages all occur |
| `server` | no send to or double close of a closed channel, no client forgotten, refinement of `ClientFeed`; the feeder goes on, other clients are served, Stop completes | an accepted and an added client, one of them stuck; a channel of 1 that 2 broadcasts and a welcome overflow |
| `radarcape` | no nil reference encoded, broadcasts parse, welcome is current, followers decode | 3 messages give a transition out of GPS mode and back; a channel of 2 loses frames |
| `pps` | labelling, loss and gain of sync in bounded time | 7 seconds in quarters, more than any of the bounds takes; one spurious edge; chronyc takes up to its timeout; the count starts before its wrap |
| `pps_stats` | skipped edges, synced intervals | window of 2 that 6 samples overwrite, both counters wrap, jitter in and out of bounds |
| `fifo` | refinement of `MessageQueue`, the count, every overflow is reported | 4 words, two messages, unbounded steps: the pointers wrap any number of times; up to 2 unreported overflows, one more than the toggle can carry |
| `aggregator` | once each, fair turns, none lost | 4 decoders, packets of 3, a gap of N + 2, the least at which none is lost; no message meets an occupied slot there, so that `OnceEach`, which has no such bound, is what covers a collision |
| `ubx_commands` | what is verified is in force, a rollback is kept until it is not owed, exit codes, every command ends | 16 scenarios: each command on a receiver that suits it, some on one that does not; a write or a save left in the queue, at most one fault, one foreign poll, one signal; a channel of 2, which overflows |
| `gps_monitor` | a snapshot is of its cycle, what is missing is named, the page of a fixed receiver, recovery | 6 scenarios over both programs and all generations: a receiver in survey-in, a fixed one with a fault and a foreign write in one cycle, one whose position was set in degrees, an unknown one; a history of 1 that wraps; a second receiver on the same gpsd. The three exceptions of `FixedPageShowsPosition` all occur |
| `gps_page` | what a comment claims, violated | the same |
| `stats_console` | rates are of what was counted, the screen catches up | 3 requests at once, 2 samples of history, settings 0..2; 4 mixes of messages, keys, clears, faults, restarts and other clients |
| `axi_regs` | a message is read whole, compound reads are atomic | 2 users, 2 debug counters, 2 messages, a count of 2 values that wraps at once, an edge after each reset, any number of calls and resets. A second edge is left to the proofs, which need no bound |

`PpsWatcher.cfg` and `AxiRegs.cfg` give a VIEW that leaves out variables which no
property of those runs reads and which influence no other (statistics and the
absolute PPS count; registers that are written before they are next read).
`AxiRegs.cfg` is symmetric in users and debug counters, which is sound because it
checks invariants only.

Deadlock is checked for `AsyncFifo`, `MessageAggregator` and `StatsConsole`. The
others end: the server stops, a command ends, and the rest run out of a bounded
number of messages or time.

Bounds (`MaxPushes`, `MaxBroadcasts`, `MaxEmits`, `MaxTime`, `MaxMessages`,
`MaxSamples`, `MaxGlitches`, `MaxEdges`, `MaxPending`, `MaxLost`, `Calls`, and the
budgets in `Budgets` and `Scenarios`) are constants of the model, marked so where
declared.

## Fairness

All of it is weak fairness of what the Go scheduler, the kernel or the hardware
must do in the end; nothing is assumed of users, faults or other programs.

- `server`: every goroutine that can take a step does. A write returns in the
  end because the peer reads or the connection fails, but not for a peer in
  `Stuck`, since the code sets no write deadline: nothing is assumed of those,
  and the properties say that they hold up nobody else. That the feeder goes on
  broadcasting is assumed of the feeder; the mutex is in the action. No client is
  assumed to connect and nobody to call Stop.
- `ubx_commands`, `gps_monitor`: the reader goroutine reads, the receiver takes
  the next request (what it does with it is free), the program goes on when it
  can, deadlines expire. Between its calls the program waits for one of these
  only. For the monitor gpsd also greets after a dial, so that what is shown is
  recovery; a command may wait for a greeting until its deadline.
- `stats_console`: handlers and the console's goroutine go on, the ticker ticks.
  That the feeder is started again is not assumed: the property is about a feeder
  that stays up.

The time bounds of `pps` and `feeder` are safety properties over a clock and need
no fairness.

## Proofs

The theorems hold for all values of the constants that satisfy the named
assumptions of the modules (`ReorderAssumption`, `LoopAssumption`,
`ServerAssumption`, `RadarcapeAssumption`, `FramesAssumption`, `WatcherAssumption`, `StatsAssumption`,
`TimeAssumption`, `PollAssumption`, `FifoAssumption`, `AggregatorAssumption`,
`ConsoleAssumption`, `AxiAssumption`, `NoneAssumption`, `ScenarioAssumption`,
`GpsdAssumption`, `MonitorAssumption`), which TLC evaluates in the runs. Eleven theorems state a further
assumption, given below: `StreamIsSorted`, `SyncIsEarned`, `LabelsAreRight`,
`SyncIsGained`, `WritesAreVerified`, `SurveysAreDisarmedInForce`,
`ExitZeroMeansDone`, `SlowDecodersLoseNothing`, `SnapshotsAreOfTheirCycle`,
`FixedIsFixed` and `MissingArePaidFor`.

| module | theorems | argument |
|---|---|---|
| `FeederLoop_proofs`, the buffer | `TypeCorrect`, `HoldIsBounded`, `Conservation`, `Ordering` | `IInv`: between calls nothing ready and no overflow is held; ids are below `pushed`; what is held is newer than what left on time (`HeldIsNewer`), and, within a call, than all that left in it. Order follows because a pop takes a least entry, and one pushed on time is newer than all that left because their window had passed. |
| `FeederLoop_proofs`, the loop | `LoopUsesBuffer`, `LoopTyped`, `FilterExact`, `StreamIsSorted`, `QuietIsFlushed` | Every step of the loop is one of the buffer or leaves it alone, so the buffer's invariant holds in the loop. `FilterInv`: an entry is there if the last announcement is within the lifetime. `OrderInv`: what is in the FIFO is behind the newest TOA by no more than `Skew` (`FifoAlmostSorted`), and when the loop flushes, no message older than what it holds can still come (`FlushIsSafe`); `StreamIsSorted` assumes `Skew <= MaxLateness`. `QuietInv` bounds the time since the last read by where the loop is. |
| `RadarcapeFeed_proofs`, the server | `ServerTyped`, `NoPanic`, `NoClientForgotten`, `ServerImplementsFeed` | `ServerInv`: types, and each client is untouched or served, its queue the frames after those sent and the one in flight (`Piped`). The refinement maps every step to a step of the feed or a stutter: that the channel has room is that the feed has. |
| `RadarcapeFeed_proofs`, the modes | `NilRefNeverEncoded`, `StreamParses`, `WelcomeStaysCurrent` | `RefInv`: in GPS mode a good reference has been kept, and it is the argument when data is encoded. `StreamInv`: the log announces the current mode, but for the frame about to be broadcast, which is stamped in the mode announced. `WelcomeInv`: the welcome frames announce the current mode, but from a transition's broadcast to the update that follows it. |
| `RadarcapeFeed_proofs`, the composition | `FeedUsesServer`, `FeedTyped` | Every step of emit and its clients is a step of the server or leaves it alone (`FeedStep`), so `ServerInv` and the refinement hold of the feeder as well: what emit broadcasts reaches each client as `ClientFeed` promises. That emit sends frames the server takes is `FramesAssumption`, and that it has one frame at most to announce a mode with is `StreamInv`. |
| `RadarcapeFeed_proofs`, the clients | `FollowersKeepUp` | `FollowInv`: a client in the map that joined on a current welcome and was queued each transition since decodes in the mode the log announces, whatever other frames its channel lost. With `StreamInv`, which says that the next frame is stamped in that mode, it can decode what it is queued. |
| `MessagePath_proofs`, the FIFO | `FifoImplementsQueue`, `CountNeverExceeds`, `OverflowsAreReported`, `FifoTyped` | Neighbours in Gray code differ in one bit, so a pointer that is caught while it changes is the old one or the new one (`GrayStep`, `CaughtBetween`). `FifoInv`: what the write side knows of the read pointer is the pointer of some reads ago (`WriteLags`), and the other way round (`ReadLags`); as it is never ahead, a full FIFO is not written, an empty one not read and the count never too high, over any wraps. `OverflowInv`: at most as many overflows are owed as toggles are on their way. |
| `PpsWatcher_proofs`, loss | `LabelsAreRight`, `SyncEndsWithoutEdges`, `SyncEndsWithoutChrony` | `PpsInv` follows three times: when the last tick was taken, when the registers were last read, and the tick of the last published reference. A tick is late only behind a chronyc call, and neither of the two iterations before such a call makes another (`ChecksAreRare`), so the loop is never further behind than a poll and a call (`LoopKeepsUp`). `LabelsAreRight` assumes at most one spurious edge: two of them a second apart look like a second, and TLC finds that the label is then of an edge that starts none. |
| `PpsWatcher_proofs`, gain | `SyncIsGained` | `SyncInv` adds what holds since the last trouble: the edges counted are the seconds gone by (`EdgesAt`), there was an iteration in every poll interval (`TicksAt`), and after the first confirmation the cached answer is fresh and sync is on, unless the second after the trouble or the first edge after the confirmation is still due (`ConfirmedAt`). It assumes `Prompt`, what the constants of `pps.go` have to do with each other: polls shorter than a second and chronyc run often enough for its timeout and the expiry. |
| `PpsWatcher_proofs`, statistics | `NoEdgeForgotten`, `SyncIsEarned`, `StatsTyped`, `PpsTyped` | A difference of counts modulo the counter's range is the number of edges (`WrapDifference`). `SyncIsEarned` assumes that an interval of one edge is less than half the tick counter's range (`Measurable`); the carryover kept last is the one published. `StatsTyped` needs no such bound: whatever the registers hold, the ring of carryovers is indexed within its size and what is measured fits the range of the signed difference (`UpdateTyped`, which `PpsTyped` uses for the watcher in real time). |
| `StatsConsole_proofs` | `ChartIsHonest` | `OnePoll`: the console has one poll in progress at most, and knows when it does. `Fine`, `AnswersFine`: since an answer was given the feeder's counter has grown by no more than was counted, also over a restart; so rates never exceed what was counted, and a sample ends where the next may begin (`PrevFine`). |
| `AxiRegs_proofs` | `MessagesAreWhole`, `CompoundReadsAreAtomic` | `ReadBus`, `WriteBus`: where a handshake stands, from the address to the end of the answer. `Own`: an access on the bus is the next one of its user's call. `Answer(u, n)`: the nth value of a call, also while it is still on the bus. On these, one invariant per call: a message's parts are those of the word shown, until the pop, which is the call's own (`MessageInv`); the index in the register is the one asked for (`DebugInv`); the values before an edge are of the edge before (`PpsInv`), and counts of neighbouring edges differ (`CountsDiffer`), which is what the retry relies on. |
| `UbxCommands_proofs`, the rollback | `NoCommandOwesRollback` | `RollbackInv`: the steps still to do are a `Plan`, in which "cache" is followed by "config" and "config" by "poll"; the rollback is armed exactly when the next step is one of those that must not be the last (`Guarded`). That every command's list of steps is such a plan is a lemma on sequences (`StepsAreFresh`), so the theorem holds for any scenarios and any faults. |
| `UbxCommands_proofs`, the exchange | `WritesAreVerified` | Answers bear no number, so what counts is how many are outstanding for an item (`Few`: one at most, on the line, in the channel or still to be asked), and how many of them are stale. `VerifyInv`: a write begins with one answer outstanding at most, so that one stale answer at most is left when its verification begins; of the two answers that must agree, one is of after the write. It assumes `Alone`: no other program polls the receiver, and no poll of an earlier command is still to be served. Any number of faults, late answers and requests given up are allowed. |
| `UbxCommands_proofs`, the survey | `SurveysAreDisarmedInForce` | `SurveyInv`: every command has its steps in one order (`InOrder`), so before a survey is polled nobody has asked for its state and no answer that could be of an earlier survey is on its way; when the poll comes, the survey's TMODE is confirmed, and what is then told of the survey is true and stays so (`SvinTold`, `SvinKept`). A rollback that succeeds is a verified write of the cached TMODE. It assumes `Alone`, as above. |
| `UbxCommands_proofs`, the exit code | `ExitZeroMeansDone` | `WorkInv`: the steps still to do are the rest of the command's (`DoingIsRest`), and each of its steps that is no longer to do has had its effect, which no later step undoes because none after it writes the same item (`DoneIsNotUndone`). What an effect rests on: a write is confirmed (`VerifyInv`), what a survey said is true (`SurveyInv`), a TMODE that was read, for which `deploy --skip` leaves its survey out, is in force (`ReadingInv`), and a save that is acknowledged was of the configuration in force, as none was sent before it and nothing is written after it (`SavingInv`). It assumes `Alone`, and `WritesLeft`: what an earlier command left unserved are writes, not saves, whose acknowledgement could be taken for that of the command's own. |
| `GpsMonitor_proofs`, the cycle | `SnapshotsAreOfTheirCycle` | `Types`: what is on the wire, in the channel and in the caches is of its kind, and the snapshot is the empty one until the polls begin (`Asking`). `Honest`: every frame on its way, every answer taken and every value noted is one the receiver had since the dial; a session begins with nothing on its way, so nothing of an earlier cycle is left. It assumes one receiver on gpsd, or that frames name theirs: a bare line of hex names none. |
| `GpsMonitor_proofs`, what is missing | `MissingAreNamed`, `MissingArePaidFor` | `Explained`: what is due and no longer to be polled was read or is named. This half needs nothing else and is also a theorem of its own. `Session`: while the dial and the polls last without a transport error, the reader runs and the connection is in order, or has ended. `Paid`: there is a set of items, no larger than the faults spent, that holds every poll which was lost, refused or answered too short, and every item missing so far; so a poll outside it is still to be served or its answer is on the way. `MissingArePaidFor` assumes that the subscription's channel never fills: a frame that finds it full is dropped, which costs a field and is no fault of the receiver. A poll waits for its own answer, so filling the 16 places takes the answers to other programs' polls, or to polls that earlier cycles gave up and that are served in a row. |
| `GpsMonitor_proofs`, the state | `MonitorTyped` | `ClientTyped`: the devices listed are those gpsd reported, and a frame is dropped rather than let the channel grow past its capacity. `NotedOnce`: no message is polled twice in a cycle (`Once`, of the lists of polls and their tails), so none is noted both as read and as failed. |
| `GpsMonitor_proofs`, the page | `FixedIsFixed` | `PageInv`, on top of `Types`, `Honest` and `NotedOnce`: a mode 2 that was read is one the receiver had since the dial; the TMODE that is kept is the one the mode is of, because TMODE is polled once in a cycle; and without one the position is zeros, or the survey's if there was a survey. A snapshot that is published goes through the overlay (`PageIs`, `OverlayShows`), so the page shows the position of a TMODE of its cycle, or, if that was cut short after its mode, what the survey poll gave. It assumes one receiver on gpsd, or that frames name theirs, as `SnapshotsAreOfTheirCycle` does. |
| `MessagePath_proofs`, the aggregator | `OnceEach`, `FairTurns`, `SlowDecodersLoseNothing`, `AggregatorTyped` | `TurnInv`: an owed message has waited for as many cycles as the index has come towards its slot at most. `LossInv`: an occupied slot or a pending clear is younger than N + 2 cycles. `SlowDecodersLoseNothing` assumes `Gap >= N + 2`. |

The invariants are inductive; the properties alone are not: that a slot is
served within N cycles needs where the index is, that messages leave in order
needs what is still held, that a message is whole needs what the bus is about to
answer.

Type invariants are proved for every module that states one, but for
`UbxCommands`: what its TMODE can hold depends on what earlier commands and other
receivers of a scenario put there, so that its `TypeOK` documents the scenarios of
the run.

Only model-checked: liveness (`BroadcastsGoOn`, `OthersAreServed`,
`ShutdownCompletes`, `CommandEnds`, `Recovers`, `ShowsWhatIsInForce`), and what
lies beyond the assumptions of a theorem: `VerifiedInForce`, `DisarmedInForce`
and `ExitZeroIsDone` with a poll of another program, and `ExitZeroIsDone` with a
save that an earlier command left, as far as the scenarios of the run go: there a
save that is left saves the configuration the command asks for, or is served and
its acknowledgement gone before the command sends its own. In general it does not
hold. `ubx save` after a save and a write that an earlier command left can take
the acknowledgement of the old save for its own, lose its own, and exit with 0
while the write is not in flash: the case that `cfgcfg.go:69-74` admits. TLC finds
it when `LeftSave \o LeftWrite` is the queue of that scenario.
Liveness under fairness and ENABLED are out of the prover's reach. So is what a
recursive definition computes for every input; the modules declare no RECURSIVE
operator, and where a proof has to climb (from one Gray code to the next in
`MessagePath_proofs`) it takes the least number that breaks the claim.

## Where code and documents differ

One difference is a run that TLC ends with a counterexample:

- `gps_page`: when the start-up probe of gpsd fails, or with `--mock`, the GPS
  pages panic instead of saying that there is no monitor. A nil `*Collector` is
  passed where an interface is expected and is not nil there (`main.go:515`,
  against the comment at `web.go:220-223`).

Others came up while the actions were translated; no run refutes the text, but
the properties are stated for what the code does.

- The second that a synced reference labels can be wrong when chronyc is slow:
  the tick's time is taken before chronyc runs, the registers are read after
  (`pps.go:229`, `243`, against `docs/wiki/06-Timestamps-and-MLAT.md:43`).
  `MislabelNeedsCheck` says that it happens in no other case.
- Sync may outlive chrony's last confirmation by more than the four seconds of
  `gps-toa-timestamping.md:340-343`. `ChronyLossNoticed` gives the bound that holds.
- A client that joins between a transition's broadcast and the update of the
  welcome frames is told the old mode (`main.go:549`, against
  `protocol-compliance.md:322-323`). `FollowersDecode` says that this and the loss
  of the transition frame to a full channel are the only ways to be misled.
- The extremes of the carryover are for life, where a plan says of the last sixty
  intervals; an interval out of bounds replaces the previous one, where it says to
  hold it; rejected messages count as activity, so that they keep an accepted one
  in the reorder buffer past its window.
- The position of a fixed receiver on the dashboard comes from its TMODE. One cut
  short after its mode gives a page that says "fixed" with the survey's zeros, or
  with the position of a survey of the same cycle: `TMODEMode` reads the mode of 1
  or 3 bytes (`tmode.go:201-217`), `ExtractFixedModeECEF` wants 20 or 24, and
  without it the overlay is left out (`gpsmon.go:261`), with no error on the page.
  Its lla flag (`tmode.go:20`, `31`) is not looked at, so that degrees are shown as
  centimetres. `FixedPageShowsPosition` has these as its exceptions.
- The monitor: a time mode that could not be read is shown as 0, "disabled", where
  `snapshot.go:42` speaks of -1; answers to the NAV5 and TP5 polls that are too
  short leave their field empty without an error, the one exception in
  `MissingIsExplained`; a field that failed is empty, not stale as a comment in
  `snapshot.go` has it; a cycle without a connection adds nothing to the history,
  so that its samples are not evenly spaced; and the details page does not show a
  transport error. `ubx status` gives up on everything after one lost answer to
  its survey poll, which uses up the time of the whole command.
- A subscription's channel holds 16 frames and drops what does not fit, answers
  included; the request then times out. A bare line of hex names no receiver:
  with two on one gpsd it may come from the other.
- `ReadPpsStable` relies on a call being faster than two edges, as its comment
  says (`regs.go:313-315`); a count torn at an edge, with another edge in the
  same call, could pass its check. `ReadPps` has no check; its callers only show the
  values. `pulseControl` reads CONTROL and writes it back with a bit set; in the
  cycle in which another program sets the reset bit it would set that bit again.
- Nothing keeps two users of the debug counters apart (`regs.go:134`): a `ReadDbg`
  during which another user selects an index may give that one's counter.
  `CompoundReadsAtomic` makes an exception of these calls and of a soft reset, and
  says that there is no other.
- After a soft reset under a running feeder the counter starts again, the newest
  TOA of the reorder buffer does not: until the feeder is restarted every message
  is late for the buffer and passes unsorted. None is lost
  (`NothingLostOrDuplicated`).

## What is not modelled

- The decoding pipeline before the aggregator (correlation, power, certainty of
  bits, bit flipper, CRC): every decision is signal arithmetic on vectors that no
  finite instance shows in earnest, and what is left without it is a counter of
  busy decoders. The simulation covers it.
- The tracker: a map behind a mutex whose content is decoded positions. Its one
  interleaving needs a goroutine to stand still for a minute between two lock
  sections.
- The rejected-frame diagnostics (a ring under one mutex with one writer) and the
  build runner (a development tool that starts external programs).
- Byte encodings (Beast escaping, UBX fields, checksums) and the arithmetic of
  timestamps: unit tests cover them.
- Of the register file: the ten-second hold of the overflow bit, the bit of the
  capture snapshot, VERSION. Of the top level: decoder enable, the synchronisers of
  the tuning values, the sample capture.
- Rendering, wiring, vendor blocks, build scripts, boot files and offline analysis
  scripts.

## What could come next

1. The tracker with expiry and snapshots, behind the hand-over from `emit`,
   composed with `FeederLoop`.
2. Timestamp arithmetic and CRC as operators against a reference definition.
