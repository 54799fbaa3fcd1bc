# ATP Engine: specifications and proofs

TLA+ models of the ATP Engine (AMBA Adaptive Traffic Profiles: a traffic
generator with its gem5 adapter, a gem5 device that exposes it to software, and
the Linux driver of that device), their TLC configurations, and theorems
checked by TLAPS. Paths below are relative to `src/`.

- [1. The system](#1-the-system)
- [2. Modules](#2-modules)
- [3. Runs, bounds, fairness](#3-runs-bounds-fairness)
- [4. What is proved](#4-what-is-proved)
- [5. Where code and documentation disagree](#5-where-code-and-documentation-disagree)
- [6. Abstractions](#6-abstractions)
- [7. What is not modelled, and the plan](#7-what-is-not-modelled-and-the-plan)

## 1. The system

The engine is a single-threaded discrete-event simulator. A *profile* models
one device's traffic: a master generates requests when its *FIFO* lets it, a
slave answers them after a latency. The *manager* (TPM) owns the profiles, the
clock, the *Kronos* calendar queue and the map of routed packets; it either
runs its own loop or is called by an external simulator (the *adapter*). Under
gem5, a memory-mapped *device* lets guest software instantiate and play streams
(trees of profiles), through a *Linux driver*. That last part is where real
concurrency is: processes, processors, an interrupt handler, and a device whose
register accesses and completions interleave.

| Component (files) | State | Operations | Interacts with | What is hard | What makes it correct |
|---|---|---|---|---|---|
| Kronos (`kronos.*`) | buckets of time-ordered events, cursor (epoch, bucket), counter | `init`, `schedule`, `get`, `next` | called by the manager's `tick`, `loop`, `send`, `receive` | wrap-around of the walk, epochs sharing a bucket, events behind the cursor | each event handed out once, not early, none lost; `next` exact; the loop ends |
| FIFO (`fifo.*`) | level, bytes in flight, outstanding list, tracker, fractional carry, activation flags | `init`, `send`, `receive`, `update`, `nextTransmissionTime`, `receiveEvent`, `reset` | profile (permission, answers), event manager (level events in and out) | answers in parts or out of order, unsigned subtractions, rounding drift, forecasts acted on later, freezing by a partner | level bounded, bytes accounted, rate kept, a refusal's date neither early nor late |
| Manager (`traffic_profile_manager.*`) | clock, profiles, active list, waiting map, routing maps, streams | `tick`, `loop`, `send`, `receive`, `route`, stream activation, termination, reset, `uniqueStream` | everything | callbacks that change the lists being walked; locked profiles; retries | every packet reaches its owner once; streams terminate when their leaves do |
| Event manager (`event_manager.*`, `event.*`) | events waited for | `waitEvent`, `receiveEvent`, `emitEvent` | profiles and FIFOs | events emitted while others are handled; level events released by termination | every wait ends when its event does |
| Master, slave, checker, delay (`traffic_profile_*.cc`) | counts of sent and outstanding transactions, pending packet, locks, timers | `send`, `receive`, `activate`, `reset` | manager, FIFO, packet descriptor | pending packet kept over a refusal, posted writes, checker's FIFO refusing | termination exactly when nothing is outstanding |
| Packet descriptor (`packet_desc.*`) | address and size generators | `send`, `receive`, `reset` | master, slave | strides, ranges, alignment | addresses stay in range |
| gem5 device (`gem5/atp_device.*`) | registers, per stream a flag and a queue, served queue, interrupt flag and line | register `read`/`write`, DMA completion, `servedRequestHandler` | driver (registers, interrupt), adapter (activation, termination callback) | plays, terminations and acknowledgements in any order | each request played in order, reported once |
| gem5 adapter (`gem5/profile_gen.*`) | playing streams and callbacks, local buffers, retries | `update`, `activateStream`, `configureStream`, `recvTimingResp`, `recvReqRetry`, `drain` | manager, memory ports, device | port refusals, drain while traffic is pending, exit when all is over | nothing sent twice or lost over a retry |
| Linux driver (`linux/atp_device.c`) | play list with its lock, register lock, identifier counter, per-request wait queue | `ioctl` (open and play streams), interrupt handler | device, processes | two locks, an interrupt on the lock's processor, signals, identifier wrap | each play call returns, and with success only when its own request is finished |
| Linux buffer manager (`linux/atp_buffer_manager.c`) | allocation offset | `ioctl`, `mmap` | driver | — | — |
| Random generator, statistics, logger, tagger, tracer, shell, tests | — | — | — | no behaviour of the others depends on them | — |

The hazards of this code, each at its line and with the properties that watch
it, are listed in `PROJECT.json` under `hazards`; the properties of this project
were chosen from that list.

## 2. Modules

| Module | What it is |
|---|---|
| `FutureEventList` | promise of an event scheduler: an event leaves once, never before its time; the clock never goes back, and a turn of the loop takes it to the time of an event it delivers or leaves it |
| `Kronos` | the calendar queue under `loop` and under an adapter's `send` |
| `CreditLimiter` | promise of a FIFO: a credit in bytes, spent by grants, given back by time, never above the limit with the bytes in flight |
| `Fifo` | the FIFO of any configuration under its callers |
| `Precedence` | promise of waiting: no profile begins or finishes before those it waits for have finished |
| `EventBus` | waits, subscriptions, emission and distribution of events |
| `Engine` | `EventBus` with the masters, delays and checkers, the poll of the active list, the answers, the streams an adapter plays |
| `RequestReply` | promise of the manager's routing: a request is taken by one slave within its limit and answered once |
| `Routing` | requests and answers between masters, slaves and adapter, refusals and retries, `loop` and `tick` |
| `PacketDesc` | the address generator, as operators on descriptors |
| `Streams` | streams as callers use them: unique streams, moved into buffers, sent and reset; it composes `PacketDesc` |
| `Registry` | files, declared and described profiles, clones, the cache of streams, counts, resets |
| `Adapter` | the gem5 adapter: updates, ports, retries, answers, drain, exit |
| `PlayService` | promise of the device: requests of a stream are played in order, completions presented one at a time until acknowledged |
| `AtpDevice` | the device and the adapter's part in playing streams, under any software (`DeviceSpec`) |
| `AtpDriver` | the Linux driver on top of `AtpDevice`: processes, interrupt handler, processors (`Spec`, `FairSpec`) |
| `MC...` | the instances for TLC |
| `...Proofs` | the theorems of a component, each module with the lemmas it needs of numbers, sequences and recursive functions; `SchedulingProofs` has those of `Kronos` and `Adapter`, and `EngineAttendedProofs` goes on from `EngineProofs` |

Definitions marked `(mutant)` are plausible wrong versions of the definition
that follows them. No specification uses them: they are there so that each
property can be seen to fail when the code is wrong in that way.

How they fit together. `Kronos` and `Fifo` are whole components. `Engine` and
`Routing` take of them what their specifications promise: a FIFO grants, or
refuses with or without a time; Kronos hands out nothing early and, under `loop`,
always the event `next` named, though perhaps not the earliest, and late if it had
been overlooked before (that is what `Kronos` shows: `TickDelivers`, `OnTime`).
`Engine` has all of the events and one memory that answers; `Routing` all of the
requests and no events. `Adapter` takes the engine as bursts of packets within the
outstanding transactions; `AtpDevice` takes the
adapter as streams that are played and found terminated; `AtpDriver` composes with
the whole of `AtpDevice`.

**Kronos.** `calendar` is the vector of lists, `epoch` and `bucket` the cursor,
`counter` the counter. `Schedule` is `Kronos::schedule`; `Get` is
`Kronos::get`, with its walk (`Scanned` says which buckets and in which order the
walk passes, by the sign of the modular distance between cursor and target),
what it pops (`Leading`, `Popped`) and the skip over empty buckets that moves the
cursor (`Skip`, `CursorBucket`); `NextTime` is `Kronos::next`. `LoopTick` is one
turn of `TrafficProfileManager::loop` (take the clock to `next`, or leave it where it
is when that is past, which is `SetTime`; then the tick's `get` at that time);
`AdapterSend` is `TrafficProfileManager::send` at a time of the caller's
choosing. The histories `issued` and `delivered` say what was scheduled and when
it was handed out.

**Fifo.** Every operation first brings the FIFO to the present time (`Update`):
the bytes due with the fractional carry (`Due`, `Amount`), the level
(`LevelAfter`), the tracker (`TrackerAfter`), the flags. `Grant` and `Refuse` are
the two outcomes of `send`, the second with `NextTransmissionTime`; `Answer` is
`receive` by the bytes of an answer to *any* unanswered request, in parts or
whole; `PartnerEvent` is `receiveEvent` with `waitEvent` for the opposite event;
`PartnerTerminates` is the release of the waits by `EventManager::receiveEvent`;
`Reset` is `reset`. The environment's part is `requests` (what is unanswered);
`profileOt` is the count the master profile keeps from the FIFO's answers.

**EventBus, Engine.** The code is one thread whose calls nest: an event is handed
to listeners one by one, and a listener may emit an event of its own before the
next one hears the first. `todo` is that stack of calls, and each action runs the
innermost call to the next call it makes. `EmitEvent` is
`EventManager::emitEvent` with its filter (`MayEmit`) and
`TrafficProfileManager::event`; `MasterHears` and `OtherHears` are `receiveEvent`
of the roles; `Configure` and `Reset` are a profile's construction and `reset`.
`Poll` is the adapter's update, which walks the active list (`MasterSends`,
`MasterRefused`, `MasterIdle`, `DelaySend`, `CheckerSkipped`, `EndWalk`) and then
asks the streams (`AskStream`); `Answer`, `Answered` and `Discard` are
`TrafficProfileManager::receive` for a request and for a posted one;
`CheckerRecords` is `updateCheckers`; `ActivateStream` is what software does.

**Routing.** `waitedRequest`, `waitedResponse`, `buffer` and `events` are the four
places that know of a request; `responses` are the slaves'. `Takes` and `Refuses`
are the two outcomes of `receive`; `Handle` is `handle` of a Kronos event, the
retry; `SlaveSends` is a slave's turn in the walk with the delivery of its answer;
`LoopTick` is the end of a walk with `tick`, the test of `loop` and `SetTime`. `behind`
are the retries that were scheduled in the past, by a slave that is polled late: a tick
may miss those once, and no other event that `next` names.

**PacketDesc, Streams.** A descriptor is a record; `Advanced` is `getAddress`,
`Rewound` is `reset`, `Moved` is `addressReconfigure`, `AutoRange` is `autoRange`.
`UniqueStream` is `uniqueStream` with `cloneStream`, `ConfigureStream` is
`addressStreamReconfigure` of one type, `SendPacket` and `ResetStream` the rest of
a stream's life. What an address should be is `Configured`, a closed formula that
knows nothing of positions and wraps.

**Registry.** A profile is a name: a base name and the number of the clone.
`Configured` is `configureProfile` with `createProfile` of a set of profiles,
`LoadConfiguration`, `CloneStream`, `StreamReset` and `Reset` the functions of that
name; `Terminate` and `Activate` are the events as far as these tables go.

**Adapter.** `Update` is `ProfileGen::update` with the packets the manager gives, one
round over the ports (`Serves`: each takes packets until it refuses one), the table
of requests to come back (`Offered`), the next update and the end (`Ends`). `Answer`
is `recvTimingResp`, `Retry` is `recvReqRetry`, `Drain` is `drain`.

**AtpDevice.** `regs` are the registers, `active`/`pending` those of
`Stream`, `servedRequests`, `intAckPending` and `interrupt` those of the device,
`activeStreams`/`onTerminate` those of the adapter with the callback the device
registers. `PlayStream` is `playStreamHandler` with `serveRequest` and
`configureDmaOp`; `StreamTerminated` is the part of `ProfileGen::update` that
finds a terminated stream and runs its callback, `ServedRequestHandler`;
`AckInterrupt` is `intAckHandler`; `UniqueStream` and `StreamName` are the two
halves of `uniqueStreamHandler`, with the DMA in between. `TrafficEnds` is the
engine terminating the leaves of a stream. `fault` records that the simulator ended
the simulation (`panic`, `fatal`).

**AtpDriver.** A process is in an `ioctl`: `Open`, `OpenLock`, `OpenCommand`,
`OpenPoll`, `OpenDone` (or `OpenFails`) follow `atp_device_mmio_unique_stream`;
`Play`, `Map`, `PlayLock`, `Program`, `Command`, `Poll`, `Wait`, `Put` follow
`ATP_PLAY_STREAM`; `Signal` ends an interruptible sleep. The interrupt handler is
`Interrupt`, `IsrLock`, `IsrRead`, `IsrAcknowledge`, `IsrLookUp`, `IsrComplete`,
`IsrWake`. A processor runs nothing else while a process on it holds the register
lock with interrupts off (`IrqsOff`, `Runs`), and its processes wait while the
handler runs on it.

## 3. Runs, bounds, fairness

| Run | Question | Outcome |
|---|---|---|
| `kronos` | is an event ever lost, repeated, early; is `next` exact; does each turn of the loop deliver what `next` named; does the loop end; does the queue implement `FutureEventList` | holds; `NextExactAhead` and `PollComplete` under a stated condition on the cursor |
| `kronos_late` | does the loop hand out every event at its time | violated (finding) |
| `fifo` | capacity, bytes, rate, forecasts, freezing, implementation of `CreditLimiter` | holds |
| `engine` | is a wait ever lost; do all the counts of what is terminated and outstanding agree; is a profile ever left behind; does a stream end; does waiting implement `Precedence` | holds |
| `engine_stall` | the same of a profile halted by one that is configured after it | violated (finding) |
| `routing` | is a request ever lost, doubled or given up; does `loop` return; does routing implement `RequestReply` | holds |
| `streams` | does each caller have a stream and addresses of its own; are the addresses those of the configuration | holds |
| `registry` | are the counts of declared and of unfinished profiles exact; are clones apart; is the cache right | holds when the first file describes the followers of its roots |
| `registry_cache` | is the cache right when a further file adds followers | violated (finding) |
| `adapter` | does the memory see all packets in order, do answers find their requests, is the end the end | holds |
| `device` | is a request torn, lost, repeated, reported early; does every play call return; does the device implement `PlayService` under the driver | holds |
| `device_both_ways` | is every operation the driver programs accepted by the device | violated (finding) |

Several properties have parts, each with a name and a comment in its module:
`CalendarExact` (order of each bucket, each event once, the counter); `GetsComplete`
(`PollComplete` for an adapter, `TickDelivers` for the loop);
`BytesExact` (bytes in flight, outstanding entries, rate); `ForecastExact` (a refusal's date is
neither early nor late, lies ahead, and the age of a request is sane);
`CountsAgree` (`TerminationCount`, `OutstandingOwed`, `StreamComplete`);
`NothingLeftBehind` (`HaltFollowsPartner`, `NoStall`, `ExitMeansDone`);
`NoneAstray` (`OnePlace`, `AnswersOwned`, `LoopLeavesNothing`); `OwnRanges`
(`RangesDisjoint`, `InOwnBuffer`); `AddressesExact` (`LinearExact`, `NoRepeat`);
`InOrder` (`RoutingExact`, `OrderKept`); `OwnAnswers` (`OpensItsOwn`,
`AcknowledgesWhatItRead`, `ReturnsWhenFinished`).

*Bounds.* Every bound is a constant.
- `kronos`: three buckets of width 2 and times to 12, more than two calendar
  lengths, so events of three epochs share buckets, times share slots and the cursor
  wraps; three events are enough for one before, one behind and one ahead of the
  cursor. Two times, 0 and 3, may be scheduled when they are past. `kronos_late` has
  three buckets of width 1, times to 6, four events, and none scheduled in the past.
- `fifo`: nine configurations (each kind, whole and fractional rates, empty and full
  start, limited or not, linked), times to 8 with periods to 3, two outstanding
  transactions of one or two bytes: partial answers, overtaking and several carries
  happen. Precision 10 makes two of the periods exact and rounds thirds, as the
  code's 10^8 does.
- `engine`: five systems of up to four profiles. `Diamond` has waits that join and
  files that name profiles of later ones; `Played` a stream with a delay, a posted
  master, two masters' counts and a checker, activated and reset twice; `Linked` a
  master that stops with another's status; `Timed` a frame time, a delay that runs
  and a checker that is polled; `Alone` a master that is activated, reset, and polled anew,
  with a delay after it. Refusals come up to time 3; a profile without a total
  sends 2 packets.
- `routing`: two masters and two slaves with one slot each, so that requests are
  refused, retried, refused again, and overtaken; the slave before and after the
  masters in the walk, no latency and two units, a posted master, a shared pair of
  slaves, an adapter with a request of its own. Three requests.
- `streams`: two callers of one root, of which one gets a clone; profiles that are
  linear, random and striding, of either kind of stride, with a range that wraps, a
  start that is not the base, a buffer too small, and a profile without an end.
- `registry`: four profiles that join, a checker, forward declarations over two
  files, two roots with one follower; two clones of each.
- `adapter`: two masters with three packets, of the same address with both commands
  and of the same command, bursts of two, one master with one outstanding
  transaction; half a unit of time a tick; drains, suppressed packets, and the exit
  of the first master. The memory delays up to tick 4.
- `device`: two processes on two processors, two streams, three plays with
  identifiers 0..2 that start at 1 and wrap. That puts two requests behind each other
  on one stream, two completions behind one acknowledgement, a wrap, and a signal with
  its late completion.

Behaviours end when a bound is reached or when the work is done, which is why
deadlock is not checked; waiting for ever is caught by liveness (`LoopDrains`,
`StreamEnds`, `LoopEnds`, `AllPlayed`, `PlayReturns`) and by `NoStall`,
`LoopLeavesNothing` and `DoneIsDone`, which say what is true when nothing moves.

*Fairness.* `Kronos!FairSpec` takes weak fairness of `LoopTick`, and `Routing!Spec` of
`Send`: `loop` is a do-while of the only thread. `Engine!Spec` takes weak fairness of
`Step` (the thread goes on), of `Poll` (gem5 runs an update that is scheduled) and of
the answers to each profile (the memory answers all requests); none of an activation.
`Adapter!Spec` takes weak fairness of time and updates, and of the retries and the
answers of each master: a port that refused owes a retry in gem5's protocol. There is
no fairness for `Drain` and `Resume`. `AtpDriver!FairSpec` takes weak fairness of
each process that has begun a call (`Continues`; no fairness on starting a call nor
on signals), of the interrupt handler (the line is level-sensitive and stays up
until acknowledged), of the DMA of a stream name, and of each stream's engine
(profiles are finite, and the adapter's updates keep coming while it tracks a
stream). A spinning process is not guaranteed the lock by weak fairness in
general; `MaxCalls` makes competing calls finite, so starvation by an endless
series of other calls, which a Linux spinlock's own fairness excludes, does not
arise. Fairness is conditioned on there being no fault: a fault ends the
simulated machine.

## 4. What is proved

TLAPS proves, for all values of the constants under the assumptions named in the
modules (`WidthAssumption`, `SizeAssumption`, `PastAssumption`,
`BoundAssumption`; `NamesAssumption`; `ConfigsAssumption` of `Fifo` and of `Adapter`,
`PrecisionAssumption`, `SizesAssumption`, `BoundsAssumption`; `NoneAssumption`,
`DriverAssumption`; `IdsAssumption`, `TimeAssumption`), and of the hypotheses that the theorems about
`Streams`, `Engine` and `Registry` name:

- **`SchedulingProofs`**, of Kronos: `TypeOK`, `CalendarExact` (with its parts `BucketsOrdered`,
  `ExactlyOnce`, `CounterExact`) and `NeverEarly` are invariants, as is
  `NextExactAhead`; `TickDelivers` and `PollComplete`, the parts of `GetsComplete`,
  hold, and Kronos implements `FutureEventList`. `IInv` is the conjunction of the
  invariants and the finiteness of the pending events. They need one another: that
  the walk loses nothing needs the order of each bucket (it stops at the first event
  not due); that a bucket passed twice yields nothing twice needs the uniqueness of
  identifiers; the counter needs that what is popped was in the calendar.
  `TickDelivers` needs that `next` answers the time of an event in a bucket that the
  walk passes. If that time lies ahead, the walk ends there. If it is past, the clock
  stays, and the walk to the present is the one that counts: `AlwaysReached` says that
  every due event lies on it, unless it was scheduled in the past, since a `get` leaves
  no such event elsewhere and the walk of the next one ends where this one ended.
  `NextExactAhead` and `PollComplete` assume that
  nothing lies behind the cursor: then the slots of an epoch come in the order of their
  buckets, and the walk from the cursor to the clock passes all that are due.
- **`FifoProofs`**: `TypeOK`, `Capacity`, `FreezePolarity`, `BytesExact`,
  `RetryAhead`, and that the FIFO implements `CreditLimiter`. `IInv` adds to
  `NumbersOK` and `Capacity` a `Polarity` that covers what `FreezePolarity` leaves
  open: the states before activation and those where no event is waited for. `Capacity` is inductive only with
  `firstActivationTime <= time <= now` and the carry's bound, on which the
  monotonicity of `Update` rests. The account of the bytes (`Books`) builds on it:
  `Shaped`, the lists and that no request is answered beyond its size; `Balanced`, the
  bytes in flight are the sum of the entries and the sum of what is unanswered;
  `InLines`, that until an answer overtakes one to a request of another size, the
  requests in progress, all of one size, share their entries with each other and the
  others have one each; `Rated`, which adds to `RateExact` that
  a FIFO without a partner is active from its first activation on, before which nothing
  has moved. `OutstandingAgree` is not inductive without `InLines`: that an answer
  uses up no more entries than requests depends on which sizes head the two lists. The
  sums are a recursive function, of which `Recursion` gives the equation.
- **`AtpDriverProofs`**: under any software (`DeviceSpec`: every register access
  at any time) `DeviceInv` holds, and the device implements `PlayService`.
  `DeviceInv` says that a stream is active for the device exactly when the adapter
  plays it, that an inactive stream has no queue, that the callback of an active
  one names a request, and that a request waits for notification only while an
  acknowledgement is awaited. Without the last fact a completion could be
  published past one that waits. The driver is a program of the device
  (`Spec => DeviceSpec`), so the device under it implements `PlayService`; and
  `NoFault` (for plays in one direction), `RequestsUntorn`, `OwnAnswers` with its
  parts, and `TypeOK` hold. `DriverInv`
  extends `DeviceInv` with what the register lock protects. `LockHeld`: the lock is
  held by whoever is among the registers, so at most one process or the handler
  is. `NameAwaited`: STATUS is up, or a name is being read, only for the process
  that polls, so no operation sees the STATUS of another. `Listed`: a process about
  to play has its own stream and identifier in the registers. `Handled` and
  `Reported`: what the handler reads and marks is finished. `RequestsUntorn`
  needs besides that identifiers are not reused while a request is about
  (`Numbered`), which is where `MaxPlays <= IdSpace` is used.
- **`RoutingProofs`**: `TypeOK`, `NoneAstray` and the refinement of `RequestReply`, for
  all masters, slaves and configurations. The inductive invariant `IInv` says where a
  request may be (`Places`: refused with a slave to go back to, in one slave, or
  answered, and no slave holds one twice), that the buffer and the retries in Kronos
  are one to one (`OneRetry`), that counts and tables agree (`Counts`), and, for the
  loop, that whoever the walk has passed and is not done has noted a time
  (`Noticed`): with nothing in Kronos and nothing noted, everything is answered.
  None of it depends on the clock: an event may be handed out late, or a tick later.
  `NoneAstray` alone is not inductive: it does not say that a retry, or a slave that
  holds an answer, is met again (`OnTheWalk`). The three steps in which a
  request meets a slave share one account, `Attempt`. That loop() returns
  (`LoopEnds`) stays with TLC.
- **`StreamsProofs`**: `TypeOK`, `UniqueGiven`, `OwnRanges` and `AddressesExact`, for
  every root and any number of callers. `IInv` says that a caller was given one of the streams there are,
  that the profiles keep their patterns (`Streamed`), that the moved ones lie one
  after the other in the buffer of their type, each at an address inside its own range
  (`Apart`, `Place`), and that nothing is sent between the two moves (`Waiting`).
  `InOwnBuffer` is not inductive without them: the next address wraps into the buffer
  only if it was in its range before (`AdvancedWithin`). Where the ranges lie is a running sum, the
  recursive function `Ends`; what it computes is proved by its least counterexample
  (`SumExists`, `SumGrows`, from `WFMin`). `OwnBuffers` assumes that a profile with
  packets to send needs a range that is not empty: with increment 0 the code computes
  an empty one, and its packets go to its base, which may be the end of the buffer.
  `AddressesExact` assumes the same. Its invariant (`Told`) says how many packets a
  profile has sent, where its descriptor `Stands` after them, and that a moved profile
  has the range it computed; one packet more is one step in the round through the range,
  or in the stride, if it is one by range, and, at its end, to the next stride
  (`LinearAdvances`, `StridesAdvance`, on `NextInRound` and `FitsBelow`).
- **`EngineProofs`**: `TypeOK`, `NoLostWait`, `CountsAgree` (of its parts,
  `TerminationCount` without any hypothesis on the profiles) and the refinement of
  `Precedence`, for any profiles, files and streams. The calls in progress are a
  stack, and every argument is about what may lie on it: `Makes` says what calls a step
  leaves in place of the innermost, `FitsOver` what may be under what (`Stacked`). The
  invariants build on each other. `Orderly`: a termination is announced once, and never
  while files are loaded. `Known`: who is not configured yet is not called, listed or
  subscribed. `InTurn`: who has begun has seen all terminate that it waits for, or is
  about to be reset; in the middle of the reset of a stream this is false of some of
  its profiles, so it speaks of a set closed under waiting whose members are about to
  be reset or fresh (`Closing`). `Settled`: each master has outstanding what the memory
  owes it; a master that terminated is at its end with nothing outstanding; what is
  about to be reset is idle (`Idle`); a root does nothing until its stream is activated
  (`Sleeping`); a checker is one off its master exactly while a packet is on its way to
  it (`Recorded`). That a stream of which the leaves have terminated is at its end
  (`StreamDone`) is shown by the profile that is ranked first of those that have not.

  Three conditions on the configuration are hypotheses, and TLC finds a counterexample
  without each. `OneFile`: streams are reset only if all profiles are in one
  file, else a profile of a later file follows a stream that was cached without it and is
  not reset with it: played again, it sends before its predecessor has terminated.
  `Rooted`: a profile that is activated as a stream waits for no termination, since
  `activate` does not look at its waits. `Acyclic`: no profiles wait for each other in
  a circle; a stream that is one has no leaves, and is taken for terminated at once.
  `CountsAlwaysAgree` and `TypeCorrect` assume all three, `PrecedenceHolds` the first
  two, `NoWaitIsLost` and `CountIsExact` none.
- **`EngineAttendedProofs`**: `NothingLeftBehind`. It rests on the invariant `Attended`,
  next to the others.
  `Unstalled` is its core: while no update is scheduled, each master or delay that is
  polled has terminated, will be reached by the walk in progress (`PollAhead`), is about
  to announce its activation (`Rising`), or may rest (`Resting`): it awaits others and
  was found locked, a time was collected, an answer is owed, or its partner halts it.
  A step that takes one of these excuses away leaves another, and for the partner that is
  a matter of order: what a partner says is said while the walk is at it, or before
  (`Sourced`), and it is ahead of whom it halts in the list (`Leading`), so that whoever
  is released is still to be polled. `Obedient` says what a halted master awaits
  and has heard; while the news of a change is on its way, the flag and the
  partner's status differ (`Obeys`). At the end of a call, nobody is left to be polled: a
  master that is halted has a partner that is polled, waits for nothing and is halted by
  none, hence has terminated, and a termination releases all (`Released`). When the
  adapter stops, a master or delay that is not polled awaits the end of another that has
  not come, and of those that have not terminated one is last in rank (`NobodyLeft`).

  Its further hypotheses are about the configuration. `StopsWithOne`: a master starts
  and stops with one partner, first when that is locked, and is not reset.
  `PartnerAhead`: the partner is a master that waits for nothing and is described
  before. `StartsAlone`: a master or delay that awaits an activation awaits its own, and
  no termination. `AfterSenders`: what a master or delay follows is a described master
  or delay. TLC finds a counterexample with two partners, with a reset, with a partner
  described after (`engine_stall`), and for one that follows a checker or a profile that
  no file describes. That a master does not begin by awaiting UNLOCKED, that its partner
  waits for nothing, and `StartsAlone` serve the proof: TLC found none in small systems
  without them, and such systems are covered by no theorem. `MCEngine` has TLC confirm
  that the configurations of its runs meet the hypotheses, but for the order of partners
  in `engine_stall` (`TheoremsApply`).
- **`RegistryProofs`**: `TypeOK`, `CountsExact`, `ClonesApart` and `StreamsFresh`, for any
  profiles, files and number of clones. A stream is shown to be the least set that
  holds its root and is closed under who awaits whose termination (`ReachedIs`): the
  recursive function that gathers it grows until it stands still, and that it does so
  within as many steps as there are names is a count. From then on every argument is
  about closed sets. `Typed`: subscriptions and cached streams come from configured
  waits, and the count of unfinished profiles is their number. `Known`: an original is
  known once its file is loaded, a copy when its original is, only originals are ever
  merely declared. `Exact` is the count of the declared, `Copied` that a cached clone is
  the image of its root's stream. `StreamsFresh` is far from inductive (`Lasting`): a
  subscription is used up only by a termination (`Heard`), which a profile has only
  after those it follows (`Ended`), so that those terminated follow one another in no
  circle (`Ordered`) and a stream built later, from a root that has not terminated,
  misses nobody (`Intact`); who is active has its stream in the cache (`Roots`), and a
  clone has a copy of whoever follows its original (`Followed`).

  Two conditions are hypotheses. `Whole`, of `CountsExact`: if the manager is reset, no
  profile of a file names one of a later file; `reset` forgets the names and keeps their
  count. `Settled`, of `StreamsFresh`: no profile follows one of an earlier file, which is
  the disagreement `registry_cache` shows, and with several files no root follows another
  profile, since a clone of such a root is cached only by a later file, when terminations
  may have used up its subscriptions. With one file both hold. `MCRegistry` has
  TLC confirm that the configurations of `registry` meet them (`TheoremsApply`).
- **`SchedulingProofs`**, of the adapter: `AdapterTypeOK`, `InOrder` and `DoneIsDone`, for
  any masters, packets,
  memories, clocks and limits. `InOrder` alone is not inductive. `Account` says of each
  master where all the packets made so far are: the last of them in its buffer, one after
  the other, the refused one before those, and none but the others out or in the routing
  table; by address and command the table has as many entries as there are requests out,
  whichever entries answers have used up (`AnswerFound`); and no more is buffered or out
  than is outstanding, no less if nothing was suppressed. `Served` is one round over a port
  that takes packets until it refuses one, dropping what is not in memory. `DoneIsDone`
  follows from the account when nothing is outstanding, since a manager that announces
  nothing has made every packet of a master below its limit (`EngineGoesOn`). `AdapterTypeOK`
  needs that an update announced in units of time is not due before the present tick,
  though both conversions round down (`NotBefore`). On the way `Typed` shows that
  `nextAtpTime` never keeps what the manager announced: every update ends in a
  `scheduleUpdate` that resets it, or is told 0.

Every proof module but the last of `Engine` stands on its own. `EngineProofs` begins with what concatenation,
flattening and ordered enumeration return and when all of a sequence is in line
(`Follows`). That a recursive function over 0..N is what its equation says is `Recursion`
there, in `FifoProofs` and in `RegistryProofs`.

Only model-checked: liveness (`LoopDrains`, `StreamEnds`, `LoopEnds`, `AllPlayed`,
`PlayReturns`); `ForecastExact` of the FIFO, but for `RetryAhead`, since it compares a
forecast with the state at a later call, which needs an account of all the rounding
between them.
Liveness under fairness is beyond the prover in any case.

## 5. Where code and documentation disagree

Each of the first four is a run that violates one property; `PROJECT.json` quotes the
lines.

1. `kronos.cc:122` — the loop hands out events late (`kronos_late`). `get` moves the
   cursor past empty buckets; an event scheduled later into one of them is overlooked by
   `next` as long as an event of the cursor's epoch lies ahead of it (`kronos.cc:145-161`).
   `kronos.hh` says that `next` returns the next scheduled time and `get` the events of
   the current time. Such an event is handed out at the time of the later one, or, when
   `next` comes to name it, at a clock that stays (`setTime` ignores a time in the past,
   `traffic_profile_manager.hh:720-724`). It is late and never lost (`TickDelivers`,
   `LoopDrains`).
2. `gem5/atp_device.cc:172` — the device decodes read-and-write as `0b10`; its own
   header, the manual and the driver use `0b11`, which ends the simulation
   (`device_both_ways`).
3. `traffic_profile_manager.cc:767` — `send` says that it repeats its walk until time
   advances or the manager locks, and walks once: a profile that is released by one
   polled after it is not asked again, and nothing is scheduled (`engine_stall`).
4. `traffic_profile_manager.cc:1477` — loading a further file says that it refreshes
   the cache of streams, and `getStream` keeps what it finds there: followers in a
   later file belong to no stream (`registry_cache`).

Seen while modelling, each excluded by a stated condition of a property:

- `fifo.cc:168` — an answer that overtakes an older, smaller request completes two
  outstanding entries and counts for one. `fifo.cc:246` — frequent updates never age
  the tracked data. `fifo.cc:438` — a partner's event before the first update activates
  a linked FIFO without recording it. `fifo.cc:435` — a FIFO frozen by a partner that
  then terminates stays frozen.
- `gem5/atp_device.cc:183` — a stream is not reset before it is played again: the
  second request is complete at once with no traffic.
- `packet_desc.cc:176` — a stride by number takes one address more than its number:
  `getAddress` counts the addresses after the first. `packet_desc.hh:101-102`,
  `tp_config.proto:82` and `autoRange` (`packet_desc.cc:351-356`), which makes room for
  the number itself, say otherwise; the proto also says that 0 is no limit, and then
  the code ends each stride at its first address. `LinearExact` is about strides by
  range; what a stride by number sends is modelled as the code does it.
- `packet_desc.cc:313` — a moved striding profile counts its strides from 0 and not
  from 1, and sends its first stride twice (`LinearExact` is about strides that were
  not moved; `test_atp.cc:914-919` describes a stride and then a jump).
- `gem5/profile_gen.cc:329` — with a tick that spans several units of time the next
  update may be due in the tick of the present one, again and again; the configurations
  of `adapter` have ticks of at most one unit.
- `traffic_profile_checker.cc:75` — a checker looks whether it is done when a packet is
  recorded; one whose master ends by its frame time, with no packet to come, does not
  terminate, nor does a stream of which it is a leaf.
- `gem5/profile_gen.cc:155` — there is no counterpart to `drain`: after a drain no
  update is scheduled. `AllPlayed` is about simulations that are not drained.

## 6. Abstractions

- Times are integers; rates and periods are exact rationals. The code's doubles
  are represented by the fraction of a byte it rounds to
  (`errorCorrectionPrecision`), so rounding is modelled and floating-point error
  below it is not. Addresses stay far below 2^64.
- Packets of size zero are left out. A FIFO is reset only with no request
  unanswered (the manager resets terminated streams).
- A FIFO's own broadcasts change nothing in it; a partner FIFO hears them
  (`PartnerEvent`). In `Engine` a FIFO is a choice to grant or refuse, which includes
  all that a linked FIFO does.
- In `Engine`, listeners of one event hear it in the order of their identifiers (the
  code's set), and the events of a terminated profile are dropped in any order.
- A master's refused packet, kept in the code for the next attempt, is drawn anew; what
  is sent is the same.
- In `Adapter` each master has one profile, which sends what it may once a period; a
  port's patience, and the memory's order and delay, are arbitrary.
- In `Streams` a root's stream is a sequence of profiles whose order of sending is any.
- Statistics, logging, tracing and tagging are left out.
- A buffer (base and range) and a task are named by the request they are for;
  bus sizes and address errors, the IOMMU identifiers and the mapping of buffers
  are left out, except that mapping may fail.
- A play request belongs to one process and is a record of that process. The
  sections under `play_requests_lock` touch no other lock and no register: each
  is one step. A process plays only streams it was told of. What the handler
  writes to a request that has been freed meanwhile changes no other request: its
  effect on reused memory is not modelled.
- `MaxPlays <= IdSpace`: no request lives as long as it takes 2^32 others to come.

## 7. What is not modelled, and the plan

Every component of the engine's own logic has a module. Not modelled:

- of the manager: units of time, the automatic configuration of Kronos (a division over
  configuration data), slaves found by address range or name (in `Routing` a choice);
- of masters and checkers: the pending packet; the FIFO of a checker, whose refusal ends
  the process;
- of the packet descriptor: random sizes and the alignment of addresses;
- of the adapter: checkpoints, the watchdog, atomic mode, `nextPacketTick`;
- of the driver: probe and removal, where the interrupt handler is registered before
  the registers are mapped; open and release of the device file; the identifiers of
  the IOMMU;
- the Linux buffer manager, a bump allocator behind one `ioctl`; statistics, logger,
  tagger, tracer, shell, examples and tests, on which no behaviour depends; the shapes
  of random distributions (their values are choices).

Planned: theorems about the rest of the FIFO (`ForecastExact`).
