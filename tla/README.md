# Verification of the ns-3 stadium simulation

The repository is ns-3.43, a discrete-event network simulator (`src/src/`), with
one program on top of it, `src/scratch/estadio.cc`, which simulates the Wi-Fi of
a stadium: a server, a router, towers (access points) on point-to-point links,
and fans, to each of whom a generator on the server sends UDP packets.  This
directory holds TLA+ models of the parts everything else rests on, the TLC runs
that check them on small instances, and theorems that TLAPS proves about them
for every value of their constants.

Contents: 1 the system; 2 what is hard in it; 3 modules and code; 4 runs;
5 bounds; 6 fairness; 7 proofs; 8 where code and documentation disagree;
9 what is not modelled; 10 plan; 11 using it.


## 1. The system

| part | state | operations | meets |
|---|---|---|---|
| **Sequential engine** `DefaultSimulatorImpl` | future event list, clock (time stamp and uid of the current event), uid counter, count of unscheduled events, stop flag, destroy events, queue of posted events with its mutex and flag | Schedule, ScheduleNow, ScheduleWithContext, ScheduleDestroy, Cancel, Remove, Stop, Run, Destroy, SetScheduler | every model, through callbacks; other threads, through ScheduleWithContext |
| **Event lists** `Scheduler`: list, map, heap, calendar (and priority queue) | the events, ordered by (time stamp, uid) | Insert, PeekNext, RemoveNext, Remove | the engines |
| **Real-time engine** `RealtimeSimulatorImpl` with `WallClockSynchronizer` | as the sequential engine, and the origin of the real time, the signal condition, the wait | the same, plus ScheduleRealtime*, Synchronize, Signal | reader threads of emulation devices |
| **Null-message engine** `NullMessageSimulatorImpl`, `RemoteChannelBundle`, MPI interface | per rank: event list, clock, safe time, a guarantee and a null-message event per neighbour | Run, SendPacket, ReceiveMessages, null messages, Stop | other ranks, through MPI |
| **Flow monitor** `FlowMonitor`, `Ipv4FlowProbe`, `Ipv4FlowClassifier` | statistics of each flow, packets believed to be on their way, packet numbers, three scheduled events | ReportFirstTx/Forwarding/LastRx/Drop, CheckForLostPackets, Start, Stop, ResetAllStats, SerializeToXml | IP layer of every node (trace callbacks), the program |
| **Stadium program** `estadio.cc` | generators, sampling event, totals printed and written | set-up, one start and one stop per generator, AmostraMetricas every second, final report | flow monitor, engine |
| **Traffic control** `TrafficControlLayer`, `QueueDisc`, `NetDeviceQueue`, `DynamicQueueLimits` | packets, the requeued packet, stopped flags, byte limits, wake-up events | Send, Run, Transmit, Requeue, Stop, Wake | IP layer, devices |
| **Links** `PointToPointNetDevice`, channel | READY or BUSY, transmission queue, packets on the wire | Send, TransmitStart, TransmitComplete, Receive | traffic control above, its peer |
| **Address resolution** `ArpCache`, `ArpL3Protocol` | an entry per address with waiting packets, one retry timer, delayed requests | Lookup, Receive, HandleWaitReplyTimeout, Flush, static entries | IP layer, devices |
| **Granted-window engine** `DistributedSimulatorImpl`, MPI interface | per rank: event list, clock, look-ahead, granted time, counts of messages sent and received | Run in rounds of `MPI_Allgather`, SendPacket, ReceiveMessages, Schedule, Stop | other ranks, through MPI |
| Wi-Fi, IPv4/UDP, TCP, routing protocols, LTE, ... | a stack each | | engine |

How they interact.  Inside one simulation there are no processes: a component
*schedules* a callback with a delay, and the engine calls it when the clock has
come to it.  There is one thread, except that emulation devices (tap,
file-descriptor) post events to the engine from reader threads; a distributed
simulation is one such program per rank, joined by messages.  The components
of one node call each other directly (IP hands a packet to ARP, ARP to traffic
control, that to the device); the flow monitor listens through trace
callbacks and never calls back.  The stadium program sets everything up before
`Simulator::Run`, is then called back by its own sampling event, and reads the
statistics after `Run` has returned.

`PROJECT.json` lists every component, those left out too, with the reason.


## 2. What is hard

What a test would hardly reach, and a model checker does; `PROJECT.json` gives
each at its line, with the properties that would catch it going wrong.

* *Sequential engine.*  `m_eventsWithContextEmpty` is read without the mutex that
  guards the queue.  A posted event gets its time and uid only when the main
  thread finds it.  An `EventId` may be kept for ever, and whether it is pending
  is decided without looking at the list.  Cancel, Remove, Stop, Run and Destroy
  may follow each other in any order, from inside handlers and destroy handlers.
  The uid is 32 bits wide.
* *Event lists.*  Removal from the middle of a heap; a calendar that files all its
  events anew while the scan stands at some day; changing from one kind of list
  to another in the middle of a run.
* *Real-time engine.*  Other threads insert events before, during and after the
  wait; three critical sections in a row rely on what the first one saw; a signal
  races with a time-out; `Run` may be called again.
* *Null messages.*  A guarantee is computed inside a handler that may still send
  and schedule; a rank that waits depends on a neighbour that may have stopped;
  each packet restarts the timer of the null messages.
* *Granted windows.*  Ranks whose look-aheads differ synchronize in rounds; messages may
  still be on their way when all are in the Allgather, and arrive in any order; a
  rank that is finished must go on taking part, until all find in the same round
  that the simulation has ended.
* *Flow monitor.*  A packet may be given up, and be dropped, forwarded or received
  afterwards; four callers check for losses; radios lose packets without a word.
* *Stadium.*  Starts folded by an `fmod`, with starts and stops scheduled
  independently; a chain of samples each of which decides whether there will be
  another; two final reports, each of which triggers a check of its own.
* *Traffic control and links.*  A queue is stopped for two reasons, which end
  separately; its wake-up is an event of its own; a Run ends by quota as well as
  by want of packets; a packet taken out for a stopped queue is put aside; a byte
  limit that is stale keeps the queue shut.  A queue stays open for a packet of MTU
  size, and is handed packets that the header of the link has made larger.
* *Address resolution.*  One timer for all entries, started for the first; an
  entry must not expire while the timer has yet to reach it; replies come late,
  twice or never; entries are deleted or made static under waiting packets.


## 3. Modules and code

```
EventKey <- Scheduler            keys of events; contract of the event list
   ^
   +-- DefaultSimulatorImpl      implements Scheduler's contract as its caller
   +-- RealtimeSimulatorImpl
   +-- Distributed              what the two distributed engines have in common
   |      ^
   |      +-- NullMessage
   |      +-- GrantedTimeWindow
   +-- ListScheduler, MapScheduler, HeapScheduler, CalendarScheduler
          ^
          +-- EventLists         implements it as the data structure, any of the four
FlowMonitor <- Estadio           Estadio implements FlowMonitor's specification
QueueDisc <- PointToPoint        PointToPoint implements QueueDisc's specification
ArpCache
```

`*Proofs` modules hold theorems; `MC*` modules add what TLC alone needs.

**EventKey, Scheduler** (`core/model/scheduler.h`).  The abstract specification
of the event list, written for both sides: the engine promises never to insert
behind the event it took last and never to reuse a listed uid, the data structure
that RemoveNext returns the earliest event.  The engine implements it with
`list` the keys of `m_events` and `last` its current key; heap and calendar with
`list` what is in their arrays.

**DefaultSimulatorImpl** (`core/model/default-simulator-impl.cc`).  Two kinds of
processes.  The *main thread* is a program counter `pc` over the steps of `Run`,
`ProcessOneEvent`, `ProcessEventsWithContext` and `Destroy`; a step ends wherever
another thread can interfere (the unlocked look at the flag, the acquiring and
the releasing of the mutex) or the program is called (handlers).  In program
code (`pc` = user, handler, destroyHandler) any operation may be called on any
EventId that was ever given out.  Each *other thread* posts in three steps:
begin, push under the mutex (the flag is set after the push), release.  `fate`,
`revoked` and `posted` are history variables.  What nobody can
interrupt is one action: ProcessOneEvent takes an event out, moves the clock and
calls the handler, Dispose frees everything that is left.

| action | code |
|---|---|
| Schedule, ScheduleWithContext, ScheduleDestroy, Cancel, RemoveListed, RemoveDestroy, Stop | the operations of the same names (Remove has two branches) |
| PostBegins, PostPush, PostRelease | ScheduleWithContext on another thread |
| ReadFlag, SwapQueues, ReleaseQueue, InsertPosted, AllInserted | ProcessEventsWithContext |
| RunBegins, ResetStop, ProcessOneEvent, HandlerReturns, RunReturns | Run, ProcessOneEvent |
| DestroyBegins, DestroyNext, DestroyHandlerReturns, DisposeBegins, Dispose | Simulator::Destroy: Destroy, then DoDispose |

**ListScheduler, MapScheduler, HeapScheduler, CalendarScheduler, EventLists**
(`core/model/*-scheduler.cc`, `DefaultSimulatorImpl::SetScheduler`).  Each list is
a module of pure operators on its data (a sequence, a set, the heap's array, the
calendar's record of buckets).  EventLists is the object behind `m_events`: its
state is the kind and the data, its actions are Insert, RemoveNext, Remove and
SetScheduler, which moves every event from one kind to another.  The environment
keeps the engine's side of the contract.  The loops of the code (percolating,
sampling, filing anew, moving) are recursive functions over the number of rounds.

**RealtimeSimulatorImpl** (`core/model/realtime-simulator-impl.cc`,
`wall-clock-synchronizer.cc`).  Each block under `m_mutex` is one step, and so is
each step of the wait: SynchronizeClears (SetCondition(false)), Synchronize (the
choice of sleeping or spinning), SleepWait, MeasureDrift, SpinWait.  The wall
clock moves on its own (Tick) between any two of them.  OtherThread inserts
directly, under the mutex, and signals.

| action | code |
|---|---|
| RunBegins, SetOrigin, SeesEvent, SeesEmptyList, LoopEnds, RunEnds | Run |
| ProcessLateEvent, ProcessOneEvent, RemoveNext, HandlerEnds | ProcessOneEvent: its first block (event already due, or wait), its last block, the handler with the hard-limit test |
| SynchronizeClears ... SpinWait | Synchronize, DoSynchronize, SleepWait, DriftCorrect, SpinWait |
| Post, PostRealtime | ScheduleWithContext and ScheduleRealtime* of another thread |

**FlowMonitor** (`flow-monitor/model/flow-monitor.cc`, `ipv4-flow-probe.cc`,
`ipv4-flow-classifier.cc`).  The monitor with its probes; the network between
them is the environment, a set of packets on their way, each of which may be
forwarded, delivered, dropped with a report or lost without one, and takes its
time.  An action on a packet is the whole chain: the trace callback of the probe,
the classifier, the report to the monitor.  `losses` counts, as history, how often
each packet was counted as lost.

**Estadio** (`scratch/estadio.cc`, and what `OnOffApplication` and
`Simulator::Stop` add to it).  EXTENDS FlowMonitor and conjoins to its actions
those of the program: start, stop and sending of each generator, the sampling
event, the end of the run, the report of main, the XML file.  Starting from
set-up being complete: `EstadioInit` is the state in which main calls
`Simulator::Run`.  The order of events of one instant is that of the engine (by
uid, the order of scheduling): BeforeStop, and the guards on the stop time, say
which of them still run.

**QueueDisc** (`traffic-control/model/queue-disc.cc`, `fifo-queue-disc.cc`,
`traffic-control-layer.cc`, `network/utils/net-device-queue-interface.*`,
`queue.h`).  The traffic control layer with one queue disc, or one for each
transmission queue, above a device of which nothing is assumed but that it takes
packets out of its queues.  `pc` says where the current event stands: between
events, in a Run (one step per packet), or between the two halves of a wake-up,
each of which may run the disc.

| action | code |
|---|---|
| Send | TrafficControlLayer::Send, QueueDisc::Enqueue, the start of Run |
| Transmit, Requeue, NoPacketToSend | Restart: DequeuePacket, then Transmit, with the device's enqueueing and RunGoesOn, what the loop of Run does next |
| Dequeue | Queue::DoDequeue, whose trace PacketDequeued schedules a wake-up |
| NotifyTransmittedBytes, Wake | the two halves of that wake-up |

**PointToPoint** (`point-to-point-net-device.cc`, `point-to-point-channel.cc`).
EXTENDS QueueDisc and puts a device below it: with one transmission queue the
point-to-point device and its wire, with more a device as free as before.
LinkSend joins QueueDisc's Transmit with Send of the device, TransmitComplete its
Dequeue with the next TransmitStart.  `QueueSpec`, the specification of QueueDisc, is
what it is checked to implement: the link asks for nothing that traffic control
does not grant to every device.

**Distributed** holds the constants of a divided network (ranks, and links between
them with their delays) and the records of an event list, for the next two.

**NullMessage** (`mpi/model/null-message-simulator-impl.cc`,
`null-message-mpi-interface.cc`, `remote-channel-bundle*.cc`).  Every rank is a
`pc` over the loop of Run; the handlers of a rank may send a packet over an idle
link of its own and schedule events.  SendPacket is PointToPointNetDevice::Send up
to the channel, then NullMessageMpiInterface::SendPacket with the guarantee of
the moment, then the restart of the null-message timer.  The messages between two
ranks are a queue, which MPI keeps in order.

| action | code |
|---|---|
| RunHandler, RunNullMessageEvent, RunStopOrCancelled | ProcessOneEvent, with what each kind of handler begins with |
| SendPacket, Schedule, HandlerReturns | what handlers of devices and applications do |
| ReceiveNonBlocking, NothingArrived, ReceiveBlocking | HandleArrivingMessages*, ReceiveMessages, CalculateSafeTime |

**GrantedTimeWindow** (`mpi/model/distributed-simulator-impl.cc`,
`granted-time-window-mpi-interface.cc`).  Every rank is a `pc` over one round of Run:
"loop" and "handler" within its window, "receive" for ReceiveMessages, "gather"
inside MPI_Allgather, "window" behind it, "done" when Run has returned.
`inTransit` is a set, because MPI_Testany looks at many requests and does not keep
the order; how much of it a rank receives before it enters the Allgather is left
open.  `m_pLBTS` is what the Allgather gave to all, each of which then
computes its own window from it.  The sums of the counts of all ranks are written
as the number of pairs of a rank and a message that it counted.

| action | code |
|---|---|
| RunHandler, RunStop, Schedule, SendPacket, HandlerReturns | ProcessOneEvent and what handlers call |
| WindowEnds, ReceiveMessage, EnterAllgather | the inner loop of Run ends; ReceiveMessages |
| Allgather, NewWindow | the collective operation; the window, or the end of Run |
| RunAgain | Run is called again on every rank |

**ArpCache** (`internet/model/arp-cache.cc`, `arp-l3-protocol.cc`, and what
`Ipv4L3Protocol` and `NeighborCacheHelper` do to the cache).  An entry has its
state, age, retries and waiting packets; all times are relative to now.

| action | code |
|---|---|
| LookupUnresolved, LookupWaiting, LookupKnown | ArpL3Protocol::Lookup, by what it finds |
| SendArpRequest, ReceiveReply | the delayed request; Receive |
| HandleWaitReplyTimeout | ArpCache::HandleWaitReplyTimeout |
| UpdateSeen, Flush, AddAutoGenerated, RemoveEntries | Ipv4L3Protocol::Receive; link up and down; the neighbour cache helper |


## 4. Runs

| run | module | question | states |
|---|---|---|---|
| `default` | DefaultSimulatorImpl | With two posting threads: is any event lost, run twice, or run after it was revoked (NoEventLost, RevokedNeverRuns)?  Does IsExpired tell the truth about every id (ExpiredExact)?  Are the counters right wherever they are tested (AccountingOK)?  May the unlocked flag hide a post (FlagHonest)?  Do posts take effect in order (PostingOrderKept)?  Is the event list used as its contract allows (SchedulerContract)?  Is every event, posted ones included, at some time run, skipped, removed or freed (EveryEventSettles)? | 127,426 |
| `event_lists` | EventLists | Does each of the four lists return the earliest event, lose none and double none, also across SetScheduler (SchedulerContract; a heap only until its first Remove)?  Is every event of a calendar filed under the present width, and none behind the scan (FiledAndInScan)? | 552,909 |
| `realtime` | RealtimeSimulatorImpl | Is an event overslept (NoSignalIsLost), run early (NeverEarly), inserted in the past (NeverInPast), or missing where the code relies on one (EventToRun)?  Is every event run when its time has come (DueEventsRun)? | 278,436 |
| `estadio_safety` | Estadio with FlowMonitor | Do the books of every flow balance (BooksBalance)?  Are losses found in time (LossDetectedInTime)?  Is the mean delay possible (DelayWithinDuration)?  Is every fan served, and silent at the end (EveryFanServed, GeneratorsStop)?  Is there a line for each second (LineEverySecond), and do the reports agree (ReportsAgree)? | 1,875,824 |
| `link` | PointToPoint with QueueDisc | Is a packet that is not above the MTU handed to a queue without room for it (NeverDiscards)?  Is a packet stranded in a queue disc that no wake-up will run (NoneStranded), overtaken (OrderKept), or left waiting above an idle link (WorkConserving)?  Does the link do only what traffic control grants a device (QueueSpec)?  Does every packet leave (EveryPacketLeaves)? | 209,116 |
| `null_message` | NullMessage | Does a packet arrive in the past of its rank (NeverInPast)?  Is a guarantee broken or taken back (GuaranteeKept)?  Does every rank come to its Stop, although its neighbour falls silent (EveryRankStops)? | 203,345 |
| `granted_windows` | GrantedTimeWindow | Does a packet arrive in the past of its rank, whatever MPI delays and reorders (NeverInPast)?  May a rank leave Run while another will enter a further Allgather, or while a packet is on its way (LeaveTogether)?  Do all of them leave (EveryRankFinishes)? | 303,000 |
| `arp` | ArpCache | Is there always a timer for the entries that wait, early enough (WaitIsTimed)?  Is an address given up after the right number of retries, neither sooner nor later than they take (GivenUpInTime)?  Does every packet that waits get sent or dropped (EveryPacketSettles)? | 306,899 |

The runs `realtime`, `null_message` and `arp` also check the type invariant, which there
says more than types.  Those of the sequential engine, of the link, of the flow monitor
and of the granted windows are only proved (section 7); that of a data structure would
say no more than the properties above.

Each property is shown to have teeth by a mutant of the model: a dropped guard, an
off-by-one, a forgotten counter or a swapped order in one definition, with which TLC
finds it violated in the same run.  The mutants are the definitions marked so in the modules.

Four runs find a violation, of what a comment, an assertion or a document of the
repository says: `default_uid_wrap`, `heap_remove_order`, `realtime_run_again`
and `flow_lost_twice`; see section 8.  What else the code does against its
documents, no passing property may assert either, and those concerned name the case
they except: NeverDiscards a packet above the MTU in a queue that counts bytes, NoneStranded,
WorkConserving and EveryPacketLeaves a queue disc that was left behind (`LeftBehind`)
and a queue shut by a packet larger than itself (`ShutBy`).

Deadlock is checked in the sequential engine, which must never be stuck before it
is disposed of (Disposed is its only end), in the event lists and in ArpCache,
where time can always go on.  Elsewhere the model really ends: the
program has returned from main, the wall clock stands at its bound, every rank
has stopped, the packets of the instance are sent.


## 5. Bounds

* *Sequential engine*: 2 events, 2 posting threads, delays 0, 1 and 2.  Its hazards
  are between two events, of which one is posted or revoked, at equal or different
  times, and between two threads.  The uid modulus 6 is `VALID + Cardinality(Events)`:
  the second event gets the last uid before the counter wraps.  `default_uid_wrap`
  has 3 events with the modulus 6, and the third event gets uid 0.
* *Event lists*: 6 events at times 1, 2, 5, 11.  A calendar starts with 2 buckets, grows
  to 4 at the 5th event, and shrinks back to 2 and to 1 as it empties.  The gaps
  between the times make widths of 1 and more, several events of one day, events
  of the same bucket in different years, and years without an event, after which
  the direct search is needed.  `heap_remove_order` has 7 events, the smallest number
  with which a removal in one subtree can bring up an element of the other.
* *Real-time engine*: 2 events, 2 runs, a clock from 3 to 7 (the
  origin is then not 0), delays 0 and 2, so that an event may come before the one
  waited for, a jiffy of 1 with 1 (not 3) left to spin, an idle delay of 3 and a
  hard limit of 1.  Both modes of synchronization and both values of the
  uninitialized condition are initial states.  Its safety is proved for any number
  of events.
* *Stadium*: times in centiseconds, a clock in steps of 25, two fans (the first,
  and number 250, whose start is folded), at most 2 packets in total, one router,
  MaxPerHopDelay 1.25 s instead of 10 s, with a check every second
  as in the code, simulation times 3.5, 3.75 and 4 s.  The shorter
  MaxPerHopDelay makes a loss happen and be found within the run; it is no
  multiple of the check interval, as the general case has it.  Two packets, of one
  flow or two, are what the sums of delays and the number of each flow can tell
  apart.  `PromptNetwork` confines `estadio_safety` to networks that show every
  packet to some probe within MaxPerHopDelay or lose it: without that the code
  does lose count, see `flow_lost_twice`.
* *Traffic control and link*: one transmission queue (the link) or two, with one
  queue disc for both or one each; 4 packets, of a size below the MTU of 2
  and of one above it (the header of the link comes on top of the MTU); a queue disc for 3, so that it
  overflows; device queues of 1 and 2 packets, of 2 and 4 bytes; a quota of 2
  instead of 64, which 3 waiting packets exceed; queue limits absent, or moving
  between 0, which shuts the queue at once, and 3.
* *Null messages*: two ranks joined by two channels of delays 3 and 2, so that the
  look-ahead of the bundle is that of the shorter and a packet may be overtaken by a
  guarantee of the longer; a program of one event at time 1 on each rank, StopTime 5, which is two
  look-aheads on; 2 packets and 1 event scheduled by handlers.
* *Granted windows*: three ranks in a row, with links of delay 1 between the first two
  and 3 between the last two: the look-ahead of the third is larger than that of the
  others, so that a window may end at three different distances, and the
  rank in the middle can be reached from both sides.  One event each at time 0; a rank
  is stopped at 3, inside a window, or never; 2 calls of SendPacket or Schedule
  in all, which is what it takes to make a message wait for another and a
  handler run because of one; 2 runs, the second with what the first left over.
* *Address resolution*: 2 addresses, whose waits overlap; 2 retries, timeouts of 2
  (reply, dead) and 3 (alive), a jitter of 0 or 1; a queue of 2 with 4 packets, so
  that it overflows; one change by link or helper.  Ages stop counting just
  above the longest timeout, where nothing depends on them any more.

The numbers named Max..., Epoch and UidModulus, and the sets of delays, sizes and
times, are all the bounds there are; the modules say at their declaration which of them
bound the model only.


## 6. Fairness

* `DefaultSimulatorImpl!Fairness`: weak fairness of the main thread's steps and of
  every step a posting thread has begun, because threads that are not blocked are
  scheduled; strong fairness of DestroyBegins, because the program ends in
  `Simulator::Destroy` (`Simulator` deletes the engine there), but may call `Run`
  any number of times before.  Nothing makes a thread post, or a handler schedule.
* `RealtimeSimulatorImpl!FairSpec`: weak fairness of the engine's steps and of the
  clock.  That handlers return is part of the former.  The clock stops at its bound,
  so the property speaks of events whose time comes before.
* `PointToPoint!Fairness`: events that are scheduled run (the steps of a wake-up or a
  Run, TransmitComplete, Receive), which is what the engine does as long as the
  simulation goes on, and a device with several queues serves each of them.  Nothing
  makes anybody send.
* `NullMessage!Fairness`: each rank goes on with its Run, a message sent is received
  by a rank that waits for it, and handlers return.  Nothing makes handlers send.
* `GrantedTimeWindow!Fairness`: as long as some rank can go on, one does, and a message
  is received by ranks that ask for messages again and again.  The first is less than
  fairness for each rank, and is enough because a round ends only with all of
  them; the second is the progress that MPI promises.  Nothing makes handlers
  send or schedule, but they return.
* `ArpCache!FairSpec`: events that are due run, and time goes on.  Nothing is assumed of
  the network, which need not answer.


## 7. Proofs

All are checked by TLAPS, for every value of the constants that satisfies the
assumptions named in the modules, which only say of what kind the constants are
(and that EstadioAssumption's options get the program as far as its event loop, and
that the channels of a divided network are two-way and have a delay).

**DefaultSimulatorImplProofs**
* `TypeCorrect`.  The inductive invariant `TypeInv` adds to TypeOK that a thread on
  its way to the mutex has an event to post; without it PostPush could append
  something that is no post.
* `KeysIncreaseCorrect`, `ExpiredExactCorrect`, `SchedulerContractCorrect`.
  ExpiredExact is not inductive: that an unexpired id is listed depends on the
  list being strictly ahead of the clock, with uids below the counter and no two
  the same.  `KeyInv` says this of the list (`ListOrdered`) and relates each id to
  it (`IdsKnown`).  All three assume `[]NoWrap`, that the uid counter does not
  come to its end: `default_uid_wrap` shows that they fail without it.  So do the next
  four theorems, which rest on KeyInv.
  SchedulerContractCorrect is a refinement: each action maps to Insert,
  RemoveNext, Remove, Clear or a stutter.
* `FlagHonestCorrect`.  `QueueInv` adds to FlagHonest who holds the mutex when
  (`MutexInv`), so that two holders never work on the queue at once, and that the
  shared queue stays empty while the main thread, having swapped it, still holds
  the mutex.  No assumption on the uid.
* `NoEventLostCorrect`.  `PlaceInv` counts how often an event is in each of five
  places: the hands of a thread on its way to the mutex, the shared queue, the
  swapped one, the event list, the destroy events.  A pending event is in one of
  them, once (`Placed`), any other in none.  What is counted is finite, and
  the swapped queue is empty when the main thread swaps (`Handed`), so that no
  event falls out of it.  Of the program, `EventsAssumption` only asks that the
  null pointer is no event.
* `AccountingCorrect`: m_unscheduledEvents follows the cardinality of the list through
  every insertion and removal, by PlaceInv of events that are all different.
* `RevokedNeverRunsCorrect`: an action property.  `IdsFate`: an id the program
  holds finds its event in a list while the event is pending; so what Cancel and Remove
  leave unrevoked is over already.  `RevokedInv`: a revoked event is cancelled
  or is no longer pending.
* `PostingOrderCorrect`.  `QueueIsPosted`: the history of the posts ends with the
  swapped queue and the shared one, in this order, so that all before it is inserted.
  `Filed`: an inserted event is listed while it is pending, no later than its delay
  from now, so that a post inserted later with no smaller delay gets a larger key
  (`Ordered`).

**EventListsProofs**
* `FiledAndInScanCorrect`, `SchedulerContractCorrect`: for any time stamps, any number of
  events and any exchange of one list for another.  Only EventListsAssumption is used.
* The loops: `Loop` says that a recursive function over the rounds of a loop exists and
  that its states stay in given sets, one for each round, if every round leads from one to
  the next; `SameRuns` that there is only one such function.  Each loop of the code is then
  an invariant over its rounds.  The induction is on a set of rounds (`Upto`), not on a
  formula.
* Sorted list and map: `SortedAdded`, that an insertion before the first later event
  keeps a sequence of different keys ascending.
* Calendar: `CalOK` says that the scan begins on the day of the last event taken, and
  that every bucket is sorted and holds only events of its days, none before that event.
  An event that is due on its day of the year ahead is then the earliest of all; if
  none is, the earliest of the first events is.  `CalFull` adds the number of events.
  A calendar of any size and width that is filed anew with the same events is CalFull
  again, so that what the samples say about the width matters only as far as it is
  positive.
* Heap: `RisesIn` and `SinksIn` say that a heap is in order but for the one event that is
  being percolated, which alone may precede its parent or be preceded by its children;
  and that those around it are in order without it.  The rounds of BottomUp and TopDown
  move the place, and enough of them end it.  A heap after a Remove keeps its events
  (`HeapGood`) but is not `Ordered`.
* SetScheduler: `Moving`, that every event is in the old list or in the new one, the
  new list in order and its calendar still at time 0, and one event fewer in the old one
  each round.  It holds for an old heap out of order as well.
* `Kept`, the inductive invariant: the list is as its implementation wants it (`Good`,
  and `Tidy` for the heap before a Remove), its uids are different and below the counter
  (`Held`), a calendar does not stand beyond the last event (`From`), and the last event is
  not listed any more (`LastGone`).

**RealtimeSimulatorImplProofs**
* `TypeCorrect`: above all, that the differences of times the code computes in
  unsigned integers never become negative.
* `NoSignalIsLostCorrect`: inductive with the types.  An insertion signals in the
  same critical section, and the only step that clears the signal is followed by a
  new look at the list.
* `NeverEarlyCorrect`, `EventToRunCorrect`: `WaitsForEvent` carries from one
  critical section to the next that the list is not empty, that some listed event
  is due when the wait is to end, and that one is due once it has ended.
* `NeverInPastCorrect`: `ClockAhead`, that the simulation time does not pass the
  real time of the first Run.

**EstadioProofs**, of the flow monitor with any caller (`Spec`), then of the program
* `TypeCorrect`: `MonitorInv` adds that no packet was seen in the future and that
  finitely many are tracked.
* `LossDetectedInTimeCorrect`: `CheckComes`, that at every moment the next check is
  at most an interval away and that what the last one kept was not overdue then.
* `EstadioImplementsMonitor`: `EstadioSpec => Spec`, so that every theorem on the
  monitor holds of the program (`EstadioLossDetected`).
* `EveryFanServedCorrect`, `GeneratorsStopCorrect`: assume that every simulation
  time is above 3 s.  `Schedule` says that no start and no stop is passed over by the
  clock, and that whatever has started has its stop still to come; `InicioBounds` is the
  arithmetic of the fold.  Below 3 s GeneratorsStop fails: see section 8.
* `LineEverySecondCorrect`: `Sampled`, that the next sample is the second after the
  last line, and that they stop only where the next would be too late.
* `ReportsAgreeCorrect`: after a check nothing is overdue, so that a second
  one at the same time changes nothing (`Reported`).
* `DelayWithinDurationCorrect`: `DelaysBounded` says of every flow that no packet still
  tracked was seen before the first one of the flow was sent, and that the sum of
  the delays is at most the number received times the duration; each packet
  received adds no more than the duration has become (`OneMoreDelay`).  It holds of the
  program, not of the monitor: after a ResetAllStats, which the program never
  calls, a packet that was tracked before it is received with a first transmission
  that the flow no longer knows, and TLC finds the delay beyond the duration.
* `BooksBalanceCorrect`: assumes PromptNetwork.  `OnBooks` says that every
  packet in the network that was sent while the monitor was listening is still
  tracked, and was seen when it last moved; hence none of them is overdue, and a
  drop is of a tracked packet.  `Listening` adds that the monitor is enabled before
  the first packet.

**PointToPointProofs**
* `QueueTypeCorrect`, `NeverDiscardsCorrect`, `NoneStrandedCorrect`: of the queue
  discs above *any* device that uses the operations of the module (`QueueSpec`).
  `Room` says that a queue its device has not stopped has room for one more packet of
  the MTU, which is what QueueDisc relies on when it dequeues without a look.  A queue
  that is stopped for the packet of MTU size discards nothing smaller, and a queue
  that counts packets nothing at all.  NoneStranded takes two arguments.  `Home` and
  `Served`: a disc that does not run, has not used up its quota and holds packets has
  a queue that is stopped; for a queue that is woken up runs its disc.  One that used
  it up has a stopped queue or is LeftBehind.  `Counted` and `Waking`: every stopped
  queue has its wake-up to come, for both reasons of stopping.  `Waking`, when the
  device stopped it: something is in the queue and will schedule the wake-up as it
  leaves, or has left, or a packet larger than the queue shut it.  `Counted`, when its
  limits did: the bytes that are uncompleted are those of the packets in the queue and
  of the wake-ups that have yet to report theirs, so that a queue stopped by its
  limits has one or the other.  `SumsTo` gives a sequence with the sums of its
  suffixes, of what concerns one queue, in place of a recursive sum.  What changes one
  queue is said once for every operation (`QueueEffects`).
* `InOrderKept` is the part of the order that concerns the queue discs: `InOrder` says
  that the packets of a queue, the one requeued, and those of the disc are ascending, and
  that each of these stands before the next.  The requeued packet is alone, which is why
  putting it back in front does not reorder.
* `ImplementsQueueSpec`: each step of device and channel is a step of the queue
  discs or leaves them alone (`StepImplements`), so that what is proved of them
  holds on the link (`LinkKeepsPackets`).
* `TypeCorrect`, `ReadyIsEmptyCorrect`: a device that is ready has nothing queued,
  because TransmitComplete becomes ready only when it found its queue empty.
* `OrderKeptCorrect`: `SentInOrder` carries InOrder on to the wire and to the
  last packet received.
* `WorkConservingCorrect`.  The device's half is ReadyIsEmpty.  The queue discs' half
  is that a stopped queue has its wake-up to come (Counted, Waking), so that above an
  idle link without any the queue is open or shut for good.  `FilledUp` is what makes the quota
  harmless where a queue without limits counts packets: room comes one packet at a
  time, so that a Run that uses up its quota has filled the queue.

**ArpCacheProofs**
* `TypeCorrect`, `WaitIsTimedCorrect`, `GivenUpInTimeCorrect`.  `Sound` says what an
  entry in each state may hold: only one that waits has been retried, one that is
  dead or alive holds nothing.  `Timed` relates three clocks, which none of the
  properties does alone: the timer of the cache is pending while an entry waits, it
  ends before the entry's own wait does, and the time the entry has waited since it
  began, with what the timer has left, lies between its retries and one more, times
  the timeout.  `Booked` says that every pending packet is in one entry.

**NullMessageProofs**
* `TypeCorrect`, `NeverInPastCorrect`, `GuaranteeKeptCorrect` assume FlowControl:
  section 8 says what happens without it.  They hold for any number of ranks and any
  links between them, as long as the ranks are finitely many and none is isolated
  (GetSafeTime would be the least of nothing).  The invariant speaks of each pair of
  neighbours.  `Local`: the events of a rank are not before its time, which is not
  beyond its safe time; Stop is listed until it has run, and so is one null message
  for each neighbour.  `Kept`: guarantees, the one taken and those in transit, do not
  decrease, and no packet is due before one that went ahead of it.  `Heeded`: the
  safe time is within what the neighbour guaranteed.  `Promise` is what makes a
  new guarantee no less than the old ones: each reaches no further than the delay of
  the bundle beyond whatever may still make the rank send, that is its events, packets
  that arrive after its safe time, and the handler that runs now.  A handler sends
  at the present time; flow control puts an event of the present time into the list
  first, and so the guarantee computed from the list is no later than what the handler
  may send next.

**GrantedTimeWindowProofs**
* `NeverInPastCorrect` and `LeaveTogetherCorrect` hold for any number of ranks, any links
  between them whose delay is positive, any stop times, and any delay and order of
  messages.  `MessagesCounted`: what all ranks have sent is what all have received, and
  what is on its way; so that equal totals, gathered when nobody can send, mean that
  nothing is on its way, and that this stays so until a rank has entered its window.
* `Horizon`: there is a time S before which nothing will happen any more on a rank that
  still runs, every message on its way is due at S and the look-ahead of its
  receiver or later (`Above`), and no rank has come, or may come, farther than S and its
  own look-ahead (`Within`).  S is not the same for long: when windows are
  granted it becomes the least of the times gathered, but the ranks take their new windows
  one by one, and those that have may send while others have not.  `NextHorizon`
  says that the new time is a horizon from the Allgather on; the old one serves until
  the last rank has moved.  The look-aheads differ from rank to rank, which is why
  Above and Within speak of the receiver: that a link leads back with the same delay
  is what bounds its look-ahead by the delay of what it is sent.
* `Stopping`: a rank that was stopped stands at its stop time.  It is needed where Run
  is called again: the next horizon is then the stop time, provided that it is common.
* `LeavingTogether`: once one rank has found the end, the totals agree and all are
  finished; none runs a handler, and so none sends.

**Model-checked only.**  Liveness (EveryEventSettles, DueEventsRun,
EveryPacketLeaves, EveryRankStops, EveryRankFinishes, EveryPacketSettles), which is out
of the prover's reach under fairness.  Every invariant, action property and refinement
of the passing runs is stated by a theorem.  Which width a calendar chooses is
checked only for being positive, here and by TLC: it concerns the speed alone.

## 8. Where code and documentation disagree

Shown by a run:

| run | what |
|---|---|
| `default_uid_wrap` | `m_uid` wraps at 2^32 (default-simulator-impl.cc:225): a pending event is then taken for an expired one, and Cancel and Remove ignore it; event-id.h:32 calls ids unique. |
| `heap_remove_order` | HeapScheduler::Remove (heap-scheduler.cc:228) percolates the element that takes the place of the removed one down, never up: RemoveNext may then return a later event than it should. |
| `realtime_run_again` | DoSetOrigin (wall-clock-synchronizer.cc:103) ignores the simulation time: in a second Run other threads insert events in the past, which realtime-simulator-impl.cc:552-553 asserts cannot be. |
| `flow_lost_twice` | ReportDrop (flow-monitor.cc:291) counts a packet again that was already given up, so that more can be lost than was sent. |

Seen while modelling, and modelled as the code has it, without a run:

* With a simulation time (`--tempo`) below 3 s the divisor of the fold (estadio.cc:403)
  is negative, which yields starts after the stop, and generators that send until the end:
  with `--tempo=2` that of the 76th fan starts at 1.75 s, after its stop at 1.5 s;
  estadio-configuracao.txt:237-238 says otherwise.  At 3 s it is zero, and fmod is
  not a number.
* DistributedSimulatorImpl runs again from where each rank stands: if the ranks were
  stopped at different times, a packet of one that stands behind may come into the past
  of one that stands ahead, against the assertion at distributed-simulator-impl.cc:303.
  NeverInPast excepts this by name.
* `Stop(delay)` schedules an event whose handler is Stop
  (default-simulator-impl.cc:205), so that events of the stop time that were
  scheduled before it still run; simulator.h:155-157 says Run returns when the next
  event is not earlier than the stop time.
* Remove of a destroy event takes it out of its list; simulator.h:388-389 says
  that this is impossible and ends in a crash.
* SleepWait returns the opposite of what wall-clock-synchronizer.h:109-110 says
  (wall-clock-synchronizer.cc:327).  The loop in ProcessOneEvent makes up for it.
* On an empty list the real-time Run waits without clearing the condition
  (realtime-simulator-impl.cc:452-453): once signalled, the wait becomes a poll.
* Run may return with a posted event still in the shared queue
  (default-simulator-impl.cc:184; compare simulator.h:131-133): it tests only the list,
  after a last look at the queue (136).  The next Run finds the event, or DoDispose, without
  which it would neither run nor be freed (EveryEventSettles).
* The real-time Run sets m_running before the clock has its origin
  (realtime-simulator-impl.cc:422, used at 545-546): a thread that schedules in
  between stamps its event with the time since the epoch.
* ScheduleRealtimeWithContext does not set the context (compare simulator.h:464-468).
* PacketEnqueued keeps a device queue open that has room for a packet of the MTU
  (net-device-queue-interface.h:342), but a point-to-point packet is queued with 2
  bytes of PPP header (point-to-point-net-device.cc:522): a queue that counts bytes may be
  open and yet discard a full packet, which lines 378-382 call a bug.  If the queue is empty
  as it discards, which takes a packet larger than the whole queue, its stop (385) never
  ends, for no packet leaves it any more; 379-380 say "until there is room in the queue
  again".  A queue that holds something when it discards is woken again.
* A Run that has used up its quota leaves the rest of its packets to nobody
  (queue-disc.cc:946, where rescheduling is left to do; compare queue-discs.rst:52-58):
  unless a queue below is stopped, they wait for the next packet to be sent.  If one
  is, its wake-up runs the disc, which NoneStranded and EveryPacketLeaves say.
* CalculateGuaranteeTime looks at the listed events only
  (null-message-simulator-impl.cc:554), while the handler that sends may still
  schedule or send for the present time.  What saves it is that the device lists
  the wake-up of its queue, due now, first.  Without a queue interface
  (`FlowControl = FALSE`) the model breaks the guarantee and the assertion at 415-416.
* `SchedulerTune * delay` is cut to whole time steps: for a short enough delay it is
  0, and the null-message event repeats itself at one instant for ever.  Next() on an
  empty list is undefined, so that a null-message simulation needs a Stop event; and
  ranks that stop at different times leave their neighbours waiting for good.
* Flush deletes ARP entries with the packets that wait in them, without a drop trace;
  NeighborCacheHelper::AddEntry (neighbor-cache-helper.cc:359-366) makes an entry
  static and leaves the packets that wait in it there (compare ipv4.rst:110-118);
  the comment at arp-cache.cc:461-464 says that a new packet replaces the one waiting,
  while the code queues it.
* ResetAllStats keeps the tracked packets (flow-monitor.cc:531), which arrive afterwards
  as packets that were never sent; the ports of the stadium wrap beyond 56535 fans
  (estadio.cc:408), and a tower of more than 253 fans runs out of addresses (331).


## 9. What is not modelled, and why

`PROJECT.json` has the list with a reason each.  In short: the protocol stacks the
stadium does not use (LTE, WiMAX, mesh and ad-hoc routing, IPv6, TCP, ...), each of
which would need a project of its own and which are the bulk of the repository's
lines; numerical models (propagation, mobility, energy), which are not discrete;
helpers, file formats, scripts, build.  The Wi-Fi and IPv4 are *environment* of
FlowMonitor: their packets are forwarded, dropped, lost or delayed at will, which
contains what the real ones do.

Within the modelled parts, left out are: event contexts and the count of executed
events of the sequential engine, which nothing in it reads; destroy events
and the uid wrap of the real-time engine, both as in the sequential one; the
Reverse attribute of the calendar, and PriorityQueueScheduler, which leaves its work to the
standard library; byte counts, histograms and per-probe
statistics of the flow monitor, fragments, and packet numbers beyond 2^32; the
set-up of the stadium (addresses, positions), the lengths of the on and off
periods, and the quotients printed; queue disciplines other than FIFO (CoDel, FqCoDel,
RED, PIE, Cobalt), Peek, and the arithmetic of DynamicQueueLimits; the completion
and cancelling of MPI sends; Cancel, Remove, destroy events and SetScheduler of the
distributed engines, which are as in the sequential one, and a simulation of a
single rank; hardware addresses and malformed ARP packets.  Each
module's head says the same.


## 10. Plan

Done: the engines, the contract of the event list and its implementations, flow monitor
and stadium, traffic control and links, both distributed engines, ARP, with the theorems above.
Next would be the random early disciplines above the same device (FqCoDel is the default
of the traffic control helper), which need Peek and a clock.


## 11. Using it

    tlasany Estadio.tla                                 parse
    tlc -workers 2 -config MCEstadio.cfg Estadio        check
    tlapm EstadioProofs.tla                             prove

Each entry of "runs" in `PROJECT.json` names its module and configuration.  The
largest run, `event_lists`, takes less than two minutes on two cores; the proofs take
some minutes.
