# A TLA+ model of the Sniper simulator

The repository is the `common/` tree of the Sniper multi-core simulator: a parallel,
execution-driven simulator in which every simulated core is driven by a host thread
(the *user thread*) and serviced by a *network thread*. Two things in it are hard to
get right and hard to test. One is what the host threads do to each other: the coherence
protocol that runs through message queues between the cores, the locks and semaphores
that hold the cache hierarchy together, the global services that put simulated threads to
sleep, wake them up and keep their clocks close, and the schedulers that move threads
between cores. The other is the bookkeeping of the timing models: windows, queues and
tables that live through long sequences of events in an order nobody chose, and that
fail silently, with a wrong number.

## Inventory

| Part | State | Operations | Interaction | What makes it correct |
|---|---|---|---|---|
| Tag directory (`dram_directory_cntlr.cc`, `dram_directory_cache.cc`, `directory_schemes/`) | directory entries, request queues per line, replaced entries | one handler per message type, allocation and nullification of entries | messages to and from last-level caches and DRAM | one writer per line, entries cover all copies, no request is forgotten, the code's assertions hold |
| Cache controllers (`cache_cntlr.cc`) | line states and contents, queue of cores waiting for the directory, per-set locks | accesses of cores, replies and requests of the directory, evictions | user threads and the network thread hand the stack lock to each other | a woken core finds its line, replies meet the line state they expect, everybody who waits is served |
| Memory manager, messages, transport (`memory_manager.cc`, `shmem_msg.cc`, `smtransport.cc`) | one queue of packets per core | send, receive, dispatch | carries all protocol messages | order per receiver, buffers are alive when they are used |
| DRAM controller (`dram_cntlr.cc`, `dram_cntlr_interface.cc`) | contents of lines | read, write | answers the directory | the last store to a line is never lost |
| Thread manager (`thread_manager.cc`, `core/thread.h`) | status, reason of a stall and waiter of every simulated thread, one condition variable per host thread | create, start, exit, join, stall, resume, blocking system calls | runs the hooks of the barrier, is called by both servers below, owns the lock they all use | a thread runs if and only if the manager says so; no signal is lost |
| Synchronisation server (`sync_server.cc`) | owner and queue of mutexes, queues of condition variables and barriers | lock, try-lock, unlock, wait, signal, broadcast, barrier | stalls and resumes threads | hand-over without a gap, nobody is queued twice or dropped |
| System call server (`syscall_server.cc`) | futex queues with timeouts, sleeping threads | wait, wake, wake-op, compare-and-requeue, sleep, periodic wake-up | stalls and resumes threads, woken by the hook of the barrier | every timeout is kept, no waiter is lost when queues are merged |
| Clock barrier (`barrier_sync_server.cc`, `barrier_sync_client.cc`, `fastforward_performance_manager.cc`) | barrier time, clocks and cores in the barrier, cores still to be let go, mode | synchronize, release in portions, abort, switch of mode, advance of time when all threads sleep | called by cores and by the hooks of the thread manager; drives all timeouts | the skew is bounded, everybody who sleeps is known, the release ends, not everybody waits |
| Schedulers (`scheduler/`) | which thread is on which core, affinities, quanta | create, start, stall, resume, exit, yield, set affinity, periodic preemption | hooks of the thread manager and of the barrier; call back `moveThread()` | a core runs one thread, scheduler, manager and host threads agree, a runnable thread gets a core |
| Host primitives (`semaphore.cc`, `setlock.cc`, `selock.cc`, `cond.cc`) | counters and futex words | wait, signal, acquire, release, upgrade | block host threads | no lost wake-up, exclusion |
| Cache sets and replacement policies (`cache/`) | tags, recency state | access, insert, invalidate, victim selection | called under the locks of the cache controllers | the victim is the one the policy names, and never a line that is being upgraded |
| Levels of the hierarchy, DRAM cache (`cache_cntlr.cc`, `dram_cache.cc`) | state and contents of lines at every level, prefetch queue | loads, stores, instruction fetches, prefetches, back-invalidation | recursive calls from L1 to DRAM | inclusion, the last store is kept somewhere |
| Prefetchers, TLB, NUCA slice, ATD (`*prefetcher*`, `tlb.cc`, `nuca_cache.cc`, `cache_atd.cc`) | small tables | look-up, train, insert | called by the controllers and the directory | they answer from the history that is there |
| Core timing models (`performance_models/`, `branch_predictors/`) | reorder buffer, windows, clocks, predictor tables, a barrier between the hardware threads of a core | one step per micro-op or cycle | one user thread per core; with SMT the user threads take turns | no cycle is skipped in which something would happen, data flow is kept, one time per core, nobody waits in vain |
| Network and queue models (`network/`, `queue_model*`, `dram_perf_model*`, `contention_model.cc`) | busy times, packet queues, waiting receivers | route, send, pull, receive, delay of a request | used by the memory manager and the DRAM controller from many threads, out of time order | every packet arrives once, nothing serves two requests at once, no delay wraps around |
| Trace front end (`trace_manager.cc`, `trace_thread.cc`) | applications, their threads, the state of a trace | start, fork, end, restart, decode, count, change of mode | host threads of the traces, the scheduler, the mode of the simulator | the simulation ends, no instruction is counted twice, none is lost while its thread runs |
| Sampling (`sampling/`, `fastforward_performance_manager.cc`) | mode, intervals, call-backs of cores | periodic hook, enable and disable fast-forward, instruction call-backs | the clock barrier and the performance models | no core is left without a call-back, the clocks stay comparable |
| Scripting, statistics, tracers, configuration | files, reports | parsing, reporting | observe the rest | input and output |

The behaviours that are hard to test are the ones where two host threads meet: a
wake-up that comes before the sleep it should end, a message that crosses another one, a
lock that changes hands, a thread that stalls inside a hook of another thread's stall,
and the queue of a limit that is reached by accident. `PROJECT.json` lists them with
their lines under `hazards`.

## Modules and the code they model

`ShmemNetwork` holds what the coherence components share: message types, one in-order
inbox per node (the `SmTransport` queues), DRAM, and the ghost variable `latest`, the
version last written to a line. `DramDirectory` has one action per handler of
`DramDirectoryCntlr`, with the request queue of every line (`queue`), the entries of one
set of the directory cache (`dir`, `cached`), replaced entries that live on until they
are nullified (`replaced`), and `work`, the request the network thread is processing.
`LastLevelCache` has the line states and contents, `waiters` (`m_directory_waiters`) and
the phases of the wake-up loop of `handleMsgFromDramDirectory()`. `CoherentMemory`
composes the three; `MCCoherentMemory` gives TLC the topologies (a cache per core, or two
cores on one cache) and the symmetry. `Protocol` is MSI, MESI or MESIF, `MaxHwSharers`
the pointers of a `limited_no_broadcast` entry (at least the number of caches: full map),
`DirWays` the ways of the directory set. A handler that ends with
`processNextReqFromL2Cache()` or resumes a queued request leaves that request in `work`;
the steps that process it follow at once, since no other message is handled meanwhile.

`Semaphore` is `misc/semaphore.cc`: the critical sections of `wait()`, `signal()` and
`broadcast()` are steps, and so is the kernel's compare-and-sleep between two of them.
`ConditionVariable` is `misc/cond.cc`, whose futex word counts nobody, with the primitives
that share one between several threads: `misc/barrier.cc`, the inbox of a transport node
and `misc/mt_circular_queue.h`. An interrupted system call ends `wait()`, as it does in the code.

`SetLock` is `misc/setlock.cc` and the way `CacheCntlr` uses it: each step acquires or
releases one mutex, so `acquire_exclusive()`, `release_exclusive()` and `downgrade()` are
loops of steps. The program counters are the places of a user thread in
`processMemOpFromCore()` and of the network thread in `handleMsgFromDramDirectory()`.
`ReaderWriterLock` is the abstract lock with a shared and an exclusive mode, a downgrade
and a hand-over; `SetLock` maps its own state to it in `ImplementsLock`: who is between
its last acquisition and its first release holds the lock.

`ThreadManager` keeps `status`, `reason` and `waiter` as in `m_thread_state`, and `host`,
where each host thread is. Everything runs under `m_thread_lock`; `stallThread()` is
three steps, because hooks run in it and time may advance before it sleeps. `SyncServer`
and `SyscallServer` extend it with the operations of the two servers, each one step with
all the resumptions it makes. A timeout is the number of barrier quanta still to pass.
`Emulation` composes them with the passing of time: `Tick` is `HOOK_PERIODIC` when the
running cores reach the barrier, `Advance` the loop of `stallThread()` when nobody runs.
The application is arbitrary within the assertions of the code: it unlocks only what it
owns and no thread is joined twice.

`BarrierSyncServer` is the clock barrier. `local`, `acquired`, `toRelease` and `next` are
`m_local_clock_list`, `m_barrier_acquire_list`, `m_to_release` and `m_next_barrier_time`;
`place` is where the host thread of a core is. `m_next_sync_time` of the client is the
end of the quantum in which the core last synchronized, so `Due` finds it from the
clock before and after a step. `barrierRelease` is the whole function, with its loop, the
threads its hook resumes, and the portion of cores that is let go at once. What the loop
does when nobody is in the barrier is the value TRUE of `endless`.

`Scheduler` has the five schedulers and the part of `ThreadManager` they drive. A handler
runs under `m_thread_lock` and calls the manager, which calls back into the scheduler; so
what they share is one record, `sched`, and handlers are functions on it: `reschedule` is
all of `SchedulerPinnedBase::reschedule()` with the moves it makes. A host thread goes
through creation, start, execution, stalls and exit, and finds out about a move when it
calls `Thread::reschedule()`. `TraceManager` is the life of applications and of their host
threads, one step per critical section of `m_lock` and one per turn of the two loops that walk over `m_threads` without it:
`start()` spawns the first threads while those already spawned append to the vector, and `endApplication()` stops the
others, taking the lock for each of them only. An iterator taken before the vector moved, which it does when its length is
a power of two (the growth of libstdc++, after the appends of `init()`), points nowhere, and a thread may be spawned a second time;
either ends the behaviour (`trCrashed`). `TraceThread` is what one trace thread does with the
instructions it reads: the modes of the simulator and of the recorder, which change at
different times, decide what is counted, warmed up or simulated, and whether the thread sleeps in a system call and is on a
core decides whether a packet is processed, dropped (`handleCacheOnlyFunc()`) or fails an assertion. `Sampling` alternates
all cores between detailed simulation and fast-forward, with the call-backs of
`Core::countInstructions()` on which everything depends in fast-forward.

`RobTimer` and `RobSmtTimer` are the out-of-order models cycle by cycle, with the
dependence trackers, `RobContention` (ports, units and latencies of four core models) and
`ContentionModel` (load and store queues). Opcodes are reduced to the classes that the tables tell
apart. `SmtTimer` is the barrier in which the host threads of one SMT core take turns.
`IntervalTimer` is the interval model with its two windows. `PerformanceModel` is the
clock of a core and who may advance it. `BranchPredictors` has the tables of every
predictor `BranchPredictor::create()` can build, and branches that are steady, loop or are free.

`CacheSets` is one set under each replacement policy. `CacheHierarchy` is a core's access through every
level of a private or shared hierarchy down to DRAM, one step per access since the
locks of the stack are held, followed by the prefetches it queued. Of a line's contents it keeps whether they are
what was stored last. `QueueModel` and `DramPerfModel` compute delays on integer times
that wrap at `QmModulus`. `Network` is `network.cc` with its four models, one step per
hop, and the receivers that sleep in `netRecv()`; a packet that is forwarded and accepted, as in a broadcast tree, takes the
links of the forwarding before its ejection port. Core clocks are not part of it, so neither is the assertion in `netRecv()` on a packet
from the future. `Prefetchers` and `SideCaches` are the
three prefetchers, the TLBs, the NUCA slice and the auxiliary tag directories.

These components share no state with each other, or one is built instead of another. `MCThreads`,
`MCCoreModels`, `MCMemoryModels` and `MCSemaphore` therefore put several of them in one instance: the variable `part` says whose behaviour it is,
the others rest in an initial state. Nothing is lost by this and the state spaces add up instead of multiplying.

## Runs

| Run | Instance | Question and answer |
|---|---|---|
| `semaphore` | 4 threads, count at most 3; host barriers of 3 and 4 threads, an inbox with 3 senders, queues of 1 and 2 entries | No wake-up is lost between the test of the count and the sleep, and a unit does not stay available while a thread sleeps. Nobody passes the host barrier early or sleeps in it after all have come; the receiver and the ends of the queue do not sleep over something to do, also when their system calls are interrupted (`WaitersWoken`). |
| `coherence_mesif` | 3 private caches, MESIF, full map | One writer, no copy unknown to the directory, exact agreement when nothing is in flight, all assertions of the directory hold although the forwarder may leave while it is asked. |
| `coherence_shared_llc` | 2 caches, one of them shared by 2 cores, MESI | Every core that waits for the directory is served and finds its line. |
| `coherence_replacement` | 2 caches, 3 lines in a directory set of 2 ways, MSI, one sharer pointer | Taking the pointer from one reader for the next and replacing and nullifying entries, while requests for the old and the new line are in flight, keeps every assertion of the directory; with two cores an entry can always be found. |
| `set_lock` | 3 user threads and the network thread | The mutexes taken one by one implement the abstract lock, and nobody stays in it, in a hand-over or in the queue. |
| `emulation` | 3 threads, 1 mutex, 1 condition variable, a barrier of 2, 2 futexes, timeouts up to 1 quantum | Every stalled thread is in exactly one queue; host threads and manager agree; hand-overs keep the mutex owned and the barrier opens (`PrimitivesServed`); timeouts are kept. |
| `skew_barrier` | 4 cores, 1 host core, quantum 2, steps of 1 and 3 | Everybody who sleeps is known to the server, the barrier is not reached before all were let go, a release ends, the skew is bounded, not everybody waits, also while the barrier is switched off or the simulation goes to fast-forward. |
| `dirty_data_lost` | 2 caches, MESI, one store | **Violated**: data that a cache writes back for a reader is never written to DRAM, so it is gone when both copies are dropped. |
| `sleeper_forgotten` | 2 threads | **Violated**: when the last running thread exits or blocks in the host, sleeping threads are never resumed. |
| `threads` | `Scheduler`: 3 threads, 2 cores, each scheduler; `TraceManager`: 2 or 3 applications, forks up to 3, 1 thread created later, 2 that call `exit_group`; `TraceThread`: 4 instructions, 5 packets, 2 changes of mode; `Sampling`: 2 cores, 5 configurations | Manager, scheduler and host threads agree about who runs where (`MapsAgree`, `RunsWhereScheduled`); a runnable thread waits a bounded number of quanta for a core; the simulation ends as long as one thread at a time ends an application, and `start()` leaves no thread out, although both walk over a vector that grows; across mode changes no instruction of a trace is counted twice, and only those in cache-only packets of a thread that sleeps or has no core are lost (`BlocksAccounted`); addresses made up for different threads do not meet (`AddressesDistinct`); warm-up makes the accesses of detailed simulation, but for pairs and the write of an atomic update (`AccessesAgree`); in fast-forward every running core has its call-back and a sample begins with no core in the old mode. |
| `core_models` | every program of 3 or 4 micro-ops from nine kinds, on five ROB, two SMT and three interval configurations; 3 threads on 2 hardware threads; predictors with one set of one or two ways | The ROB models jump over no cycle in which a stage would have acted and no result is used before it is there (`RobSound`); a thread that the SMT issue stage passes over could not have issued (`SmtPassedOver`); the threads of an SMT core do not wait for each other in vain; old window, cycles and branch resolution of the interval model are what its entries say; the detailed timer and the core keep the same time across switches; predictors learn steady branches, and the loop predictor loops. |
| `memory_models` | eleven sets of 3 or 4 ways; ten hierarchies with three lines; nine queue configurations, 4 requests; ten networks, up to 6 cores; six prefetchers; TLBs, NUCA slice and ATDs | Every policy finds a victim that may go where there is one (`VictimFound`, not for tree PLRU, round-robin and QBS over upgrades); LRU, MRU, tree PLRU and LRU with QBS evict as the history of uses says (`VictimByUse`) - NRU, NMRU, SRRIP, random and round-robin promise no order that could be compared; upper levels hold only what lower ones have and the last store is kept in some level (`Inclusive`, `LatestKept`); no resource serves two requests of the size it was made for at once (`NeverDoubleBooked`); for any sizes the history list keeps to its limit and has a free interval for every request (`HistoryUsable`), which does not say that none of its intervals is inverted: with other sizes some are (see Observations); packets arrive once, contention is part of the latency, no receiver misses its packet, controllers are on different cores; prefetchers propose what the history holds, TLBs hold the last pages used, the slice keeps what was written into it, ATD counters explain the shared cache. |

Bounds. Three caches are the smallest number at which a request can be overtaken by a
message of a third party; one line suffices where lines do not compete, three lines in
two ways make entries compete. `MaxWrites` bounds the versions of a line (0 where contents
are no matter), `MaxWriteBacks` the write-backs under way to DRAM: without it a
cache could fetch and evict for ever ahead of the DRAM controller. `MaxCount`, `MaxAccesses`,
`MaxRequests`, `MaxDelay` and `MaxTime` bound the counters they are named for; each
instance lets every thread meet every other one in every phase. Four cores are the
smallest number at which two cores are still to be let go after a release.
In the combined runs every component has its own bounds, named in its module
(`SchedMaxTime`, `TrMaxApps`, `TrMaxNew`, `TrMaxEnders`, `TtMaxSteps`, `RobMaxUops`, `ItMaxUops`, `PmMaxTime`,
`QmMaxRequests`, `NetMaxForwards`, the field `max` of the configurations, and so on). They are
the smallest ones at which the case of interest happens: a scheduler runs for four or five quanta, so that
a thread that is passed over twice is seen; reorder buffers of 3 or 4 entries fill with the
programs of 3 micro-ops and the empty ones around them; windows of 2 or 3 entries wrap; a history list of 2 or 3 intervals
overflows; the histories of the GHB go round more than twice.
`CHECK_DEADLOCK FALSE` is set where the system may stop: all threads may exit, or an
application may deadlock by itself, and a bounded history ends.

Fairness. The network threads and the DRAM loop over their inboxes for ever, so their
steps are weakly fair; cores need not access memory and lines need not be evicted. In `Semaphore` a thread
that is about to sleep or was woken goes on, since the host schedules it; who calls
`signal()` is up to the callers. In `SetLock` each user thread and the network thread is weakly fair: a mutex
that is free while a thread wants it is taken in the end. In `Emulation`, host threads that have the lock or have been created go on, and
running threads reach the barrier again and again; the application owes nothing. The
runs `threads`, `core_models` and `memory_models` state no fairness: "nobody starves" is a bound on the time a thread waits over the quanta of the run with one affinity call (an application that repeats such calls for ever may keep a thread off, which the run cannot show), and "the
simulation ends" that a state in which nothing can happen is one in which the end was signalled.

## What is proved

`tlapm` checks eight modules of proofs, for every value of the constants that satisfies the
named assumptions of the modules and the hypotheses given here. Each invariant was
first checked by TLC on a small instance.

* `HostPrimitivesProofs!SemaphoreSafe`: types, the exact counter of waiters and
  `NoLostWakeup`, from `IsFiniteSet(Threads)` and `InitCount <= MaxCount`. The conjunction
  of the three is inductive: the counter tells `signal()` whether somebody is inside
  `wait()`, and `NoLostWakeup` sets the units that are available against the threads
  on their way back to the test of the count.
* `SetLockProofs!SetLockExclusion`: a thread in exclusive mode is alone in the set, for
  any number of cores. `Exclusion` alone is not inductive: the invariant `IInv` says for
  every program counter which mutexes the thread owns (`OwnerInv`), that a semaphore is
  posted once and only for a thread that waits (`SemInv`), and that whoever is in the
  queue behind the served head waits for the lock, is there once and has not been woken
  (`QueueInv`). `SetLockRefines` is the refinement: with the same invariant, every
  step is a step of `ReaderWriterLock` under the mapping of `ImplementsLock`, or leaves
  its variables alone, so the mutexes taken one by one, the release in portions, the
  downgrade and the hand-over by the network thread are one lock with two modes.
* `CoherenceProofs!CoherentMemoryTyped`: every handler of directory, caches and
  DRAM keeps the state well formed, for any number of caches, lines, pointers and ways
  and each protocol. The proof adds to `TypeOK` that a running handler
  of the directory has a request to process and that a waiter that has been served is
  still queued when it is taken off.
* `CoherenceProofs`: `CoherenceSingleWriter`, `CoherenceDirectoryCovers`,
  `CoherenceCacheAssertions` and `CoherenceDirectoryAssertions`, for any number of
  caches, cores, lines and directory ways and each protocol, with a full-map directory
  (`FullMap`: as many pointers as caches). None of them is inductive, since what a cache
  may hold depends on the messages under way. The invariant counts tokens: for each line,
  a cache the directory takes for a sharer has exactly one of a copy, a reply with the line
  on its way to it, a message that gives the line up on its way to the
  directory, and a request the directory is fetching the line for. A recall still in the
  queue of a cache is about its present copy only if no reply with the line follows it, and
  then the request it was sent for is at the head of the directory's queue and waits
  for the answer. The rest is a statement per kind of message, proved for each handler in turn.
  The hypothesis is needed: with MSI, three caches and two pointers TLC finds a state in which
  `DirectoryAssertions` fails, the invalidation that outlives its request (see Observations).
* `CoherenceQuietProofs!CoherenceQuietAgreement`, for the same systems: when no message is under way and no handler runs, no
  request and no waiter is left, no replaced entry is, and the directory counts exactly the copies there are. `QuietAgreement`
  speaks of such states only; the invariant `QInv` says for all others what is owed, and by whom. A read at the head of a queue waits for
  the owner's copy or the forwarder's: that cache has the request for it before it, has answered, or has given its copy up
  (`CopyUnderWay`). Any other request waits for the copies of the other sharers: there is one, and each of their caches is to
  give it up or has (`RecallUnderWay`). A line that is fetched is with DRAM or comes from it; a replaced entry has its `NULLIFY_REQ` at
  the head of its queue; a core waits only while its cache asks, is being answered, or wakes its waiters (`WaiterServed`). That a request
  of the directory meets the copy it was sent for is what the tokens of `CoherenceProofs` say, so the two invariants are proved in
  turn. The step that decides is `processInvRepFromL2Cache()`, `processFlushRepFromL2Cache()` or `processWbRepFromL2Cache()` not
  waking the request at the head: then another copy must still be owed (`LeaverQuiet`).
* `CoherenceQuietProofs!CoherenceAllocationSucceeds`: when a request needs an entry of the directory's set, some entry has no
  request queued, for the same systems and a set with at least as many ways as there are cores (`EnoughWays`). A core waits for one
  line at a time, in the queue of its own cache (`WaitInv`), and behind every request that is queued in the directory, but for the one of a replaced
  entry, some core waits; so the lines with requests can be told apart by cores, and the line that needs an entry is
  one more than those of the set (`WaysInv`: nothing is replaced before the set is full). With fewer ways than cores it can fail (see Observations).
* `BarrierSyncProofs`: `BarrierSleepersKnown`, `BarrierEverybodyRestarted` and
  `BarrierSomebodyIsOut` for any number of cores and host cores, any quantum and any switch of
  mode, from `BarrierInv`: nobody is in the barrier before its clock has reached the barrier time, who was
  let go is behind it, a disabled barrier is empty. `BarrierReleaseEnds` and `BarrierSkewBounded`
  add `SkewInv`, which relates the clocks the server was told, the clocks of the cores and the barrier
  time, a multiple of the quantum, in detailed mode. They have the hypothesis that the
  region of interest does not start while cores are in the barrier, `"roi-begin" \notin Switches`:
  the clocks that `abortBarrier()` leaves behind make `ReleaseEnds` false otherwise (see Observations),
  and the run `skew_barrier` makes the same restriction.
* `EmulationProofs`: `EmulationQueuedOnce` and `EmulationHostsAgree`, for any number of threads, mutexes,
  condition variables, futexes and timeouts. The counts are replaced by two statements the prover
  can follow, that a queue holds a thread at most once and that a thread whose stall somebody else is to end has
  exactly one seat, in a queue that fits the reason of its stall (`EInv`). Where a host thread is and what the
  manager believes of its thread is the third part, and that only a thread that
  has started and not exited is waited for is the fourth. The last one needs the
  hypothesis `JoinsUnstarted = FALSE`: `onThreadStart()` signals whoever
  joins a thread that has not started, and `HostsAgree` is false then. `EmulationPrimitivesServed` holds for
  every application, from the types of the server's queues alone.
* `HostPrimitivesProofs!CvWaitersWoken`, for any number of threads, rounds, packets and places. The invariant of the
  host barrier tells its two phases apart: while threads come, `m_arrived` is the number of those inside and each of them
  sleeps or is bound to; while they leave, `m_leaving` is that number, nobody enters and nobody sleeps but for the broadcast that is still to
  follow; and the rounds of two threads differ by one at most. For the queue the places from `last` to `first`, going round,
  hold the values in turn (`Ring`), and each end waits on its own condition. The
  hypothesis, no barrier with `signals`, is needed: an interrupted `wait()` lets a thread through the barrier (see Observations).
* `TraceProofs!ApplicationsEndHolds`, for any number of applications and threads, and for every interleaving of the turns of `start()` and
  `endApplication()` with the other threads, up to a step that uses an iterator after the vector has moved or spawns a thread twice. The
  counters of running threads and applications are the numbers of those that have started and not ended; an application that has not ended has a
  thread that will still end a run of it, and who was told to abort was told by a thread of its own application (`TrInv`). A thread
  that is not spawned is at the iterator of `start()` or behind it (`ThreadSound`), so none is left when the loop ends (`AllSpawned`).
* `TraceProofs!TraceAccountedHolds`, for any instructions, packets, changes of the mode, losses of the core and size of a digit. What was
  counted with the open block lies between the instructions executed and those without the ones of the cache-only packets
  that came while the thread slept or had no core; the warm-up needs that only a base of 0 stands for "no block yet", so no
  instruction is at address 0 (`TtAssumption`), and that nothing is remembered as executed in a mode that warms nothing up
  (`BlocksInv`). That the table of a trace thread is a permutation is an induction over the rounds of the constructor's loop, each of which
  keeps it one (`PutStepKeeps`), whatever the draws are; hence `va2pa()` maps different addresses of an application to
  different ones, and the id in the highest bits tells threads with other ids apart.
* `CoreModelProofs!SmtBarrierSoundHolds`, for any number of hardware and of software threads. That one thread executes at a
  time holds however threads move: the chosen one keeps `m_lock` until `in_sync` is set and the choice undone. That the barrier
  opens needs who owns which slot (`SlotInv`): a slot in the barrier belongs to a host thread that waits unsignalled and whose
  software thread has that slot for its core, so whoever leaves the barrier is signalled, and a slot that runs outside the barrier
  belongs to a thread that goes on. With it, when all that run are in, the step that completed the barrier has signalled somebody, or a thread
  synchronises and will. Most hooks change who runs, who owns and who waits at once; each has a lemma for its effect on the slots.
* `CoreModelProofs!TimeKeptHolds`, the conjunct `TimeKept` of `CoreTimeSound`, for any instructions, latencies and costs, and
  whatever other threads switch: each operation of the performance model counts the time it spends in one component of
  the CPI stack, and brings the detailed timer up to date unless the core is in fast-forward (`PmInv`). `PmAssumption` asks that
  costs are natural numbers and a cycle is not empty.
* `HostPrimitivesProofs!ReceiversWoken`, the conjunct `ReceiverWoken` of `NetworkSound`, for any configuration of the network: with
  what `netRecv()` may hold (`ReceiverInv`) it is inductive.

What stays with TLC, and why:

* Liveness under fairness, which the prover does not handle: `UnitsAreTaken`, `WaitersServed`, `EverybodyLeaves`,
  `TimeoutsKept`.
* Coherence with fewer pointers than caches (`coherence_replacement`): there these properties depend on the
  protocol, the number of pointers and what may be evicted when.
* `CacheHierarchy`, `Scheduler` and `Sampling` recurse over levels, cores and releases
  with RECURSIVE operators, for which the prover has no backend; no other module has one.
* `RobSound`, `SmtPassedOver`, `IntervalSound`, `BranchesLearned`, `ReplacementSound` and `QueuesSound` compare an
  algorithm with a reference definition over bounded programs or histories: for every input this is an induction over data.
* `SquashSound`, the other conjunct of `CoreTimeSound`, folds over the accesses of an instruction: again an induction over data.
* Not attempted: `Delivered`, `ContentionWithinLatency` and `ControllersApart`, the other conjuncts of `NetworkSound`.
  They rest on the arithmetic of routes in a mesh, which the models of the routers compute hop by hop.

## Observations

Beyond the two violated runs, modelling showed the following. The first group are
behaviours of the models for other constants; the others come from reading the code that
was modelled. Where a property of a module does not hold of the code, it is in no run and
its comment says so.

Coherence, threads and clocks.

* `AllocationSucceeds` fails with `DirWays = 1` and two lines: the assertion "Cannot find
  a directory entry to be replaced" (`dram_directory_cntlr.cc:287`) depends on there
  being fewer outstanding lines than ways.
* With three MESI caches, an upgrade whose requester lost its copy is answered from the
  buffer of a message that was freed (`dram_directory_cntlr.cc:1136`); under MESIF a
  forwarder that is itself upgrading answers with a buffer it never filled
  (`cache_cntlr.cc:2147`). Contents matter only with fault injection.
* With MSI and two pointers, an invalidation that is no longer needed can hit a line after
  its holder was granted MODIFIED, and the assertion at `dram_directory_cntlr.cc:807`
  fails.
* A thread that blocks in a host system call counts as not running, so the last thread
  that stalls may give up with "Application has deadlocked" although the other one
  would return (`thread_manager.cc:355`).
* `syscall_server.cc:88` tests FUTEX_WAIT_BITSET where it handles a wake-up, so the mask of
  FUTEX_WAKE_BITSET is ignored; the comment at lines 306-309 describes an older
  `requeueWaiter()`; `getNextTimeout()` returns the last timeout of a list, not the
  smallest, which is harmless because it is only compared with `MaxTime`.
* A try-lock by the owner of a mutex queues the owner behind itself
  (`sync_server.cc:28`).
* While the barrier is switched off, `advance()` does not move the barrier time, so
  `stallThread()` polls for timeouts that do not come nearer (`barrier_sync_server.cc:280`).
* A thread that joins another before it has started is resumed by the start:
  `onThreadStart()` wakes and clears the waiter of the thread (`thread_manager.cc:141`),
  whichever of the two uses of that field it was. `HostsAgree` fails with two threads, `JoinsUnstarted = TRUE` and
  `BlockingCalls = FALSE`. The run `emulation` has the value FALSE, so this way for the field to go wrong is in no run.
* `abortBarrier()` keeps `m_local_clock_list`, so after the start of the region of interest the barrier can count as
  reached with nobody in it (`barrier_sync_server.cc:346`). `ReleaseEnds` fails with three cores, `MaxTime = 2` and
  `Switches = {"roi-begin"}`; the run `skew_barrier` has the other two switches, in which the stale list does no harm.
* `ConditionVariable::wait()` is to "Restart futex_wait if it was interrupted by a signal"
  (`cond.cc:45`), but `syscall()` returns -1 and sets `errno`, so the loop over `-EINTR` ends and `wait()` returns. The users
  with a loop around it do not mind; `Barrier::wait()` and the clock barrier
  (`barrier_sync_server.cc:100`) do: `WaitersWoken` fails for a barrier with `signals`. A `MTCircularQueue`
  with two consumers (there is none in this tree) would leave one of them asleep, since only the push into the empty queue signals.
* `SELock` and `Barrier` have no user in this tree.

Schedulers, trace front end, sampling.

* Sequential scheduler: a thread that starts after its predecessor has exited is
  never scheduled; the successor is found from the affinity and not from the core; `seqs.at(i)` throws
  for a core without a sequence. The static scheduler stops with an error when no core is free;
  big-small without small cores leaves empty affinities.
* `sched_getaffinity` asks for the caller's own affinity whatever thread it is given
  (`syscall_model.cc:257`). `m_threads_runnable` has 16 entries and no bounds check.
* `start()` and `endApplication()` use iterators of `m_threads` without `m_lock` (`trace_manager.cc:211`, `:247`), while `newThread()`
  appends. With two first threads, the first one's fork or new thread moves the vector under `start()`; with three there is room for a fourth, which spawns
  itself and is then spawned again by the loop.
* `handleCacheOnlyFunc()` is the only packet that does not call `unblock()`; it returns without counting
  when the thread has no core (`trace_thread.cc:473`), so the instructions that a recorder in cache-only mode sends for a thread that sleeps in a
  system call are lost. It does not call `reschedule()` either: `countInstructions()` can run the hook by which fast-forward
  synchronises, the scheduler may then take the thread off its core, and the next packet of another kind fails the
  assertion that the thread is on one (`trace_thread.cc:438`; `ttAborted`).
* `va2pa()`: with the sequential scheduler threads of different applications on one core are chunks of one process, but each remaps addresses by the table of
  its own application when they are randomised, so the chunks disagree about where a page is, and two pages can meet. The highest
  bits of an address are or-ed with the id when randomising, not replaced. An address made up for id 0 can be one that the trace has as a physical address.
* Two threads of one application that call `exit_group` both except themselves from
  the abort, and `m_done` is not signalled (`AlwaysDone` fails; the run checks `DoneWhenAllOver`).
  A forked application that is restarted reads `m_tracefiles` past its end. `stop()` sleeps for
  a second with `m_lock` held.
* `handleInstructionWarmup()` takes the second operand of a pair at `num_addresses + 1`, and logs the write of an atomic update as a hit without an access; the last
  instruction of a trace is never processed; a block that was partly run is not warmed up in CACHE_ONLY;
  decoded instructions are cached by virtual address and never invalidated.
* Leaving fast-forward without coordination adds the elapsed time after the models were switched back, so the timer is not told;
  `barrier_next - elapsed` wraps for a core that is ahead; `isThreadRunning()` is called with a core's
  id; with both intervals 0 an assertion fails.

Core models.

* `deps_to_remove[8]` is guarded by `sizeof(deps_to_remove)/sizeof(8)`, which is 16, and
  after the write. Store-to-load forwarding drops producers that have issued but not finished
  (`ForwardedValueReady` fails).
* The latency of an instruction cache miss is paid again when the reservation stations
  were full; a memory barrier that finds no port does not stop the in-order part of issue; `tryIssue()` takes a port before
  it looks for a unit; a request of `ContentionModel` at time 0 takes no slot.
* The SMT issue stage skips a thread whose next event is ahead without adding that event to the ones the
  cycle may jump to (`SmtSkipsNothing` fails); `in_wakeup` is written and never tested (`WakeupReturnsNothing` fails).
* A thread that is moved from one core directly to another does not open the barrier
  of the core it leaves (`BarrierAlwaysOpened` fails; the run checks `BarrierOpened`, which excludes such moves); with
  no hardware thread running, the loop at `smt_timer.cc:152` never ends, with `m_lock` held.
* Interval model: `longLatencyOperationLatency` is 1 (`true`); an instruction cache miss together with a
  misprediction restarts from an old critical path; the overlapped latency is read before the access that changes it; producers
  of latency 0 break the chain of a branch.
* `divideRounded` adds `rhs/2 + 1` (`subsecond_time.h:203`); instructions queued before a fast-forward are
  dropped.
* Branch predictors: the tournament predictor never leaves state 0 upwards and swaps index and value in `lht.update`;
  `ibtb.update` writes every way; a loop entry that is taken over keeps its enabled flag; the bimodal table
  is not trained when the global predictor hits; `A53BranchPredictor` is never created.

Memory models.

* SRRIP with QBS can reach "Error finding replacement index"; round-robin tests the index after
  it has decremented it and returns the one before; LRU falls back to way 0 when all ways are
  being upgraded; PLRU and SRRIP assert there, and random tries for ever; `mersenne_mod` with
  one set divides by zero.
* A shared level hands its own MODIFIED state to a reader (`cache_cntlr.cc:698`): when one core wrote a line, a
  second one reads and then writes it without asking, the first one's copy is stale. `LatestKept` asks
  for the last store in the levels that have the authority for the line. Passthrough drops a
  dirty line without a write-back; the DRAM cache writes back `data_buf` instead of the evicted data (`dram_cache.cc:185`);
  the prefetch queue takes one entry more than its limit.
* The second branch of the history list can shorten an interval below zero for requests
  of other sizes than the smallest (with the sizes {1, 3} of `memory_models` it does, and passes, since overlaps are compared for one size only); the windowed M/G/1 model subtracts below zero early in a run;
  `MovingMedian` returns the middle in arrival order.
* Network: around a ring of odd size a route can be a hop longer than needed; the broadcast
  tree wraps at the edge of a mesh and then sends for ever; nodes that are not in the mesh send in no
  time, so their contention wraps around, as it does for packets under way when the models are enabled; queue
  delays after the first hop are not added to the packet; a mesh of width 1 puts two controllers on one
  core; `netRecv()` with a timeout gives up after one wake-up of any kind.
* GHB: a link to an overwritten entry is followed when it points at the head, or the next one wraps
  (`ghb_prefetcher.cc:76`), and the two bits of the generation repeat after four rounds. The A53 prefetcher proposes ascending addresses for a descending
  stream. The simple one proposes the address just accessed and can replace a live flow while another one is unused.
* A line that misses in the NUCA slice is inserted clean, so its only write is dropped when it is
  evicted, though `dram_directory_cntlr.cc:1241` says "it will be written to DRAM on eviction"; `SliceKeeps`
  promises the data of a line written more than once.

## Not modelled

* Bytes: lines and registers have versions or a freshness bit, instructions a class. Decoders,
  instruction tracers, CPI stacks and statistics are tables and reports without a state that others depend on.
* Latencies inside the coherence protocol and the hierarchy, and the MSHRs: no control of the
  modelled parts depends on them. The models that compute time are modelled on their own.
* The multi-level hierarchy and the directory messages at once: `LastLevelCache` has one level with messages,
  `CacheHierarchy` every level with DRAM behind it. The limitless directory scheme.
* SMT groups and preemption in the clock barrier; `spawnThread()` and the Pin front end; the emulated system calls of a trace other than
  the ones that stall or move a thread.
* Interrupted waits inside the clock barrier and the thread manager: `BarrierSyncServer` and `ThreadManager` take
  `wait()` as exact; `ConditionVariable` has the interruption.
* `fast_nehalem` and `cheetah` memory models, the client side of the emulated primitives,
  scripting, fault injection, configuration: input, output, or stateless.
* The IPCP prefetcher and `SELock` are never created.

## Plan

1. Theorems: the routes and the timing of `Network`, which have not been attempted.
2. Abstract specifications still worth stating: a thread service (each stall ends with exactly one
   resumption) implemented by `Emulation`, a barrier that only bounds the skew implemented by
   `BarrierSyncServer`.
3. The number of runs stays small: new questions are put to an existing instance where
   its actors already meet.
