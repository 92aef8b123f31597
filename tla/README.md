# TLA+ models of the Sniper 5.2 multi-core simulator

The program is the Sniper x86 simulator in `src/eecs583-pjct/sniper-5.2/`, with one
addition of this repository: atomic regions in the performance model. Its own code is
in `common/` (the simulator), `pin/` and `standalone/` (two front ends), `sift/` (the
trace format between them) and `scripts/`. `tools/` holds reporting code, large parts
of it vendored. Paths below are relative to `sniper-5.2/common/` unless they start
with `pin/` or `sift/`.

Sniper simulates a shared-memory machine with **one host thread per simulated
thread** and **one network ("sim") thread per simulated core**. What is hard to get
right is where these meet: host threads that share cache structures, the directory
protocol run by the network threads, the servers that put simulated threads to sleep
and wake them up, and the traces that stream into the simulator from other processes.
The timing models are sequential, but keep bounded windows, queues and tables with
invariants of their own, which long sequences of legal calls have to preserve.

Contents: 1 inventory, 2 modules and how they correspond to the code, 3 runs,
4 bounds and fairness, 5 proofs, 6 where code and comments disagree, 7 what is not
modelled, 8 plan.

## 1. Inventory

| Component | State it keeps | Operations | Talks to | What makes it correct |
|---|---|---|---|---|
| Atomic regions (`performance_model/performance_model.cc`, `squash_handler.h` and its subclasses) | the memory operands of a core's current region, retries, translation marks | record, commit, squash, reset | the other cores' maps under `memMapsLock`, the clock-skew barrier | regions are separate, retries end, nobody is held up |
| Set lock (`misc/setlock.cc`) | a vector of mutexes, one per core sharing a cache set | acquire/release shared and exclusive, upgrade, downgrade, hand-over to a user thread | every cache controller | readers/writer exclusion, no leaked mutex, no cycle of waits |
| Last-level cache controllers (`core/memory_subsystem/parametric_dram_directory_msi/cache_cntlr.cc`) | line states, queue of waiting accesses per line | hits, misses, replies, INV/FLUSH/WB requests, evictions | set lock, directory, user threads | single writer, every miss completes |
| Private cache levels (same file) | a copy of a line per level, prefetch queue | the recursive access, fill, eviction, write-back, recall | last level, prefetchers | inclusion, one writer, the latest value survives |
| Cache sets (`core/memory_subsystem/cache/`) | tags and replacement bits | insert, look up, invalidate, choose a victim | controllers | the bits are a recency order, victims are legal |
| Prefetchers | history buffer, delta table, flows | getNextAddress | controllers | tables point where they say |
| Tag directory (`.../pr_l1_pr_l2_dram_directory_msi/dram_directory_cntlr.cc`, `directory_schemes/`) | entry (state, sharers, owner, forwarder), request queue per line | SH/EX/UPGRADE/NULLIFY requests, INV/FLUSH/WB/DRAM replies | caches, DRAM controller | knows every copy; its own assertions |
| Directory cache | the entries of a set, replaced entries | allocate, replace, nullify | directory | one entry per line, allocation succeeds |
| DRAM cache, NUCA slice, ATDs | a set each | read, write, evict | directory, DRAM controller | stores reach DRAM, an ATD is what the core alone would see |
| Machine layout (`memory_manager.cc`, `address_home_lookup.cc`, `topology_info.cc`) | who hosts directories and controllers | constructors, home lookup | everything | a home exists, sets are covered by locks |
| Core access and TLBs (`core/core.cc`, `tlb.cc`) | TLB sets, deferred information, counters | initiateMemoryAccess, readInstructionMemory, hookPeriodicInsCheck | memory manager, performance model | exact pieces, information in order |
| Network (`network/`) | packets under way, receive queues | netSend, netPullFromTransport, netRecv | all components that send messages | every packet arrives once, receivers wake |
| Threads (`system/thread_manager.cc`, `scheduler/`, `system/barrier_sync_server.cc`) | thread states, placement, quanta, the barrier's lists | create, start, stall, resume, migrate, join, exit, periodic | each other through hooks | the tables agree, every wake-up arrives |
| Thread stall/resume (`core/thread.cc`, `misc/cond.cc`) | a condition variable and wake-up message per thread | wait, signal | all servers | no lost signal |
| SyscallServer (`system/syscall_server.cc`) | a waiter queue per futex word, the sleepers | the FUTEX commands, nanosleep, timeouts | thread stall, barrier hooks, application memory | no lost wake-up, right result, timeouts end |
| SyncServer (`system/sync_server.cc`) | owner and queue per mutex, condition, barrier | lock, trylock, unlock, wait, signal, broadcast, barrier wait | thread stall | mutual exclusion under hand-over, nobody forgotten |
| Modes (`system/simulator.cc`, `magic_server.cc`, `sampling_manager.cc`, `fastforward_performance_manager.cc`, `sampling/`) | ROI, instrumentation mode, callbacks, CPI history | ROI marks, mode changes, sampling intervals | barrier, performance models | modes agree, nobody escapes the barrier |
| Performance model queues (`performance_model/`) | blocks and dynamic information | queue, iterate, idle time | front end, timing model | information meets its instruction, time adds up |
| Interval, micro-operation and IOCOOM models | windows, dependences, store buffer, scoreboard | dispatch, squash, load, store | performance model | see section 2 |
| Queue models, branch predictor | free intervals, windows; tables | delay; predict and update | DRAM, network; core models | no two at once; loops are learned |
| SIFT stream, trace threads (`sift/`, `system/trace_thread.cc`) | buffers, caches of code and mappings | records, requests, answers | two FIFOs per thread | the reader sees what was written, no mutual wait |
| Trace manager (`system/trace_manager.cc`) | threads, counters per application | start, end, restart, stop | trace threads | counted exactly once |
| Recorder (`sift/recorder/`) | a writer per thread, clone queue | thread start/end, ROI, blocks | SIFT writers, other processes | numbers are distinct, tids cleared once |
| Configuration (`config/`, `misc/handle_args.cc`) | the command line, the tree of sections | parse, merge, look up with and without an index, save | every component's constructor | a lookup finds the latest setting; the saved file means the same |
| Spin-loop detection (`misc/spin_loop_detector.cc`, `pin/spin_loop_detection.cc`) | table of backward branches, registers that changed | branch, register write, store | front end, performance model | what is called a spin changes nothing |
| Routine tracer (`system/routine_tracer.cc`, `system/routine_tracer_funcstats.cc`, `pin/trace_rtn.cc`) | a stack of routines per thread, times | enter, exit, unwind, ROI hooks | front end, hooks | time and calls are accounted once |
| Thread statistics (`system/thread_stats_manager.cc`) | a snapshot of its core per thread | update, start, move, exit | hooks, scheduler | a thread gets what it executed |
| Pin front end, hooks, scripting, statistics output, DVFS, fault injection, visualisation | | | | not modelled, section 7 |

**Hard behaviours.** (1) A lock whose ownership changes without an unlock.
(2) Evictions, invalidations and upgrades of one line that cross in flight.
(3) Directory entries that disappear or overflow under outstanding requests.
(4) Stores of the application to futex words inside a futex call. (5) Timeouts that
fire inside the call that is about to sleep. (6) Mutexes handed to threads that do not
run yet. (7) Three servers that call each other through hooks under one lock.
(8) Everybody asleep: only the barrier can move time. (9) A squash loop that runs
under a global lock. (10) Two processes that each wait for the other's record.
(11) Rings, windows and generations that wrap. `PROJECT.json` lists each hazard with
its line and the properties that watch it.

## 2. Modules

| Module | Models | Property that is checked, and its parts |
|---|---|---|
| `ReadersWriter`, `SetLock`, `SetLockProofs` | `misc/setlock.cc`; the abstract lock it implements; proofs | `MutexesMatchCode`, `StackExclusion`, `WaitsUpward`, `ImplementsReadersWriter` |
| `Coherence`, `CoherenceInvariant`, `CoherenceProofs` | one line: last-level caches, directory, DRAM, channels; the invariant of the protocol; proofs of the directory's and the caches' steps | `SingleWriter`, `DirectoryKnowsCopies`, `ControllerAssertions` (both controllers' assertions, usable forwarder), `EntryCorrect` (types, consistent entry), `MissesComplete` |
| `AtomicRegion`, `AtomicRegionProofs` | atomic regions and squash handlers; proofs | `RegionsCorrect` (types, `RegionsSeparate`: `RegionStartsEmpty`, `AccessesOfRecent`), `RetriesBounded`, `BarrierOpens` |
| `ThreadStall`, `ThreadStallProofs` | `stallThread`, `resumeThread`, `ConditionVariable`, queues; lemmas about queues | extended by the next two |
| `SyscallServer`, `SyscallServerProofs` | futexes and sleep; proofs | `WaitersCorrect` (types, `SleepersQueued`, `ResultMatchesWaker`), `NoLostWakeup`, `TimedWaitsReturn` |
| `SyncServer`, `SyncServerProofs` | pthread emulation; proofs | `SyncCorrect` (types, `HoldersOwn`, `BarrierHolds`), `NobodyForgotten`, `QueuedGetMutex` |
| `ThreadSystem`, `ThreadSystemProofs` | thread manager, schedulers, clock-skew barrier; proofs | `PlacementCorrect` (types, `PlacementAgrees`, `UserOnCore`), `AssertionsHold`, `WakeUpsArrive` (`NoLostSignal`, `RunningCanGo`) |
| `CacheSet`, `MemoryProofs` | replacement policies; proofs | `ReplacementCorrect`: `BitsAreRecency`, `VictimFound`, `UpgradeNotEvicted`, `LastUsedKept` |
| `DirectoryCache`, `MemoryProofs` | one set of directory entries; proofs | `EntriesCorrect`: `OneEntryPerLine`, `CopiesKnown`, `ReplacedUntilNullified`, `AllocationSucceeds` |
| `CacheStack` | the levels above and including the last | `StackCorrect`: `StackAssertions`, `Inclusive`, `OneWriter`, `LatestSurvives` |
| `MemorySide` | DRAM cache, NUCA slice, ATDs | `MemorySideCorrect`: `StoresReachDram`, `NucaKeepsRewritten`, `AtdIsPrivateCache`, `AloneIsNeutral` |
| `Prefetchers`, `MemoryProofs` | GHB and stride prefetchers; proofs for the GHB | `HistoryCorrect`: `TableLeadsToDelta`, `OneEntryPerDelta` |
| `MemoryLayout` | placement, homes, set locks, topology | `LayoutCorrect`: `HomesServed`, `ControllersDistinct`, `SetLocksCoverSets`, `SlicesUseAllSets`, `ApicIdsDistinct` |
| `Network` | send, route, pull, receive | `NetworkCorrect`: `ArrivesOnce`, `PathsEnd`, `LatencyCoversDistance`, `ReceiverNotStranded` |
| `CoreAccess` | core accesses, TLBs, instruction hook | `AccessCorrect`: `PiecesExact`, `InfosInOrder`, `FetchedLineKnown`, `TlbHoldsLatest`, `HookOncePerPeriod` |
| `PerfQueue` | queues and simple timing models | `QueueCorrect`: `InfoPaired`, `HandledInOrder`, `CpiAddsUp` |
| `IntervalTimer` | interval model and its windows | `IntervalCorrect`: `ProducersFound`, `CriticalPathIsContributions`, `DispatchAdvances`, `MapStartsEmpty`, `StackIsLatency`, `OverlapIndependent` |
| `MicroOps` | instructions to micro-operations | `UopsCorrect`: `WaitsForItsOwn`, `OneUopPerLine`, `CostCharged` |
| `Iocoom` | in-order core, out-of-order memory | `IocoomCorrect`: `LoadUnitBound`, `RegistersReady`, `StoresForwarded` |
| `QueueModels` | contention | `ContentionCorrect`: `NeverTwoAtOnce`, `SumsExact`, `WindowRemembersLater` |
| `BranchPredictor` | Pentium M predictor | `PredictorCorrect`: `LoopLearned`, `OneWayEach` |
| `SimModes` | ROI, modes, sampling, fast-forward | `ModesCorrect`: `NobodyRunsAway`, `AimPoint`, `HistoryIsDetailed`, `SamplingAssertions`, `ModesAgree`, `BarrierFollowsMode` |
| `Sift` | SIFT connection and trace thread | `TracesCorrect` is `TraceCorrect`: `ReadsWhatWasWritten`, `AnswersMatch`, `NotBothWaiting`, `BlocksContiguous` |
| `TraceManager` | applications and their threads | and `ManagerCorrect`: `CountsExact`, `StopsInTime`, `EndsAreCounted` |
| `Recorder` | the recording Pin tool | and `RecorderCorrect`: `AppIdsDistinct`, `VectorMatchesFile`, `TidsClearedOnce` |
| `Configuration` | command line, files, lookups, saved file | `ConfigCorrect`: `LookupIsLatest`, `SavedAnswersSame` |
| `SpinLoop` | spin-loop detector of a thread | part of `MeasurementsCorrect`: `NoStoreInSpin`, `QuietLoopsSpin` |
| `RoutineTracer` | stacks of routines, function statistics | part of `MeasurementsCorrect`: `TimeExact`, `CallsExact` |
| `ThreadStats` | statistics per thread | part of `MeasurementsCorrect`: `OwnInstructions` |
| `MC...` | TLC instances and symmetry sets; a module whose constants need no definitions is checked itself | |

A combined property is the conjunction of a module's type invariant and the parts
named beside it; each part is a definition with a comment that says what it states.

Operators named "Mutant" or "A bug the code avoids" are wrong variants of the
operator below them. No specification uses them. They document which mistake each
property would catch: every part has at least one of its own, and `PROJECT.json`
names one pair for each property of a run.

`MCMemory` and `MCModels` instantiate the modules whose components share no state in
these models. The variable `which`, chosen from `Parts`, says which component a
behaviour is about; the variables of the others stay as they are, so that a run explores the sum
of the components' states and not their product. To check one alone, leave only its
name in `Parts`. `MCMemory` extends `DirectoryCache`, `CacheSet` and `Prefetchers`:
`EntriesCorrect`, `ReplacementCorrect` and `HistoryCorrect` in the run are the definitions
that `MemoryProofs` is about, and TLC evaluates their modules' assumptions.

**SetLock.** `owner[i]` is mutex `i` of `m_locks`; `pc` and `pos` are a thread's place
in the loops of `acquire_exclusive`, `release_exclusive` and `downgrade`: every mutex
operation is a step. `Users` are the cores' user threads (user `i` owns mutex `i`),
`NetThreads` the network threads, which only take the exclusive mode. `PassLock` is
`wakeUpUserThread` and `waitForUserThread`: the network thread leaves all mutexes
locked for the user thread it wakes and queues up for the stack lock again.

**Coherence.** The protocol is a parameter (MSI, MESI, MESIF), as is the number of
sharers that an entry can name (`full_map` or `limited_no_broadcast`). One action is
one message handler, run to its end; the network threads of different nodes
interleave. The handlers of the directory are operators `Process...Req` that return
the new entry, queue and messages; `DirNext` is `processNextReqFromL2Cache`.
`serving[c]` is the gap in the cache's waiter loop in which the user thread has the
stack lock. A last-level cache stands for the inclusive stack above it: every step
holds the stack lock, which `SetLock` justifies, and `CacheStack` checks inclusion.
Other lines show only in what they do to this one: `CacheEvict` (a fill of another
line chooses this victim) and `DirReplaceEntry` (an allocation takes this entry).
`PRIVATE_L2_OPTIMIZATION` is commented out in `cache_cntlr.cc:17`, so the `#else` paths
are modelled. `Garbage` stands for the contents of a buffer that was never written or
was freed.

**AtomicRegion.** `pc[c]` follows a core through `iterate()`: recording the operands
one by one, the end of a region, `commit()` with its squash loop under `memMapsLock`,
and the barrier. The handler and its action are those of `squash_handler.h` and
its subclasses. What the map holds are pointers to operands of a list that is
gone: their value when `checkMemAccesses` reads them is chosen freely, as are the
`translated` marks that nobody initialises. The place `"reset"` is the gap between the
end of `commit()`, which releases `memMapsLock`, and `resetMemMap()`, which takes it again.

**ThreadStall, SyscallServer, SyncServer.** `where[t]` is the host thread's position
relative to `m_thread_lock`; only `ConditionVariable::wait` gives the lock up. A
thread that is resumed before it has reached `wait` loses the signal, which is what
the loop in `stallThread` has to cope with. A futex call that looks at a word takes two
steps, the read (`ReadWord`) and the rest, because applications store to the word
without the lock. A waiter carries the quanta it has left instead of an absolute time.
`FutexPeriodic` is the periodic hook of a barrier release, `BarrierReleased` when it
can run. Masks of the BITSET commands are left out because every call site passes
`FUTEX_BITSET_MATCH_ANY` to `dequeueWaiter`. FUTEX_WAKE_OP and CMP_REQUEUE name two
different words. `owes`, `by` and the fields `val`, `asked` and `requeued` of a waiter
are auxiliary: `requeued` marks the waiters that `requeueWaiter` has moved, for which
the value they waited for no longer says anything about the word they wait on, not
even when they are moved back to the first one. In `SyncServer` one action is a server call from its entry to its end or to
the stall; `CallReturns` is the rest after the stall. A failing trylock changes nothing
and is not an action. A barrier's count is the number of threads. `DeadlockAbort` is
the assertion "Application has deadlocked", for programs without timed waits.

**ThreadSystem.** `sys` is one record with the state of the thread manager, the
scheduler and the barrier; operators transform it in the order in which hooks call each
other (`Reschedule`, `MoveThread`, `StallThread`, `ResumeThread`, `BarrierRelease`,
`Periodic`). The circle `moveThread`, `resumeThread_async`, `reschedule`, `moveThread` is
the function `Resumes`: `Resumes[n]` fills free cores with at most `n` nested resumes, and a
circle that needed more of them than there are cores would be recorded in `failed`. The
core mask of a pinned thread visits the cores in steps of `Interleaving`, which is at most
the number of cores: a larger step would name cores outside `m_core_mask`
(`scheduler_pinned.cc:17-38`). Each action is a critical section under `m_thread_lock`. `here[t]` is
the core a host thread believes it is on: `Thread::reschedule` reads `m_core`
without the lock. `abandoned` is a history of the joiners that were signalled and
not resumed. `FollowAborts = FALSE` stops a behaviour where `abortBarrier` has
left a stale clock behind, since what follows is one of the refuted statements below.

**CacheSet, DirectoryCache, CacheStack, MemorySide, Prefetchers.** One set each, with
the lines that compete for it. `set_recency`, `side_again`, the fields `from` and
`when` are histories: reference definitions that the bits, states and links are compared
with. In `CacheStack` the hierarchy is a parameter (`next`, `ways`, write-through
levels, MESI, direct DRAM access, the level with the prefetcher); an access is one step
unless it has to ask the directory, and then others act in between. The contents of a
copy are one bit, `fresh`.

**MemoryLayout, Network, CoreAccess.** `MemoryLayout` runs the constructors of one core
after another for each machine of a set of configurations and looks all blocks up.
`Network` walks a packet hop by hop through the routing code of the mesh, torus, bus and
magic models, with a thread of a core that waits in `netRecv` while the network
thread pulls. `CoreAccess` has the splitting loop of `initiateMemoryAccess`, the
LOCK/UNLOCK pairs that defer information, the TLBs with a recency reference, and the
unlocked check and locked re-check of `hookPeriodicInsCheck`.

**PerfQueue, MicroOps, IntervalTimer, Iocoom, QueueModels, BranchPredictor.**
`PerfQueue` numbers instructions so that information for the wrong one is noticed.
`MicroOps` gives each load and store its information, squashes and repairs
dependences, and says what part of a cost goes to the clock, to the timer and to the CPI
stack; the early return for information that has not arrived is left out, because
`InfoPaired` shows that it is never taken. `IntervalTimer` has the ring of the double
window with its indices, the register and memory dependences, the critical path and the CPI stack; one action adds
a micro-operation, dispatches one or charges its miss event. `Iocoom` has the three
scoreboards. `QueueModels` keeps unsigned wrapping times (`Word`). In
`BranchPredictor` the outcomes of a branch are those of a loop, which may change its
length.

**SimModes.** A record per core with its time, callback and mode, and the managers'
state; the configuration says where ROIs come from, which mode is used outside, and
whether sampling is coordinated, has warm-up or is placed at random. `Turn` is a round
of the barrier, as `ThreadSystem` has it without migration.

**Sift, TraceManager, Recorder.** `Sift` has the writer's buffer, the FIFO of bounded
size, the reader that rebuilds addresses and code, the handlers that ask for the
program's memory while the writer waits, and the block under construction in the
trace thread. `TraceManager` interleaves the ends of threads with `exit_group` and the
monitor. `Recorder` has Pin's callbacks for clones, thread starts and ends and the
processes that claim application numbers through files.

**Configuration, SpinLoop, RoutineTracer, ThreadStats.** `Configuration` goes from the
command line over the merged tree of sections to lookups and the saved file; lookups
create sections, as in the code. `SpinLoop` runs every program of a few instructions
past the detector of one thread, with the bits of its two tables as sets. In
`RoutineTracer` the flag of the ROI changes first and the threads' hooks run later, one
at a time, while the threads go on, and `rt_wrong` records in which stacks that spoils
the accounting; `ThreadStats` leaves open where the scheduler moves a thread. Histories (`sp_stored`, `sp_quiet`, `ts_ran`, ...) say what the accounting is
compared with.

## 3. Runs

| Run | Instance | Distinct states | Shows |
|---|---|---|---|
| `regions` | 2 cores, 4 handlers, fair cores | 73 k | map, counters and remembered instructions start afresh with each region, retries are bounded, nobody stays in the barrier because another squashes for ever |
| `setlock` | 3 cores, 2 network threads | 4.7 k | no mutex leaks, exclusion, waits go upward only, refinement of `ReadersWriter`, no deadlock |
| `coherence_mesif` | MESIF, 3 caches, full map, one access outstanding at each | 0.53 M | single writer, the directory knows the copies, all assertions |
| `coherence_limited` | MSI, 3 caches, 1 sharer per entry, 3 accesses queued anywhere | 0.49 M | consistent entries when sharers overflow |
| `coherence_live` | MESIF, 2 caches, 2 accesses queued anywhere, fair delivery | 51 k | no miss is left waiting |
| `syscall` | 2 threads, 2 words, timeouts, sleep, requeue, wake-op, fair | 125 k | nobody sleeps outside a queue, right results, no lost wake-up, every timed wait ends |
| `sync` | 3 threads, 2 mutexes, 1 condition, 1 barrier entered twice, fair | 30 k | exclusion under hand-over, nobody forgotten, a queued thread gets the mutex |
| `threads` | 3 threads, 2 cores, pinned and roaming, three modes | 449 k | the tables agree, assertions hold, wake-ups arrive (but for one joiner, section 6) |
| `memory` | `MCMemory`, 8 components | 504 k | their combined properties |
| `models` | `MCModels`, 14 components | 0.95 M | their combined properties |
| `false_conflict` | 2 cores that access different locations | | counterexample, section 6 |
| `upgrade_without_data` | MSI, 3 caches, 2 sharers per entry | | counterexample, section 6 |

Deadlock is checked except in `threads`, `memory` and `models`. There the bounds on
time, calls and instructions end a behaviour, or the program ends as it should: traces
run out, threads exit. In those models "nobody can go on" is stated by a property
where it would be wrong: `RunningCanGo`, `ReceiverNotStranded`, `NotBothWaiting`.
Elsewhere a coherence state in which nothing at all can happen, or a server state in
which everybody sleeps and no assertion fires, would be reported; `Finished` stutters
only after the simulator's own deadlock assertion.

## 4. Bounds and fairness

* `NumSharers = 3`: an upgrade, a downgrade and an exclusive acquire at once, with a
  mutex below and one above the skipped one. The proofs remove the bound.
* `Caches`: three are the fewest that let a third cache request while two others
  cross. `MaxQueued`, `MaxWaiters` bound the accesses waiting at one cache and at all;
  three allow one per cache, or a queue of three at one (the waiter loop runs, and sends
  an upgrade for a writer behind a reader). `MaxDramMsgs = 2`: a write and a read of
  the line in flight together. `MaxHwSharers = 1` in `coherence_limited`: the smallest entry
  that overflows, and every second sharer overflows it; with two, `upgrade_without_data`
  finds its counterexample.
* `RegionSize = 2`, `MaxRetries = 2`, `FewInstrs = 3`: a region with several operands, a
  squash that is repeated, and both sides of the test for a short queue.
* `Timeouts = {1}`: there is a hook before the wait expires, so it may be woken, requeued
  or stored to before and in between. After that hook a wait is like one with a timeout of
  zero; an instance with both has been checked (173 k states). Two threads suffice for races of
  a wake, a requeue and a timeout over one waiter, and for two that expire in one queue;
  three threads were checked without fairness (0.84 million states up to symmetry), and
  the proofs cover any number. `TimeMod` is the width of `SubsecondTime` scaled down.
* `MaxRounds = 2`: a released thread can be back at a barrier while others wake up.
* `ThreadSystem`: three threads on two cores, so that a core has a thread waiting for
  it; `MaxTime = 3` quanta with a scheduling quantum of one, so that a thread is
  pre-empted and comes back; `MaxCalls = 1`, one sleep, wait, pause, yield, affinity
  change or mode switch on top of creation, joins and exits.
* `DirCores`, `DirWays = 2` with three lines: as many requests as ways, so that an
  allocation must succeed, and a line that has to wait for an entry. `EntriesCorrect`
  and `DirInv` were also checked with three cores (0.65 million states), where
  allocations fail; the proofs remove the bounds.
* Sets of 2 to 4 ways with one line more than ways where lines have names; `PLRU` is
  implemented only for 4 and 8 ways. `MaxUpgrading = 4`: the whole set may be upgrading.
* `MaxWraps = 6` with a buffer of 3: more wraps than a two-bit generation tells apart.
* Machines of 2 to 8 cores, with all combinations of shared levels, controller
  placement and SMT (`Machines`); meshes and tori up to 3 by 4 (`NetworkModels`).
* Addresses are chosen at the ends of lines and pages and past `Wrap`.
* `WindowSize = 3` with up to seven micro-operations of two kinds in a behaviour: the ring
  turns more than twice. `MaxRequests = 5` with at most two intervals in a list, so that
  the list overflows and the code drops one; load and store units of two entries with
  up to four instructions, so that entries are shared, forwarded from and taken over;
  `MaxBranches = 16`: a loop of three is learned and changes once.
* `MaxEvents = 2`, `MaxSmTime = 8`: an ROI with two sampling periods, or two commands.
* `FifoSize = BufferSize = 2`, three instructions and one question: buffer and FIFO
  are both full while the writer waits.
* Two applications with three trace threads over all runs: one restart, or a second
  thread.
* Command lines of up to three arguments, so that one setting can override another on
  either side of a file. `SDTMaxSize = 2` with three loops and six instructions: the
  table overflows and ids are used again. The tracer has two threads, or one that
  recurses, and up to two regions; the statistics two threads on two cores and three
  moves.
* `NrWakes = {0, 1}` in `syscall`: with 0 a call requeues every waiter, also back to the
  word it came from; with 1 it wakes one and requeues the rest.

Fairness. A node's network thread takes messages from **one FIFO inbox**, so each
message gets its turn however many others arrive: strong fairness for each channel
into the directory and for DRAM replies, weak fairness for steps nothing can disable.
Memory accesses, evictions and replacement are not fair. In the servers a call that
holds the lock runs to its end (weak), a thread that keeps asking for `m_thread_lock`
gets it (strong: host mutexes are assumed not to starve a thread), and running threads
keep reaching the clock-skew barrier (`FutexPeriodic`, strong: between two hooks it is
disabled while a call holds the lock). `QueuedGetMutex` assumes that applications
unlock what they have locked, and `OwnersAwake`: no thread sleeps at a condition
or barrier with another mutex in hand, without which nothing can be promised. In
`AtomicRegion` host threads run and get `memMapsLock` in the end.

## 5. Proofs

Eight modules hold proofs. All of them are about the specification as the runs check it,
for every value of its constants. Each inductive invariant was checked by TLC
on the instance of its run before it was proved.

**`SetLockProofs`**, for every number of sharers and every set of network threads, from
`SetLockAssumption` alone (at least one sharer; network threads are not integers;
`NoThread` is not a thread):

* `TypeCorrect`: no loop leaves the vector of mutexes (`TypeOK`; the run leaves it to the proof);
* `MutexesCorrect`: `Spec => []MutexesMatchCode`;
* `Exclusion`: `Spec => []StackExclusion`;
* `NoDeadlockInAcquire`: `Spec => []WaitsUpward`;
* `Refinement`: `SetLock` implements `ReadersWriter`.

Exclusion is not inductive: it speaks of threads that are done acquiring, and says
nothing of the ones in the middle of a loop. The inductive invariant is `IInv` =
`TypeOK`, `MutexesMatchCode` (for every thread and mutex, whether the thread holds
it at its place in the code) and `SharedModeIsUsers` (only user threads, which own a
mutex of the vector, use the shared mode or wait to be handed the lock). Exclusion
follows because an exclusive holder holds every mutex, in particular the own mutex of
any reader. `WaitsUpward` follows because a thread inside `acquire_exclusive` holds
exactly the mutexes below its position. Refinement needs exclusion in the state
before the step: a thread that takes its last mutex becomes the writer, and a reader
would still hold its own. The preservation proof has one step per action; "effect"
lemmas say what `Goto`, `Lock` and `Unlock` do to one thread or mutex.

**`AtomicRegionProofs`**, from `RegionAssumption` (region size and retry limit are not
zero, operands are reads or writes, `"free"` is no core):

* `RegionsAreCorrect`: `Spec => []RegionsCorrect`: before a region's first instruction is
  counted nothing is left of the one before, and every access in the map is one of an
  instruction that `memoryInstructions` still has;
* `RetriesAreBounded`: `Spec => []RetriesBounded`, the squash loop ends;
* `CommitsAreExclusive`: one core at a time is in the squash loop.

`RetriesBounded` is not inductive: it does not say why a core whose budget is spent
cannot be squashed again. `RegionInv` adds that a core which still has
accesses has spent less than its budget (`CoreInv`), and that retries are 0 outside the
squash loop; the parts of `RegionsSeparate` are inductive as they stand, because the
handlers that give up a region empty the map whenever they empty `memoryInstructions`.
The step that needs work is a retry (`RetryFacts`): for each handler,
that it asked for a retry bounds the retries so far, by `MaxRetries % MaxRetries = 0`
for the adaptive handlers and by the two integer divisions for the probability one. The
dangling pointers play no part: a conflict needs at least one access, whatever is
read there. `count < RegionSize` outside `commit()` says that no region outgrows its
size unnoticed.

**`SyncServerProofs`**, from `SyncAssumption` (a finite set of threads, not empty;
`NoOwner` is not one of them; the bound of the run is a number):

* `SyncServerCorrect`: `Spec => []SyncCorrect` (types, `HoldersOwn`, `BarrierHolds`);
* `NobodyIsForgotten`: `Spec => []NobodyForgotten`.

`HoldersOwn` speaks of threads that have returned, but a mutex changes hands while its
next owner sleeps. `SyncInv` therefore follows a thread through its call: a queued
thread is stalled in the call that queued it (`Located`), in one queue and once
(`Apart`); a thread that was resumed in a lock already owns the mutex, and a mutex
nobody owns has no waiters (`Owned`); all threads have been let through a barrier the
same number of times, where a thread still queued counts one less (`Rounds`). The last
part makes early re-entry harmless: the thread that fills the barrier moves everybody one
round on. `NobodyForgotten` counts queue entries; `Apart` and `Located`
turn the counts into one or zero.

**`SyscallServerProofs`**, from `SyscallAssumption` (a finite set of threads; numbers of
wakes are naturals; timeouts, wake operations and the clock are of the types of the
call):

* `WaitersAreCorrect`: `Spec => []WaitersCorrect` (types, `SleepersQueued`, `ResultMatchesWaker`);
* `WakeupsAreKept`: `Spec => []NoLostWakeup`.

`FutexInv` says that the stalled threads are the queued ones (`Located`), that no queue
holds a thread twice and no two share one (`Apart`), at which places a thread is
stalled (`Placed`), and that a resumed thread carries the message of whoever resumed it
until its call returns (`Answered`). `NoLostWakeup` needs `CallFresh`: between the read
of the word and the comparison, the value read is that of the word, or somebody
has stored and still owes a wake. Its first formulation, which exempted a waiter
only while it was on a word other than its first, did not go through, and TLC found
why with `NrWakes = {0, 1}`: a waiter can be requeued twice, back to its word, with the
value it once waited for. The property is now about waiters that were never requeued.

**`CoherenceProofs`**, for every set of caches, protocol, set of values and bound of the
queues, from `CoherenceAssumption` (which tells the constants apart) and `FullMap`: an
entry has room for all caches. That is `directory_type = full_map`, which `base.cfg`
selects: `createDirectoryEntrySized` gives such an entry as many sharers as there are
(`directory_schemes/directory.cc:111`).

* `CoherenceInvariantHolds`: `Spec => []CoherenceInv`;
* `DirectoryKnows`: `Spec => []DirectoryKnowsCopies`;
* `OneWriter`: `Spec => []SingleWriter`;
* `EntryIsCorrect`: `Spec => []EntryCorrect` (types and `EntryConsistent`);
* `AssertionsNeverFail`: `Spec => []ControllerAssertions`.

None of these properties is inductive. That a cache may write alone depends on every
message under way: an `EX_REP` not yet received, an `INV_REP` that crosses an upgrade, a
demand that was sent before the cache evicted the line and arrives when it has asked for
it again. `CoherenceInv` (module `CoherenceInvariant`, without proofs, so that TLC can
check it) describes the protocol **from one cache at a time**. What the caches have in
common is the entry and the request at the head of the queue, so a step of one cache
leaves the others' part alone unless it changes these two. Its parts:

* `InSequence`: which types of message may follow each other in a channel to the
  directory, each at most once; `Inbox`: a channel from the directory holds at most one
  demand that came too late, then one reply, then one demand;
* `Fits`: the state of the line, the first waiter, the messages both ways, the cache's
  requests in the queue, whether the entry lists the cache, and what the request being
  served demands of it go together. Its heart: *the entry lists a cache if and only if it
  has the line, or is giving it up, or is being sent it, or the directory has promised it
  the line*; and a demand under way that the cache will answer is one that the
  request being served waits for;
* `HeadOK`, `EntryOK`, `QueueOK`, `MemoryOK`: what the request being served says of the
  entry, the entry of itself, the queue, and that at most one read is out at DRAM,
  for the head of the queue;
* `DataOK`: a message that is to carry the line carries it.

`CoherenceProofs` has one lemma for each action of a cache, which moves that cache and
its channels only (`CacheMoves`); the handlers of the directory come before them. Those are harder, because a reply may finish a request and start the next in the same
step. They are therefore cut at the record that a handler returns (the new entry,
queue and messages): `Started` says that the caches fit what the record leaves,
`HeadStarts` that every `Process...Req` returns such a record when it is called for a new
head, and `Performs` that carrying one out keeps the invariant. The `...Fits` lemmas
say what one change (a message taken or sent, a sharer listed or dropped) does to `Fits`.

`FullMap` is needed: with a limited entry, `UpgradeFindsLine` fails (section 6). The
limited directory stays with TLC, which checks `EntryCorrect` for one sharer per entry and
refutes `UpgradeFindsLine`, one of the `ControllerAssertions`, for two.

**`MemoryProofs`** holds the proofs of three parts of the memory system, one after the
other. *The tag directory* (`DirectoryCache`), for every number of cores, lines, ways and
hardware sharers and each type of entry, from `DirAssumption` (finitely many cores; at
least one way and one sharer; `Nullify` and `NoLine` are values of their own):

* `DirectoryInvariant`: `DirSpec => []DirInv`;
* `EntriesAreCorrect`: `DirSpec => []EntriesCorrect`.

`DirInv` says that the directory is `Sound`, or has stopped in an allocation that found
no entry, with more cores than ways. `Sound` adds to the properties what makes them
inductive: a nullify request is never behind another request and a core waits once
(`Turns`); every line with requests has an entry (`Served`); and nothing is replaced
while a way is free (`Room`). Without the last part, `getDirectoryEntry` could put a line
that is still on the list of replaced entries into a free way and it would have two. In
the middle of a handler `Served` is false of the line whose next request is looked at,
because the nullify request that just finished took its entry away. `Settled`
is `Sound` but for that line, and the lemmas `Looking`, `Requesting`,
`Answering`, `Releasing`, `Writing`, `Replacing`, `Allocating` and `Processing` say what each part of a
handler makes of it, in the order of the code. That an allocation finds an entry is a
pigeonhole argument (`MoreCoresThanWays`): if every way's line has requests, each is
headed by a core, all of them different, and the core being served is one more.

*The replacement policies* (`CacheSet`), from `SetAssumption` (the bits and counters are
`UInt8`: 1 to 256 ways, `RripMax` from 1 to 255) for at least two ways:

* `SetInvariant`: `Assoc >= 2` implies `SetSpec => []SetInv`;
* `ReplacementIsCorrect`: `Assoc >= 2` implies `SetSpec => []ReplacementCorrect`.

Two ways are needed: the only way of a direct-mapped set is the one used last, and
NMRU finds no victim in it (section 6). `SetInv` adds to the parts of
`ReplacementCorrect` what ties the replacement state to the order of use
(`Kept`): that order names every way once (`EachOnce`), without which
`moveToMRU` would not renumber a permutation; the bits of the stack policies are places
in it; NRU has marked no more ways than it has counted, so one is left; and the nodes of
the PLRU tree on the path to the way used last point away from it (`Pointing`, which
says that touching the way again changes nothing). There is one lemma for what each policy does
when a way is touched (`StackUpdate`, `NruUpdate`, `TreeUpdate`, `SrripUpdate`), one for
the victim each chooses (`LruChosen` to `RandomChosen`), and `Choosing` puts the latter
together. `Spare` is what LRU and NMRU have to choose from, and `Choosing` shows where each
policy may evict a line that is being upgraded, or find no victim (`UpgradeNotEvicted`,
for any number of upgrades); that none ever does is refuted (section 6). SRRIP ages all
counters by the same amount, and after that one of
them is at the maximum, so the scan ends. The run has four ways; the theorems cover the
tree of eight, too.

*The global history buffer* (`Prefetchers`), from `PfAssumption` (a buffer of more than
one entry, a table of at least one, and `None` is no difference of addresses):

* `HistoryInvariant`: `PfSpec => []GhbInv`;
* `HistoryIsCorrect`: `PfSpec => []HistoryCorrect`.

`GhbInv` says when everything was written. What lies before the head was recorded in this round
through the buffer and the rest in the one before (`Rounds`). An entry of the table led to the
right place when that place was written, and still does unless it has been overwritten
(`TablePoints`). The table is filled from the front (`FrontUsed`), so that a search
which stops at an unused entry misses no delta and none gets a second entry. The
code compares generations modulo 4; of two writes of one place less than four rounds
apart, the generations differ, which is why `TableLeadsToDelta` has that bound. The
flows of the stride prefetcher are in the specification, but no property is about them.

**`ThreadSystemProofs`**, for any number of cores and threads, all scheduling parameters and
both schedulers, from `ThreadSystemAssumption` (cores and threads are numbered from 0, there
is at least one of each, the bounds are numbers, `Interleaving` is at most the number of cores) and
`~FollowAborts`, as in the run:

* `SystemInvariant`: `Spec => []ThreadInv`;
* `PlacementAlways`: `Spec => []PlacementCorrect`;
* `AssertionsAlways`: `Spec => []AssertionsHold`;
* `WakeUpsAlways`: `Spec => []WakeUpsArrive`.

The hypothesis is needed. After an abort that left the clock of a core behind,
`UserOnCore`, a part of `PlacementCorrect`, is false (section 6), so the behaviours
considered end there. That is a fact about the code and no gap in the proof.

A critical section is a chain of operators, and between two of them the state is not one
that may be seen from outside: a core has been promised and not given, a thread that
stalls still has its core. So there are two invariants. `Mid` holds between any two
operators, for the thread whose handler is at work (its place is `"acting"`):

* `Tables`: the scheduler's table of cores and its table of threads are inverse, so are
  those of threads and cores, and a thread is on no core but the one meant for it;
* `Placed`, `Ready`: whoever has a core runs or starts and the core says so; whom the
  scheduler may choose;
* `AtPlaces`, `Waits`, `Asleep`: what the servers hold of a thread by what its host thread
  does, that whoever is noted as a waiter waits, for one thread, and that sleepers sleep;
* `InBarrier`: a held core names the thread that waits at it, a waiting thread is named
  by its core or has been signalled, and no free core is past the barrier time;
* `Woken`: whom the scheduler may choose, and that every stalled thread has a `Waker` (the
  thread it joins, the periodic hook, the scheduler, another thread), or is in a pause, or
  has been abandoned.

`ThreadInv` holds between critical sections and adds that every promise was kept
(`Settled`), that a held core still has its thread and its clock is due (`Held`), that `Woken`
holds, that no signal is pending, and that when nobody can execute (`Stuck`) the barrier is not reached.
Each operator is shown to keep `Mid` and to change no more than `Moves` (rescheduling),
`Turns` (the periodic hook) or `Over` (the end of a handler) allow; `Commit` makes
`ThreadInv` of that, and one lemma per action puts the operators together. TLC checked
`ThreadInv` on the instance of `threads` and with three cores (1.4 million states) first.

The nested resumes are an induction over the free cores: each fills one, so no resume is
left when there are none, and the assertion on the depth cannot fail. The rounds of
`barrierRelease` and the cores of `periodic` are inductions over counters. The library's
induction theorems cannot be instantiated, so `Induction` states it for a set instead of a
predicate, from the well-foundedness of `<`.

`NoLostSignal` follows from `Woken`. Its exception, `abandoned`, is filled in one place: the
start of a thread that has been joined already signals the joiner without resuming it, and
clears the field that would have made the exit resume it (section 6). `SystemInvariant`
thus also says that no other step of the three servers forgets anybody.

`RunningCanGo` is not inductive. It follows because, if nobody could execute, all
running threads would be waiting in the barrier at or past its time, so that the barrier
would be reached, and the step that reached it would have released it.

`ThreadStallProofs` has the lemmas on queues that the two servers share: who is in a
queue after `push_back`, `pop_front`, erasing from the middle (`InOrder`, with a
counting argument on ranks in place of recursion), dropping a prefix or joining, and
that these keep the elements of a queue distinct.

**What stays with TLC.** Liveness (`BarrierOpens`, `MissesComplete`,
`TimedWaitsReturn`, `QueuedGetMutex`): fairness and `ENABLED` are beyond the prover. What
recursive definitions compute, for every input: the library's induction theorems cannot
be instantiated with the installed provers, so `MCModels` and `MCMemory` compare such
definitions with a reference on bounded inputs. `CacheStack` and
`SimModes`: an access recurses through the levels, a release loops until a thread can go on, which is
modelled by `RECURSIVE` operators, about which the prover cannot reason. The coherence
protocol with a limited directory. `ThreadSystem` after an abort that left a stale clock
behind. The safety invariants of the other components in `MCMemory` (`CacheStack`,
`MemorySide`, `MemoryLayout`, `Network`, `CoreAccess`) and of those in `MCModels` are
model-checked only.

## 6. Where code and comments disagree

Two runs have a counterexample:

* `false_conflict`: a squash handler acts "if conflict is detected in PerformanceModel"
  (`squash_handler.h:29`), but all memory operands are created with the value 0
  (`pin/instruction_modeling.cc:113,119`, `system/trace_thread.cc:301,305`), so a commit
  reports a conflict between cores that access different locations.
* `upgrade_without_data`: "Trying to upgrade a block that is now INV and no data in the
  shmem_msg" (`cache_cntlr.cc:1852`) is an assertion that fails with a limited directory of two
  sharers per entry. An INV_REQ that was to make room is stale when an eviction made room first;
  it takes the line from a cache that has asked for an upgrade, and as the answer follows the
  request in its channel, the directory still lists the cache and grants the upgrade without
  data. `full_map`, the default, is not affected, as `CoherenceProofs` proves.

The following statements of comments, assertions or names are stated in the modules and
are refuted by TLC. They are in no run; to see the counterexample, add the name as an
INVARIANT (for a module of `MCMemory` or `MCModels`, as a definition
`which = "..." => X!Name` with that part alone in `Parts`).

| Statement | Module, instance | The code |
|---|---|---|
| `SquashedByOpenRegion` | `AtomicRegion` | `commit()` releases `memMapsLock` and `resetMemMap()` takes it again (`performance_model.cc:367,374`); in between another core is squashed for a region that has ended |
| `DroppedDataIsClean` | `Coherence`, two `Values` | a dirty line written back for a reader never reaches DRAM (`dram_directory_cntlr.cc:1156`), although an INV is called "data clean" (`:418`) |
| `TimeoutAsAsked` | `SyscallServer`, `TimeStart` not 0 | the start of the emulated clock is subtracted from relative timeouts too (`syscall_server.cc:60`, compare `:70`) |
| `AwakeIsRunning` | `SyscallServer`, `SpecWithSignals` | "Restart futex_wait if it was interrupted by a signal" (`misc/cond.cc:45`) tests for `-EINTR`, but `syscall()` returns -1 |
| `SleepersWake` | `ThreadSystem` | the comment at `thread_manager.cc:341` promises that time advances for sleepers; a thread that exits and leaves only sleepers behind advances nothing (`:141-178`) |
| `JoinersWoken` | `ThreadSystem` | whoever waits for a thread's start and whoever joins it share one field; `onThreadStart` signals a joiner, which stalls again, and forgets it, so that no exit resumes it (`thread_manager.cc:134-138`) |
| `UserOnCore` | `ThreadSystem`, `FollowAborts = TRUE` | `abortBarrier` leaves `m_local_clock_list` behind (`barrier_sync_server.cc:298`), compare `scheduler_dynamic.cc:66` |
| `ReadersSeeLatest` | `CacheStack` | a fill copies the state of the level below (`cache_cntlr.cc:605-642`), so two caches over a shared level may both be writable |
| `NucaWritesBack` | `MemorySide` | a line whose first store missed in the slice is dropped when evicted (`nuca_cache.cc:104`; `dram_directory_cntlr.cc:1238` expects a write-back) |
| `UpgradingIsNoVictim` | `CacheSet` | round robin tests the way after the one it returns (`cache_set_round_robin.cc:20-23`), and LRU returns the index 0 it started with when no way is to spare (`cache_set_lru.cc:25,35`), both against `isValidReplacement` (`cache_set.cc:204`) |
| `VictimAmongOthers` | `CacheSet` | one line being upgraded can stop NRU, PLRU and SRRIP (`cache_set_plru.cc:84`, `cache_set_srrip.cc:54`) although other ways could be evicted |
| `EveryL1Covered` | `MemoryLayout` | "Turn of optimization" (`memory_manager.cc:334`) compares the sizes of the L1-D caches, not their associativities (`:118`, `:340`), so that two lines of a set can be under different locks |
| `SkippedOnlyInSameLine` | `CoreAccess` | "When accessing the same cache line as last time" (`core.cc:220`): the mask of lines is 32 bits wide (`:212`), so above 4 GB another line counts as the same |
| `ChargedExactlyOnce` | `MicroOps` | a long access is charged to the clock at once, "the latency has already been taken into account here" (`micro_op_performance_model.cc:444`), and the timer gets one cycle more for it (`:510`) |
| `LearnedIsPredicted` | `BranchPredictor` | a loop that the loop predictor has learned is still mispredicted when the global predictor hits, which is asked first (`pentium_m_branch_predictor.cc:29`) |
| `RegionTimeExact` | `RoutineTracer` | a thread that moves between the flag of the region and its own hook accounts time outside the region, or loses some (`magic_server.cc:153`, `routine_tracer.cc:32`) |
| `IncludesChildren` | `RoutineTracer` | "includes statistics from child calls" (`routine_tracer_funcstats.h:74`): a caller's time stops when it calls and starts again when the callee returns |
| `WindowRemembers` | `QueueModels` | an unsigned difference wraps in the first window (`queue_model_windowed_mg1.cc:31`, compare `:30`) |
| `CostTakesTime` | `Iocoom` | the cost of an instruction is assigned to a temporary (`iocoom_performance_model.cc:130`, compare `:123`) |
| `InfoPaired` with `PqModels = {"simple"}` | `PerfQueue` | `getCost` is called twice and takes information twice (`simple_performance_model.cc:55-58`, also `iocoom_performance_model.cc:40`; compare `performance_model.cc:555`) |
| `ReleaseEnds` | `SimModes` | with the stale list above, `isBarrierReached` counts a released core and `barrierRelease` loops with the thread lock held (`barrier_sync_server.cc:199-291`; comment at `:241`) |
| `AdvanceAdvances` | `SimModes` | with the barrier disabled `barrierRelease` returns before it moves time, so the loop in `stallThread` spins (`thread_manager.cc:341`) |

Seen while modelling; the models follow the code:

* *coherence*: an upgrading forwarder answers a WB_REQ from a buffer that is not filled
  (`cache_cntlr.cc:1962`), and a request keeps a pointer into a message that is
  deleted (`dram_directory_cntlr.cc:1134`): both are `Garbage`. UPGRADE_REP makes all
  copies above MODIFIED (`cache_cntlr.cc:1842`); the prefetch queue may be one longer
  than its maximum (`:662`); `acquireStackLock(true)` passes an address of 1 (`:1693`);
  `eviction` is not initialised on a NUCA write hit (`dram_directory_cntlr.cc:1203`).
* *atomic regions*: the map keeps pointers into a copy of the operand list
  (`performance_model.cc:417,435`); `Instruction::translated` is not initialised;
  `totalExecCost` starts again with each block; the regions of stalled cores are
  ignored; `ProbabilityHandler` divides integers and never interprets.
* *servers*: FUTEX_WAKE_BITSET ignores its mask (`syscall_server.cc:85`); a trylock by
  the owner queues it behind itself (`sync_server.cc:32`), an exception in
  `QueuedGetMutex`; `synchronize` looks `master_core` up with `core_id`
  (`barrier_sync_server.cc:62`), without effect because groups are never set.
* *modes*: uncoordinated sampling resets its history before it equalises times
  (`periodic_sampling.cc:184`), random placement adds the warm-up twice (`:121-133`),
  `sampling_manager.cc:87` passes a core where a thread is expected. With sampling and
  ROI marks the barrier does not follow the mode (`simulator.cc:236,250`);
  the instance leaves this configuration out.
* *cache sets and prefetchers*: a direct-mapped NMRU set finds no victim: its only way is
  the one used last (`cache_set_nmru.cc:37-51`).
* *network and layout*: a broadcast tree on a torus never ends
  (`network_model_emesh_hop_by_hop.cc:165-176`; off by default); an odd torus may be crossed the
  longer way; a `netRecv` with a timeout gives up after the first wake-up
  (`network.cc:349`); only L1-D caches are compared for the number of set locks
  (FIXME at `memory_manager.cc:344`); a mesh one node wide lists nodes twice.
* *core models*: an instruction that spans two lines fetches the first; `longLatencyOperationLatency`
  returns `true` (`windows.cc:279`); the IOCOOM scoreboard never delays a reader; the
  history list's interval wraps when a request does not fit
  (`queue_model_history_list.cc:179`); a replaced loop predictor entry keeps its enable
  bit (`lpb.h:252`).
* *configuration*: an array of one element is saved as `key[] = v` and read back as a
  plain value (comment at `config_file.cpp:342`); `hasKey` without an index is true for a
  key that has only values per core, and `getKey` then dereferences NULL
  (`section.cpp:120,173`); `--key=v` is stored in a section with an empty name and not
  found at the root (`handle_args.cc:120-134`); the comment on the grammar in
  `config_file.hpp` allows keys at the root, the grammar does not.
* *measurements*: a register that toggles back leaves the update buffer, so that the loop
  counts as one that changed nothing; nested spins count instructions twice. The time
  accounted to routines exceeds that of the region when routine 0 is on the stack at the
  end of the ROI (`routine_tracer.cc:161`). The elapsed time of a thread is an unsigned
  difference with an earlier time as minuend possible (`thread_stats_manager.cc:139`).
* *traces*: code is sent once, so modified code is read stale; the last instruction of
  a trace is not simulated; `endApplication` walks `m_threads` without its lock
  (`trace_manager.cc:176`); the recorder matches clones and thread starts in FIFO order
  (`sift/recorder/threads.cc:19`).

## 7. Not modelled

* Numbers of the timing models that no control depends on (latencies of caches, DRAM
  and network, energy), the decoder's instruction tables, the one-bit predictor: data
  with nothing to model-check.
* The rest of the Pin front end: binary instrumentation through an external API.
* Hooks, scripting, statistics output, DVFS and visualisation: registration
  and reporting without a protocol. The order in which hooks run is in the
  modules of the servers.
* Fault injection: random bit flips on data.
* The static and big-small schedulers, the broadcast tree of the mesh, barriers of
  `SyncServer` whose count differs from the number of threads, two `exit_group` calls
  at once, the alternative lock `_SELock` (never selected).

## 8. Plan

All components with control of their own have a module. What is left is proof, in
this order: `TraceManager` (`CountsExact`), `ThreadStats` (`OwnInstructions`) and
`CoreAccess` (`InfosInOrder`).
