------------------------------ MODULE SimModes ------------------------------
(***************************************************************************)
(* Who controls simulated time.  MagicServer opens and closes the region   *)
(* of interest (ROI); Simulator keeps the instrumentation mode; outside    *)
(* the ROI FastForwardPerformanceManager ("the manager") and inside it     *)
(* SamplingManager with PeriodicSampling let cores fast-forward: time then *)
(* grows by a fixed CPI, and a core enters the clock-skew barrier when an  *)
(* instruction callback fires instead of when its time is up.              *)
(*                                                                         *)
(* A simulator state is a record s; s.core[c] is the part of core c.  The  *)
(* barrier is the one of ThreadSystem without migration.  What the history *)
(* of CPIs yields is an input.                                             *)
(***************************************************************************)
EXTENDS Integers, FiniteSets, FiniteSetsExt

CONSTANTS SmCores,
          SmConfigs,    \* [roi, init, end, manager, sampling, uncoordinated, warmup, random]
          Quantum,      \* clock_skew_minimization/barrier/quantum
          SyncEvery,    \* perf_model/fast_forward/oneipc/interval
          Detailed, FastForward, FfSync, Warmup,   \* sampling/periodic/*_interval
          Cpis,         \* CPIs the detailed intervals may measure
          MaxTurns,     \* bound: quanta for which nobody runs
          MaxSmTime,    \* bound: cores stop executing at this time
          MaxEvents     \* bound: ROI and mode commands and stalls

VARIABLES sm_cfg, sm, sm_events

smVars == <<sm_cfg, sm, sm_events>>

NoCallback == -1                     \* UINT64_MAX
Latest(S)  == Max(S \union {0})
Running(s) == {c \in SmCores : s.core[c].run}
Each(s, F(_)) == [s EXCEPT !.core = [c \in SmCores |-> F(s.core[c])]]
-----------------------------------------------------------------------------
(* SubsecondTime::divideRounded *)
DivideRounded(a, b) == (a + (b \div 2) + 1) \div b

(* Mutant: a core that is past its target keeps the callback it has. *)
CallbackOnlyAhead(k, target, cpi) ==
    IF k.time > target THEN k ELSE [k EXCEPT !.cb = DivideRounded(target - k.time, cpi)]

(* SamplingManager and FastForwardPerformanceManager::recalibrateInstructionsCallback *)
SetCallback(k, target, cpi) ==
    [k EXCEPT !.cb = IF k.time > target THEN 1 ELSE DivideRounded(target - k.time, cpi)]

(* CPI not set up: one instruction a cycle *)
SamplingAim(s, k) == SetCallback(k, s.target, IF k.cpi = 0 THEN 1 ELSE k.cpi)

ManagerAim(s, k)  == LET aimed == SetCallback(k, s.sync, 1)
                     IN  IF k.time > s.sync THEN aimed ELSE [aimed EXCEPT !.cpi = 1]

(* Mutant: only the manager is told. *)
NotifyManagerOnly(s, k) == IF sm_cfg.manager THEN ManagerAim(s, k) ELSE k

(* FastforwardPerformanceModel::notifyElapsedTimeUpdate: both managers aim again, *)
(* whichever of them is fast-forwarding                                           *)
NotifyElapsedTimeUpdate(s, k) ==
    IF sm_cfg.manager THEN ManagerAim(s, SamplingAim(s, k)) ELSE SamplingAim(s, k)

(* BarrierSyncServer::setFastForward *)
BarrierFastForward(s, ff, t) == [s EXCEPT !.bff = ff, !.next = Latest({s.next, t})]

(* BarrierSyncServer::abortBarrier *)
AbortBarrier(s) == Each(s, LAMBDA k : [k EXCEPT !.wait = FALSE])

(* Mutant: the barrier stays disabled when detailed mode returns. *)
ModeKeepsBarrier(s, mode, update_barrier) ==
    IF mode = s.mode THEN s
    ELSE IF ~update_barrier \/ sm_cfg.manager \/ mode = "detailed" THEN [s EXCEPT !.mode = mode]
    ELSE [AbortBarrier(s) EXCEPT !.mode = mode, !.disable = TRUE]

(* Simulator::setInstrumentationMode, BarrierSyncServer::setDisable *)
SetInstrumentationMode(s, mode, update_barrier) ==
    IF mode = s.mode THEN s
    ELSE LET moved == [s EXCEPT !.mode = mode]
         IN  IF ~update_barrier \/ sm_cfg.manager THEN moved
             ELSE IF mode = "detailed" THEN [moved EXCEPT !.disable = FALSE]
             ELSE [AbortBarrier(moved) EXCEPT !.disable = TRUE]
-----------------------------------------------------------------------------
(* FastForwardPerformanceManager::step *)
ManagerStep(s) ==
    LET aimed == [s EXCEPT !.sync = s.global + SyncEvery]
        cores == Each(aimed, LAMBDA k : ManagerAim(aimed, [k EXCEPT !.ff = TRUE]))
    IN  BarrierFastForward(cores, TRUE, Latest({s.core[c].time : c \in SmCores}))

(* FastForwardPerformanceManager::enable *)
ManagerEnable(s) == ManagerStep(Each([s EXCEPT !.mgr = TRUE], LAMBDA k : [k EXCEPT !.on = TRUE]))

Detach(k) == [k EXCEPT !.ff = FALSE, !.cb = NoCallback]

(* Mutant: the barrier is left in fast-forward mode. *)
ManagerDisableForgets(s) ==
    AbortBarrier(Each([s EXCEPT !.mgr = FALSE], LAMBDA k : [Detach(k) EXCEPT !.on = FALSE]))

(* FastForwardPerformanceManager::disable *)
ManagerDisable(s) ==
    LET cores == Each([s EXCEPT !.mgr = FALSE], LAMBDA k : [Detach(k) EXCEPT !.on = FALSE])
    IN  AbortBarrier(BarrierFastForward(cores, FALSE, Latest({s.core[c].time : c \in Running(s)})))

(* SamplingManager::enableFastForward *)
SamplingEnable(s, until, warmup) ==
    LET aimed == [s EXCEPT !.ff = TRUE, !.warm = warmup, !.target = until]
        cores == Each(aimed, LAMBDA k : SamplingAim(aimed, [k EXCEPT !.ff = TRUE]))
    IN  SetInstrumentationMode(
            BarrierFastForward(cores, TRUE, Latest({s.core[c].time : c \in SmCores})),
            IF warmup THEN "cache_only" ELSE "fast_forward", FALSE)

(* SamplingManager::disableFastForward.  Uncoordinated cores are set to one time. *)
SamplingDisable(s) ==
    LET t     == Latest({s.core[c].time : c \in Running(s)})
        cores == Each([s EXCEPT !.ff = FALSE, !.warm = FALSE], Detach)
        equal == Each(cores, LAMBDA k : [k EXCEPT !.ffd = @ + t - k.time, !.time = t])
    IN  SetInstrumentationMode(
            BarrierFastForward(IF sm_cfg.uncoordinated THEN equal ELSE cores, FALSE, t),
            "detailed", FALSE)

(* SamplingManager::resetCoreHistoricCPIs; ffd is the part of the time that is fast-forwarded *)
ResetHistoricCPIs(s) == Each(s, LAMBDA k : [k EXCEPT !.base = k.ffd])
-----------------------------------------------------------------------------
(* PeriodicSampling::stepFastForward; done when nothing remains *)
StepFastForward(s, t) ==
    LET f == Min({s.left, FfSync})
        w == Min({s.wleft, FfSync})
    IN  IF s.left > 0
        THEN SamplingEnable([s EXCEPT !.left = @ - f], t + f, FALSE)
        ELSE SamplingEnable([s EXCEPT !.wleft = @ - w], t + w, TRUE)

Done(s) == s.left = 0 /\ s.wleft = 0

(* Mutant: the measurements go on from before the fast-forward. *)
CallbackKeepsHistory(s, t) ==
    IF ~Done(s) THEN StepFastForward(s, t)
    ELSE [SamplingDisable(s) EXCEPT !.last = t, !.dleft = sm_cfg.warmup]

(* PeriodicSampling::callbackFastForward *)
CallbackFastForward(s, t) ==
    IF ~Done(s) THEN StepFastForward(s, t)
    ELSE [SamplingDisable(ResetHistoricCPIs(s)) EXCEPT !.last = t, !.dleft = sm_cfg.warmup]

(* Mutant: detailed warm-up lasts as long as the detailed interval. *)
WarmupOverLate(s, t) == t > s.last + Detailed

WarmupOver(s, t) == t > s.last + sm_cfg.warmup

(* PeriodicSampling::callbackDetailed; cpi is what the history yields, offset the random placement *)
CallbackDetailed(s, t, cpi, offset) ==
    IF t > s.last + Detailed
    THEN LET left   == IF sm_cfg.random THEN FastForward + Warmup - s.offset + offset ELSE FastForward
             failed == s.dleft # 0 \/ (left = 0 /\ Warmup = 0)
             begun  == [s EXCEPT !.left = left, !.wleft = Warmup, !.error = @ \/ failed,
                                 !.offset = IF sm_cfg.random THEN offset ELSE @]
         IN  [StepFastForward(Each(begun, LAMBDA k : [k EXCEPT !.cpi = cpi]), t) EXCEPT !.last = t]
    ELSE IF s.dleft > 0 /\ WarmupOver(s, t) THEN [ResetHistoricCPIs(s) EXCEPT !.dleft = 0]
    ELSE s

(* FastForwardPerformanceManager::periodic *)
ManagerPeriodic(s) == IF s.mgr THEN ManagerStep(s) ELSE s

(* HOOK_PERIODIC: SamplingManager::periodic, then the manager's *)
Periodic(s, cpi, offset) ==
    ManagerPeriodic(IF ~sm_cfg.sampling THEN s
                    ELSE IF s.ff THEN CallbackFastForward(s, s.global)
                    ELSE CallbackDetailed(s, s.global, cpi, offset))
-----------------------------------------------------------------------------
(* BarrierSyncServer::isBarrierReached *)
IsBarrierReached(s) ==
    IF s.bff
    THEN (\E c \in SmCores : s.core[c].wait) /\ \A c \in Running(s) : s.core[c].wait
    ELSE Running(s) # {} /\ \A c \in Running(s) : s.core[c].clock >= s.next

(* one iteration of the loop of BarrierSyncServer::barrierRelease: the hook, then the next barrier *)
NextBarrier(s) ==
    LET next == s.next + Quantum
    IN  Each([s EXCEPT !.next = next], LAMBDA k : [k EXCEPT !.wait = @ /\ k.clock >= next])
Turn(s, cpi, offset) == NextBarrier(Periodic([s EXCEPT !.global = s.next], cpi, offset))

(* the loop ends when a core is resumed; if none waits it never does *)
RECURSIVE ReleaseLoop(_, _, _)
AfterTurn(s, turned, cpi, offset) ==
    IF \E c \in SmCores : s.core[c].wait /\ ~turned.core[c].wait THEN turned
    ELSE ReleaseLoop(turned, cpi, offset)
ReleaseLoop(s, cpi, offset) ==
    IF \A c \in SmCores : ~s.core[c].wait THEN [s EXCEPT !.spins = "release"]
    ELSE AfterTurn(s, Turn(s, cpi, offset), cpi, offset)

(* BarrierSyncServer::barrierRelease *)
BarrierRelease(s, cpi, offset) ==
    LET clocks == {s.core[c].clock : c \in SmCores}
    IN  ReleaseLoop([s EXCEPT !.next = IF s.bff THEN Latest(clocks \union {@}) ELSE @], cpi, offset)

Check(s, cpi, offset) == IF ~s.disable /\ IsBarrierReached(s) THEN BarrierRelease(s, cpi, offset) ELSE s

(* BarrierSyncServer::synchronize, after which the client sets its next time to call *)
Synchronize(s, c, cpi, offset) ==
    LET t     == s.core[c].time
        asked == [s EXCEPT !.core[c].sync = ((t \div Quantum) * Quantum) + Quantum]
    IN  IF s.disable \/ (t < s.next /\ ~s.bff) THEN asked
        ELSE Check([asked EXCEPT !.core[c].wait = TRUE, !.core[c].clock = t], cpi, offset)
-----------------------------------------------------------------------------
Core0 == [on |-> FALSE, ff |-> FALSE, run |-> TRUE, wait |-> FALSE, time |-> 0, clock |-> 0, sync |-> Quantum,
          cb |-> NoCallback, cpi |-> 0, ffd |-> 0, base |-> 0, due |-> 0]

(* MagicServer::enablePerformance, Simulator::enablePerformanceModels (inst_mode_roi is detailed) *)
EnablePerformance(s) ==
    LET off == IF sm_cfg.manager THEN ManagerDisable(s) ELSE s
    IN  SetInstrumentationMode(Each([off EXCEPT !.roi = TRUE], LAMBDA k : [k EXCEPT !.on = TRUE]), "detailed", TRUE)

(* MagicServer::disablePerformance, Simulator::disablePerformanceModels *)
DisablePerformance(s) ==
    LET off == Each([s EXCEPT !.roi = FALSE], LAMBDA k : [k EXCEPT !.on = FALSE])
    IN  SetInstrumentationMode(IF sm_cfg.manager THEN ManagerEnable(off) ELSE off, sm_cfg.end, TRUE)

(* Simulator::start *)
Started ==
    LET fresh == SetInstrumentationMode(
                    [mode |-> "invalid", roi |-> FALSE, mgr |-> FALSE, disable |-> FALSE, bff |-> FALSE,
                     next |-> Quantum, global |-> 0, sync |-> 0, ff |-> FALSE, warm |-> FALSE, target |-> 0,
                     left |-> 0, wleft |-> 0, dleft |-> 0, last |-> 0, offset |-> 0, error |-> FALSE, spins |-> "no",
                     core |-> [c \in SmCores |-> Core0]], sm_cfg.init, TRUE)
    IN  IF sm_cfg.roi = "full" THEN EnablePerformance(fresh)
        ELSE IF sm_cfg.manager THEN ManagerEnable(fresh) ELSE fresh

Event == sm_events' = sm_events + 1 /\ UNCHANGED sm_cfg

SmInit == sm_cfg \in SmConfigs /\ sm = Started /\ sm_events = 0

(* the thread on core c executes code of the application *)
CanGo(c) == sm.core[c].run /\ ~sm.core[c].wait /\ sm.core[c].due = 0 /\ sm.spins = "no"

(* SamplingManager::instr_count, FastForwardPerformanceManager::instr_count *)
InstrCount(s, c, cpi, offset) ==
    LET all == IF s.ff /\ s.roi /\ sm_cfg.uncoordinated THEN Each(s, LAMBDA k : [k EXCEPT !.cb = 1]) ELSE s
    IN  IF (s.ff /\ s.roi) \/ s.mgr THEN Synchronize(all, c, cpi, offset) ELSE s

(* FastforwardPerformanceModel::countInstructions, incrementElapsedTime *)
Elapse(k, step) == [k EXCEPT !.time = @ + step, !.ffd = @ + (IF k.ff THEN step ELSE 0)]

(* Core::countInstructions of an instruction; in detailed mode the performance model has advanced before *)
Execute(c, cpi, offset) ==
    LET k     == sm.core[c]
        step  == IF k.ff THEN k.cpi ELSE IF k.on /\ sm.mode = "detailed" THEN 1 ELSE 0
        fires == k.cb \in {0, 1}
        moved == [sm EXCEPT !.core[c] = [Elapse(k, step) EXCEPT !.cb = IF fires THEN NoCallback ELSE Latest({@, 0}) - 1]]
    IN  /\ CanGo(c) /\ k.time < MaxSmTime
        /\ sm' = IF fires THEN InstrCount(moved, c, cpi, offset)
                 ELSE IF ~k.ff /\ step > 0 /\ moved.core[c].time >= k.sync THEN Synchronize(moved, c, cpi, offset)
                 ELSE moved
        /\ UNCHANGED <<sm_cfg, sm_events>>

(* a thread stalls (ThreadManager::stallThread, BarrierSyncServer::signal) *)
Stall(c, cpi, offset) ==
    /\ CanGo(c) /\ Running(sm) # {c} /\ sm_events < MaxEvents
    /\ sm' = Check([sm EXCEPT !.core[c].run = FALSE], cpi, offset)
    /\ Event

(* the loop of BarrierSyncServer::advance: after n turns the hook of the syscall server wakes W *)
RECURSIVE AdvanceLoop(_, _, _, _, _)
AdvanceLoop(s, n, W, cpi, offset) ==
    IF n > 0 THEN AdvanceLoop(Turn(s, cpi, offset), n - 1, W, cpi, offset)
    ELSE LET wake(d) == [s.core[d] EXCEPT !.run = TRUE, !.due = s.next]
         IN  Periodic([s EXCEPT !.global = s.next,
                                !.core = [d \in SmCores |-> IF d \in W THEN wake(d) ELSE s.core[d]]], cpi, offset)

(* the last thread stalls (ThreadManager::stallThread, BarrierSyncServer::advance).  A disabled barrier *)
(* returns before it moves its time, and stallThread calls it again and again.                       *)
Advance(c, n, W, cpi, offset) ==
    /\ CanGo(c) /\ Running(sm) = {c} /\ sm.next < MaxSmTime /\ sm_events < MaxEvents
    /\ sm' = IF sm.disable THEN [sm EXCEPT !.core[c].run = FALSE, !.spins = "advance"]
             ELSE AdvanceLoop([sm EXCEPT !.core[c].run = FALSE], n, W, cpi, offset)
    /\ Event

(* thread c resumes another one, which has yet to account for the time it slept *)
Resume(c, d) ==
    /\ CanGo(c) /\ ~sm.core[d].run
    /\ sm' = [sm EXCEPT !.core[d].run = TRUE, !.core[d].due = Latest({sm.core[c].time, 1})]
    /\ UNCHANGED <<sm_cfg, sm_events>>

(* PerformanceModel::handleIdleInstruction: the SyncInstruction of a resumed thread.  With the models *)
(* off the instruction is ignored.                                                                   *)
Jump(c) ==
    LET k      == sm.core[c]
        jumped == [k EXCEPT !.time = Latest({k.time, k.due}), !.due = 0]
    IN  /\ k.run /\ k.due > 0
        /\ sm' = [sm EXCEPT !.core[c] = IF ~k.on THEN [k EXCEPT !.due = 0]
                                        ELSE IF k.ff THEN NotifyElapsedTimeUpdate(sm, jumped) ELSE jumped]
        /\ UNCHANGED <<sm_cfg, sm_events>>

(* MagicServer::setPerformance *)
SetPerformance(s, on) == IF on = s.roi THEN s ELSE IF on THEN EnablePerformance(s) ELSE DisablePerformance(s)

(* MagicServer::Magic_unlocked: SIM_CMD_ROI_TOGGLE, _START, _END *)
Roi(c, on) ==
    /\ CanGo(c) /\ sm_cfg.roi = "magic" /\ sm_events < MaxEvents
    /\ sm' = SetPerformance(sm, on)
    /\ Event

(* SIM_CMD_INSTRUMENT_MODE: MagicServer::setInstrumentationMode *)
Instrument(c, mode) ==
    /\ CanGo(c) /\ ~sm_cfg.sampling /\ sm_events < MaxEvents
    /\ sm' = SetInstrumentationMode(sm, mode, TRUE)
    /\ Event

SmNext ==
    \E c \in SmCores :
        \/ \E cpi \in Cpis, offset \in 0 .. FastForward + Warmup - 1 :
               /\ (sm_cfg.sampling \/ cpi = Max(Cpis)) /\ (sm_cfg.random \/ offset = 0)
               /\ \/ Execute(c, cpi, offset)
                  \/ Stall(c, cpi, offset)
                  \/ \E n \in 0 .. MaxTurns, W \in SUBSET SmCores \ {{}} : Advance(c, n, W, cpi, offset)
        \/ \E d \in SmCores : Resume(c, d)
        \/ Jump(c)
        \/ \E on \in BOOLEAN : Roi(c, on)
        \/ \E mode \in {"detailed", "cache_only", "fast_forward"} : Instrument(c, mode)
-----------------------------------------------------------------------------
SmTypeOK ==
    /\ sm_cfg \in SmConfigs /\ sm_events \in 0 .. MaxEvents
    /\ sm.mode \in {"detailed", "cache_only", "fast_forward"}
    /\ \A c \in SmCores : sm.core[c].time \in Nat /\ sm.core[c].cb \in Nat \union {NoCallback}
    /\ sm.left \in 0 .. 2 * (FastForward + Warmup) /\ sm.wleft \in 0 .. Warmup /\ sm.dleft \in Nat

(* While the barrier fast-forwards nothing but its instruction callback brings a core to the barrier: *)
(* every core that runs outside the barrier has one (core.cc:144-149 disarms it when it fires), also  *)
(* after a stall, a time jump and the ends of ROIs.                                                   *)
NobodyRunsAway ==
    sm.bff => \A c \in SmCores : CanGo(c) => sm.core[c].cb # NoCallback

(* The callback of a fast-forwarding core is aimed at the time the manager wants to leave             *)
(* fast-forward, to within an instruction, whatever time jumps happened since (or at the next         *)
(* instruction).  Uncoordinated cores stop with the first one.                                        *)
AimPoint ==
    \A c \in SmCores :
        LET k   == sm.core[c]
            aim == IF sm.mgr THEN sm.sync ELSE sm.target
            end == k.time + k.cb * k.cpi
        IN  CanGo(c) /\ k.ff /\ k.cb > 1 => end <= aim + k.cpi /\ end >= aim - k.cpi

(* The CPI that drives fast-forward is measured over detailed simulation only: no core has             *)
(* fast-forwarded since the history was reset.  (In uncoordinated mode the cores' times are equalised  *)
(* after the reset.)                                                                                  *)
HistoryIsDetailed ==
    sm_cfg.sampling /\ ~sm.ff /\ ~sm_cfg.uncoordinated => \A c \in SmCores : sm.core[c].ffd = sm.core[c].base

(* The assertions of PeriodicSampling::callbackDetailed: detailed warm-up ends before the detailed    *)
(* interval does, and there is something to fast-forward.                                             *)
SamplingAssertions == ~sm.error

(* The managers, the cores and the barrier agree on whether time is fast-forwarded, and the models are *)
(* on whenever somebody relies on them, through any sequence of ROIs.                                 *)
ModesAgree ==
    LET ff == sm.mgr \/ sm.ff
    IN  /\ sm.bff = ff /\ \A c \in SmCores : sm.core[c].ff = ff
        /\ sm.mgr \/ sm.roi => \A c \in SmCores : sm.core[c].on
        /\ sm_cfg.manager => sm.mgr = ~sm.roi

(* Without a manager the barrier is off exactly when the mode is not detailed, unless sampling is in   *)
(* charge of it ("Else, disable the barrier in fast-forward/cache-only", simulator.cc:251).           *)
BarrierFollowsMode ==
    ~sm_cfg.manager /\ ~(sm_cfg.sampling /\ sm.roi) => sm.disable = (sm.mode # "detailed")

(* barrierRelease advances time "till a core can be resumed" (barrier_sync_server.cc:241-243): it is  *)
(* called only when some core waits in the barrier.                                                  *)
ReleaseEnds == sm.spins # "release"

(* "When all threads are stalled, we have a deadlock -- unless we let the barrier advance time"       *)
(* (thread_manager.cc:341): advance() does advance time.                                             *)
AdvanceAdvances == sm.spins # "advance"

(* Regions of interest, fast-forwarding and sampling: a core that           *)
(* fast-forwards outside the barrier has a callback that will bring it      *)
(* there, aimed at the time in force; the CPI that drives it was measured   *)
(* in detailed simulation; the sampling assertions hold; and cores, models  *)
(* and barrier follow the mode through any sequence of ROIs.                *)
ModesCorrect ==
    SmTypeOK /\ NobodyRunsAway /\ AimPoint /\ HistoryIsDetailed /\ SamplingAssertions /\
    ModesAgree /\ BarrierFollowsMode
=============================================================================
