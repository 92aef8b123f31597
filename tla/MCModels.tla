------------------------------ MODULE MCModels ------------------------------
(***************************************************************************)
(* How instructions become simulated time: the trace front end (recorder,  *)
(* SIFT stream, manager of the trace threads), the performance models with *)
(* their queues and predictors, the modes of the simulator, its            *)
(* configuration, and what it measures. They share no state in these       *)
(* models, so a behaviour is one of one part.                              *)
(***************************************************************************)
EXTENDS Integers, Sequences, TLC

CONSTANTS Parts, PqModels, PqFronts, PqBlocks, BlockQueueSize, InfoQueueSize, Latencies,
          Cutoff, WakeTimes, MaxBlocks, MaxDynamic, MaxIdle, Ops, Registers, WindowSize,
          DispatchWidth, LongLatency, BranchPenalty, FixedBase, Outstanding, MaxOps, MaxKinds,
          UopLines, MaxLoads, MaxStores, DynCosts, LongCutoff, MaxUopInsns, QueueKinds,
          Arrivals, LateArrivals, Services, MinService, MaxList, Window, Word, MaxRequests,
          BpBranches, BpWays, Runs, HistoryLength, MaxChanges, MaxBranches, IoInsns,
          IoRegisters, LoadUnits, StoreEntries, MaxIoInsns, SmCores, SmConfigs, Quantum,
          SyncEvery, Detailed, FastForward, FfSync, Warmup, Cpis, MaxTurns, MaxSmTime,
          MaxEvents, Code, CodePage, VaPage, BufferSize, FifoSize, MaxIns, MaxQuestions,
          MaxAccesses, TmApps, MaxThreads, Patience, RecThreads, RecConfigs, RecApps, AppFifos,
          MaxSent, CfFiles, CfDefault, CfArgs, CfLower, CfPaths, CfIndices, MaxCfArgs, SpLoops,
          SpRegisters, SpValues, SDTMaxSize, MaxSpIns, RtThreads, Routines, MaxRtDepth,
          RtSizes, TsThreads, TsCores, MaxTsIns, MaxTsMoves

VARIABLES which,   \* the part this behaviour is about
          pq_cfg, pq_at, pq_next, pq_blocks, pq_todo, pq_infos, pq_index, pq_issued,
          pq_handled, pq_error, pq_enabled, pq_ff, pq_detailed, pq_elapsed, pq_idle, pq_cpi,
          pq_extra,
          iv_late, iv_w, iv_map, iv_deps, iv_mem, iv_rest, iv_run, iv_total, iv_cpi, iv_used,
          iv_hidden,
          mo_insn, mo_infos, mo_uops, mo_state, mo_next, mo_sent, mo_time, mo_cost, mo_error,
          mo_count,
          qm_kind, qm_q, qm_w, qm_global, qm_slots, qm_dropped, qm_error, qm_count,
          bp_loop, bp_lpb, bp_btb, bp_global, bp_bimodal, bp_pir, bp_order, bp_changes, bp_done,
          io_time, io_reg, io_unit, io_store, io_loads, io_pending, io_missed, io_done,
          io_count,
          sm_cfg, sm, sm_events,
          w_variable, w_map, w_pc, w_last, w_icache, w_va2pa, w_present, w_buffer, w_flush,
          w_wait, w_count, sift_in, sift_out, sift_lost, r_last, r_bytes, r_scache, r_sinst,
          r_vcache, r_end, r_at, r_access, r_accesses, r_error, t_inst, t_bbv, t_sizes,
          t_handled, t_counted,
          tm_policy, tm_app, tm_nonfinish, tm_running, tm_threads, tm_started, tm_monitor,
          tm_done,
          rec_cfg, rec_app, rec_claimed, rec_detail, rec_num, rec_tidptrs, rec_td, rec_cleared,
          rec_cloned, rec_ended, rec_error,
          cf_line, cf_at, cf_base, cf_set, cf_args, cf_phase, cf_tree, cf_saved,
          sp_reg, sp_rub, sp_sdt, sp_mask, sp_nextid, sp_icount, sp_stored, sp_quiet, sp_last,
          rt_size, rt_stack, rt_time, rt_start, rt_full, rt_flat, rt_tree, rt_roi, rt_hooks,
          rt_by, rt_calls, rt_regions, rt_truth, rt_begun, rt_wrong,
          ts_state, ts_core, ts_insn, ts_stats, ts_moves, ts_ran

PQ == INSTANCE PerfQueue
IV == INSTANCE IntervalTimer
MO == INSTANCE MicroOps
QM == INSTANCE QueueModels
BP == INSTANCE BranchPredictor
IO == INSTANCE Iocoom
SM == INSTANCE SimModes
SF == INSTANCE Sift
TM == INSTANCE TraceManager
RC == INSTANCE Recorder
CF == INSTANCE Configuration
SP == INSTANCE SpinLoop
RT == INSTANCE RoutineTracer
TS == INSTANCE ThreadStats

queueVars == <<pq_cfg, pq_at, pq_next, pq_blocks, pq_todo, pq_infos, pq_index, pq_issued,
               pq_handled, pq_error, pq_enabled, pq_ff, pq_detailed, pq_elapsed, pq_idle,
               pq_cpi, pq_extra>>
intervalVars == <<iv_late, iv_w, iv_map, iv_deps, iv_mem, iv_rest, iv_run, iv_total, iv_cpi,
                  iv_used, iv_hidden>>
uopsVars == <<mo_insn, mo_infos, mo_uops, mo_state, mo_next, mo_sent, mo_time, mo_cost,
              mo_error, mo_count>>
contentionVars == <<qm_kind, qm_q, qm_w, qm_global, qm_slots, qm_dropped, qm_error, qm_count>>
branchVars == <<bp_loop, bp_lpb, bp_btb, bp_global, bp_bimodal, bp_pir, bp_order, bp_changes,
                bp_done>>
iocoomVars == <<io_time, io_reg, io_unit, io_store, io_loads, io_pending, io_missed, io_done,
                io_count>>
modesVars == <<sm_cfg, sm, sm_events>>
siftVars == <<w_variable, w_map, w_pc, w_last, w_icache, w_va2pa, w_present, w_buffer, w_flush,
              w_wait, w_count, sift_in, sift_out, sift_lost, r_last, r_bytes, r_scache,
              r_sinst, r_vcache, r_end, r_at, r_access, r_accesses, r_error, t_inst, t_bbv,
              t_sizes, t_handled, t_counted>>
managerVars == <<tm_policy, tm_app, tm_nonfinish, tm_running, tm_threads, tm_started,
                 tm_monitor, tm_done>>
recorderVars == <<rec_cfg, rec_app, rec_claimed, rec_detail, rec_num, rec_tidptrs, rec_td,
                  rec_cleared, rec_cloned, rec_ended, rec_error>>
configVars == <<cf_line, cf_at, cf_base, cf_set, cf_args, cf_phase, cf_tree, cf_saved>>
spinVars == <<sp_reg, sp_rub, sp_sdt, sp_mask, sp_nextid, sp_icount, sp_stored, sp_quiet,
              sp_last>>
routinesVars == <<rt_size, rt_stack, rt_time, rt_start, rt_full, rt_flat, rt_tree, rt_roi,
                  rt_hooks, rt_by, rt_calls, rt_regions, rt_truth, rt_begun, rt_wrong>>
statsVars == <<ts_state, ts_core, ts_insn, ts_stats, ts_moves, ts_ran>>

(* the variables of the parts a behaviour is not about keep a fixed value *)
queueIdle == pq_cfg = 0 /\ pq_at = 0 /\ pq_next = 0 /\ pq_blocks = 0 /\ pq_todo = 0 /\
             pq_infos = 0 /\ pq_index = 0 /\ pq_issued = 0 /\ pq_handled = 0 /\ pq_error = 0 /\
             pq_enabled = 0 /\ pq_ff = 0 /\ pq_detailed = 0 /\ pq_elapsed = 0 /\ pq_idle = 0 /\
             pq_cpi = 0 /\ pq_extra = 0
intervalIdle == iv_late = 0 /\ iv_w = 0 /\ iv_map = 0 /\ iv_deps = 0 /\ iv_mem = 0 /\
                iv_rest = 0 /\ iv_run = 0 /\ iv_total = 0 /\ iv_cpi = 0 /\ iv_used = 0 /\
                iv_hidden = 0
uopsIdle == mo_insn = 0 /\ mo_infos = 0 /\ mo_uops = 0 /\ mo_state = 0 /\ mo_next = 0 /\
            mo_sent = 0 /\ mo_time = 0 /\ mo_cost = 0 /\ mo_error = 0 /\ mo_count = 0
contentionIdle == qm_kind = 0 /\ qm_q = 0 /\ qm_w = 0 /\ qm_global = 0 /\ qm_slots = 0 /\
                  qm_dropped = 0 /\ qm_error = 0 /\ qm_count = 0
branchIdle == bp_loop = 0 /\ bp_lpb = 0 /\ bp_btb = 0 /\ bp_global = 0 /\ bp_bimodal = 0 /\
              bp_pir = 0 /\ bp_order = 0 /\ bp_changes = 0 /\ bp_done = 0
iocoomIdle == io_time = 0 /\ io_reg = 0 /\ io_unit = 0 /\ io_store = 0 /\ io_loads = 0 /\
              io_pending = 0 /\ io_missed = 0 /\ io_done = 0 /\ io_count = 0
modesIdle == sm_cfg = 0 /\ sm = 0 /\ sm_events = 0
siftIdle == w_variable = 0 /\ w_map = 0 /\ w_pc = 0 /\ w_last = 0 /\ w_icache = 0 /\
            w_va2pa = 0 /\ w_present = 0 /\ w_buffer = 0 /\ w_flush = 0 /\ w_wait = 0 /\
            w_count = 0 /\ sift_in = 0 /\ sift_out = 0 /\ sift_lost = 0 /\ r_last = 0 /\
            r_bytes = 0 /\ r_scache = 0 /\ r_sinst = 0 /\ r_vcache = 0 /\ r_end = 0 /\
            r_at = 0 /\ r_access = 0 /\ r_accesses = 0 /\ r_error = 0 /\ t_inst = 0 /\
            t_bbv = 0 /\ t_sizes = 0 /\ t_handled = 0 /\ t_counted = 0
managerIdle == tm_policy = 0 /\ tm_app = 0 /\ tm_nonfinish = 0 /\ tm_running = 0 /\
               tm_threads = 0 /\ tm_started = 0 /\ tm_monitor = 0 /\ tm_done = 0
recorderIdle == rec_cfg = 0 /\ rec_app = 0 /\ rec_claimed = 0 /\ rec_detail = 0 /\
                rec_num = 0 /\ rec_tidptrs = 0 /\ rec_td = 0 /\ rec_cleared = 0 /\
                rec_cloned = 0 /\ rec_ended = 0 /\ rec_error = 0
configIdle == cf_line = 0 /\ cf_at = 0 /\ cf_base = 0 /\ cf_set = 0 /\ cf_args = 0 /\
              cf_phase = 0 /\ cf_tree = 0 /\ cf_saved = 0
spinIdle == sp_reg = 0 /\ sp_rub = 0 /\ sp_sdt = 0 /\ sp_mask = 0 /\ sp_nextid = 0 /\
            sp_icount = 0 /\ sp_stored = 0 /\ sp_quiet = 0 /\ sp_last = 0
routinesIdle == rt_size = 0 /\ rt_stack = 0 /\ rt_time = 0 /\ rt_start = 0 /\ rt_full = 0 /\
                rt_flat = 0 /\ rt_tree = 0 /\ rt_roi = 0 /\ rt_hooks = 0 /\ rt_by = 0 /\
                rt_calls = 0 /\ rt_regions = 0 /\ rt_truth = 0 /\ rt_begun = 0 /\ rt_wrong = 0
statsIdle == ts_state = 0 /\ ts_core = 0 /\ ts_insn = 0 /\ ts_stats = 0 /\ ts_moves = 0 /\
             ts_ran = 0
-----------------------------------------------------------------------------
(* basic blocks: an access of each kind, and instructions without one *)
CodeBlocks == {<<"plain", "load">>, <<"update", "branch">>}

(* micro-operations of the interval model *)
Uop(kind, src, dst, addr, lat, icache, wrong, last, port, intra) ==
    [kind |-> kind, src |-> src, dst |-> dst, addr |-> addr, lat |-> lat, icache |-> icache,
     wrong |-> wrong, last |-> last, port |-> port, intra |-> intra]

Uops ==
    {Uop("exec", {"r"}, {"r"}, "none", 2, 0, FALSE, TRUE, "0", 0),
     Uop("load", {"r"}, {"r"}, "a", 9, 0, FALSE, FALSE, "2", 0),
     Uop("load", {}, {"s"}, "b", 9, 0, FALSE, TRUE, "2", 0),
     Uop("branch", {"r"}, {}, "none", 1, 0, TRUE, TRUE, "5", 0),
     Uop("store", {"s"}, {}, "b", 1, 3, FALSE, TRUE, "2", 0),
     Uop("exec", {}, {"r"}, "none", 5, 0, FALSE, FALSE, "1", 2),
     Uop("serial", {}, {}, "none", 1, 0, FALSE, TRUE, "0", 0),
     Uop("fence", {}, {}, "none", 1, 0, FALSE, TRUE, "2", 0),
     Uop("load", {"s"}, {"r"}, "c", 1, 0, FALSE, TRUE, "2", 0)}

(* instructions of the in-order core with out-of-order memory *)
IoInsn(fetch, writes, load, store, lat, hit) ==
    [fetch |-> fetch, cost |-> 1, reads |-> {"r"}, writes |-> writes, load |-> load, store |-> store,
     lat |-> lat, hit |-> hit]

(* loads whose value is used or not, stores to more addresses than the buffer has entries, one that *)
(* does both, and one that waits for its fetch                                                      *)
InOrder ==
    {IoInsn(0, w, "a", "none", t, h) : w \in {{}, {"r"}}, t \in {2, 5}, h \in BOOLEAN}
    \cup {IoInsn(0, w, "b", "none", t, FALSE) : w \in {{}, {"r"}}, t \in {2, 5}}
    \cup {IoInsn(0, {}, "none", s, t, FALSE) : s \in {"a", "b", "c"}, t \in {2, 5}}
    \cup {IoInsn(0, {}, "a", "a", 5, FALSE), IoInsn(2, {"r"}, "none", "none", 2, FALSE)}

(* sampling.cfg, with detailed warm-up and with random placement; jikes.cfg; base.cfg *)
Mode(roi, init, manager, sampling, uncoordinated, warmup, random) ==
    [roi |-> roi, init |-> init, end |-> "fast_forward", manager |-> manager, sampling |-> sampling,
     uncoordinated |-> uncoordinated, warmup |-> warmup, random |-> random]

SimulatorModes ==
    {Mode("full", "cache_only", FALSE, TRUE, FALSE, 1, FALSE),
     Mode("full", "cache_only", FALSE, TRUE, TRUE, 0, TRUE),
     Mode("magic", "fast_forward", TRUE, FALSE, FALSE, 0, FALSE),
     Mode("magic", "cache_only", FALSE, FALSE, FALSE, 0, FALSE)}

(* a program: straight code, branches, a predicated instruction, two loads *)
Instr(size, branch, predicate, data) ==
    [size |-> size, branch |-> branch, predicate |-> predicate, data |-> data]

Program == (0 :> Instr(2, FALSE, FALSE, <<>>) @@ 2 :> Instr(3, TRUE, FALSE, <<9>>)
            @@ 5 :> Instr(1, FALSE, TRUE, <<13>>) @@ 6 :> Instr(2, TRUE, FALSE, <<>>))

(* options of the recorder: emulated syscalls, ROI, fast-forward, blocks, detailed count *)
Options(emulate, roi, fastforward, blocksize, detailed) ==
    [emulate |-> emulate, roi |-> roi, fastforward |-> fastforward, blocksize |-> blocksize, detailed |-> detailed]

RecorderOptions ==
    {Options(TRUE, FALSE, 0, 0, 2), Options(TRUE, TRUE, 0, 0, 0), Options(FALSE, TRUE, 0, 2, 0), Options(FALSE, FALSE, 2, 2, 0)}

(* configuration files, arguments, and the paths components look up *)
Key(name, text) == [name |-> name, text |-> text]

Section(path, keys) == [section |-> path, keys |-> keys]

ConfigFiles ==
    ("base" :> <<Section(<<"s">>, <<Key("k", <<"d">>)>>)>>
     @@ "many" :> <<Section(<<"S">>, <<Key("K", <<"x", "y">>)>>), Section(<<"s", "t">>, <<Key("k", <<"z">>)>>)>>
     @@ "plain" :> <<Section(<<"s">>, <<Key("k", <<"e">>)>>)>>)

Argument(opt, file, path, text) == [opt |-> opt, file |-> file, path |-> path, text |-> text]

ConfigArgs ==
    {Argument("-c", f, <<>>, <<>>) : f \in {"many", "missing"}}
    \cup {Argument(o, "plain", <<>>, <<>>) : o \in {"config", "--", "malformed", "other"}}
    \cup {Argument("set", "", <<"s", "K">>, <<"1">>), Argument("set", "", <<"s", "k">>, <<"", "2">>),
          Argument("set", "", <<"s", "t", "k">>, <<"3", "">>), Argument("set", "", <<"k">>, <<"4">>)}

LowerCase == [n \in {"k", "K", "s", "S", "t", "q", ""} |-> CASE n = "K" -> "k" [] n = "S" -> "s" [] OTHER -> n]

ConfigPaths == {<<"s", "k">>, <<"S", "t", "K">>, <<"k">>, <<"", "k">>, <<"q", "k">>}

(* one thread with deep stacks, one in two regions, two threads *)
Size(threads, depth, time, calls, regions) ==
    [threads |-> threads, depth |-> depth, time |-> time, calls |-> calls, regions |-> regions]

TracerSizes == {Size({0}, 3, 2, 3, 1), Size({0}, 2, 2, 2, 2), Size({0, 1}, 2, 1, 1, 1)}
-----------------------------------------------------------------------------
Init ==
    \/ /\ which = "queue" /\ which \in Parts /\ PQ!PqInit
       /\ intervalIdle /\ uopsIdle /\ contentionIdle /\ branchIdle /\ iocoomIdle /\
          modesIdle /\ siftIdle /\ managerIdle /\ recorderIdle /\ configIdle /\ spinIdle /\
          routinesIdle /\ statsIdle
    \/ /\ which = "interval" /\ which \in Parts /\ IV!IvInit
       /\ queueIdle /\ uopsIdle /\ contentionIdle /\ branchIdle /\ iocoomIdle /\ modesIdle /\
          siftIdle /\ managerIdle /\ recorderIdle /\ configIdle /\ spinIdle /\ routinesIdle /\
          statsIdle
    \/ /\ which = "uops" /\ which \in Parts /\ MO!MoInit
       /\ queueIdle /\ intervalIdle /\ contentionIdle /\ branchIdle /\ iocoomIdle /\
          modesIdle /\ siftIdle /\ managerIdle /\ recorderIdle /\ configIdle /\ spinIdle /\
          routinesIdle /\ statsIdle
    \/ /\ which = "contention" /\ which \in Parts /\ QM!QmInit
       /\ queueIdle /\ intervalIdle /\ uopsIdle /\ branchIdle /\ iocoomIdle /\ modesIdle /\
          siftIdle /\ managerIdle /\ recorderIdle /\ configIdle /\ spinIdle /\ routinesIdle /\
          statsIdle
    \/ /\ which = "branch" /\ which \in Parts /\ BP!BpInit
       /\ queueIdle /\ intervalIdle /\ uopsIdle /\ contentionIdle /\ iocoomIdle /\ modesIdle /\
          siftIdle /\ managerIdle /\ recorderIdle /\ configIdle /\ spinIdle /\ routinesIdle /\
          statsIdle
    \/ /\ which = "iocoom" /\ which \in Parts /\ IO!IoInit
       /\ queueIdle /\ intervalIdle /\ uopsIdle /\ contentionIdle /\ branchIdle /\ modesIdle /\
          siftIdle /\ managerIdle /\ recorderIdle /\ configIdle /\ spinIdle /\ routinesIdle /\
          statsIdle
    \/ /\ which = "modes" /\ which \in Parts /\ SM!SmInit
       /\ queueIdle /\ intervalIdle /\ uopsIdle /\ contentionIdle /\ branchIdle /\
          iocoomIdle /\ siftIdle /\ managerIdle /\ recorderIdle /\ configIdle /\ spinIdle /\
          routinesIdle /\ statsIdle
    \/ /\ which = "sift" /\ which \in Parts /\ SF!SiftInit
       /\ queueIdle /\ intervalIdle /\ uopsIdle /\ contentionIdle /\ branchIdle /\
          iocoomIdle /\ modesIdle /\ managerIdle /\ recorderIdle /\ configIdle /\ spinIdle /\
          routinesIdle /\ statsIdle
    \/ /\ which = "manager" /\ which \in Parts /\ TM!TmInit
       /\ queueIdle /\ intervalIdle /\ uopsIdle /\ contentionIdle /\ branchIdle /\
          iocoomIdle /\ modesIdle /\ siftIdle /\ recorderIdle /\ configIdle /\ spinIdle /\
          routinesIdle /\ statsIdle
    \/ /\ which = "recorder" /\ which \in Parts /\ RC!RecInit
       /\ queueIdle /\ intervalIdle /\ uopsIdle /\ contentionIdle /\ branchIdle /\
          iocoomIdle /\ modesIdle /\ siftIdle /\ managerIdle /\ configIdle /\ spinIdle /\
          routinesIdle /\ statsIdle
    \/ /\ which = "config" /\ which \in Parts /\ CF!CfInit
       /\ queueIdle /\ intervalIdle /\ uopsIdle /\ contentionIdle /\ branchIdle /\
          iocoomIdle /\ modesIdle /\ siftIdle /\ managerIdle /\ recorderIdle /\ spinIdle /\
          routinesIdle /\ statsIdle
    \/ /\ which = "spin" /\ which \in Parts /\ SP!SpInit
       /\ queueIdle /\ intervalIdle /\ uopsIdle /\ contentionIdle /\ branchIdle /\
          iocoomIdle /\ modesIdle /\ siftIdle /\ managerIdle /\ recorderIdle /\ configIdle /\
          routinesIdle /\ statsIdle
    \/ /\ which = "routines" /\ which \in Parts /\ RT!RtInit
       /\ queueIdle /\ intervalIdle /\ uopsIdle /\ contentionIdle /\ branchIdle /\
          iocoomIdle /\ modesIdle /\ siftIdle /\ managerIdle /\ recorderIdle /\ configIdle /\
          spinIdle /\ statsIdle
    \/ /\ which = "stats" /\ which \in Parts /\ TS!TsInit
       /\ queueIdle /\ intervalIdle /\ uopsIdle /\ contentionIdle /\ branchIdle /\
          iocoomIdle /\ modesIdle /\ siftIdle /\ managerIdle /\ recorderIdle /\ configIdle /\
          spinIdle /\ routinesIdle

Next ==
    \/ /\ which = "queue" /\ PQ!PqNext
       /\ UNCHANGED <<which, intervalVars, uopsVars, contentionVars, branchVars, iocoomVars,
                        modesVars, siftVars, managerVars, recorderVars, configVars, spinVars,
                        routinesVars, statsVars>>
    \/ /\ which = "interval" /\ IV!IvNext
       /\ UNCHANGED <<which, queueVars, uopsVars, contentionVars, branchVars, iocoomVars,
                        modesVars, siftVars, managerVars, recorderVars, configVars, spinVars,
                        routinesVars, statsVars>>
    \/ /\ which = "uops" /\ MO!MoNext
       /\ UNCHANGED <<which, queueVars, intervalVars, contentionVars, branchVars, iocoomVars,
                        modesVars, siftVars, managerVars, recorderVars, configVars, spinVars,
                        routinesVars, statsVars>>
    \/ /\ which = "contention" /\ QM!QmNext
       /\ UNCHANGED <<which, queueVars, intervalVars, uopsVars, branchVars, iocoomVars,
                        modesVars, siftVars, managerVars, recorderVars, configVars, spinVars,
                        routinesVars, statsVars>>
    \/ /\ which = "branch" /\ BP!BpNext
       /\ UNCHANGED <<which, queueVars, intervalVars, uopsVars, contentionVars, iocoomVars,
                        modesVars, siftVars, managerVars, recorderVars, configVars, spinVars,
                        routinesVars, statsVars>>
    \/ /\ which = "iocoom" /\ IO!IoNext
       /\ UNCHANGED <<which, queueVars, intervalVars, uopsVars, contentionVars, branchVars,
                        modesVars, siftVars, managerVars, recorderVars, configVars, spinVars,
                        routinesVars, statsVars>>
    \/ /\ which = "modes" /\ SM!SmNext
       /\ UNCHANGED <<which, queueVars, intervalVars, uopsVars, contentionVars, branchVars,
                        iocoomVars, siftVars, managerVars, recorderVars, configVars, spinVars,
                        routinesVars, statsVars>>
    \/ /\ which = "sift" /\ SF!SiftNext
       /\ UNCHANGED <<which, queueVars, intervalVars, uopsVars, contentionVars, branchVars,
                        iocoomVars, modesVars, managerVars, recorderVars, configVars, spinVars,
                        routinesVars, statsVars>>
    \/ /\ which = "manager" /\ TM!TmNext
       /\ UNCHANGED <<which, queueVars, intervalVars, uopsVars, contentionVars, branchVars,
                        iocoomVars, modesVars, siftVars, recorderVars, configVars, spinVars,
                        routinesVars, statsVars>>
    \/ /\ which = "recorder" /\ RC!RecNext
       /\ UNCHANGED <<which, queueVars, intervalVars, uopsVars, contentionVars, branchVars,
                        iocoomVars, modesVars, siftVars, managerVars, configVars, spinVars,
                        routinesVars, statsVars>>
    \/ /\ which = "config" /\ CF!CfNext
       /\ UNCHANGED <<which, queueVars, intervalVars, uopsVars, contentionVars, branchVars,
                        iocoomVars, modesVars, siftVars, managerVars, recorderVars, spinVars,
                        routinesVars, statsVars>>
    \/ /\ which = "spin" /\ SP!SpNext
       /\ UNCHANGED <<which, queueVars, intervalVars, uopsVars, contentionVars, branchVars,
                        iocoomVars, modesVars, siftVars, managerVars, recorderVars, configVars,
                        routinesVars, statsVars>>
    \/ /\ which = "routines" /\ RT!RtNext
       /\ UNCHANGED <<which, queueVars, intervalVars, uopsVars, contentionVars, branchVars,
                        iocoomVars, modesVars, siftVars, managerVars, recorderVars, configVars,
                        spinVars, statsVars>>
    \/ /\ which = "stats" /\ TS!TsNext
       /\ UNCHANGED <<which, queueVars, intervalVars, uopsVars, contentionVars, branchVars,
                        iocoomVars, modesVars, siftVars, managerVars, recorderVars, configVars,
                        spinVars, routinesVars>>

Spec == Init /\ [][Next]_<<which, queueVars, intervalVars, uopsVars, contentionVars, branchVars,
                          iocoomVars, modesVars, siftVars, managerVars, recorderVars,
                          configVars, spinVars, routinesVars, statsVars>>
-----------------------------------------------------------------------------
(* The queues between a front end and a core's performance model: information reaches   *)
(* the instruction it was pushed for and is there in time, every instruction is handled *)
(* once and in program order, and the CPI stack accounts for all of the time.           *)
QueueCorrect == which = "queue" => PQ!QueueCorrect

(* The interval model: every producer a micro-operation looks up is at its slot of the  *)
(* windows, the critical path is what the old window's instructions contributed, the    *)
(* dispatch rate is not zero for ever, the branch-resolution map starts empty, every    *)
(* cycle is in one component of the CPI stack, and a long-latency load hides only loads *)
(* independent of it.                                                                   *)
IntervalCorrect == which = "interval" => IV!IntervalCorrect

(* Micro-operations built from an instruction and its infos: after squashing, an        *)
(* execute waits for exactly its instruction's loads and a store for its execute, there *)
(* is one uop for each line read or written, and the cost of a dynamic instruction is   *)
(* charged in full, with at most a cycle more for each uop it is given.                 *)
UopsCorrect == which = "uops" => MO!UopsCorrect

(* The contention models with requests simulated out of order: two requests are never   *)
(* served at the same time, the running sums of the moving average and of the M/G/1     *)
(* window are those of what is in them, and the window, once it cannot wrap, forgets    *)
(* only what is too old.                                                                *)
ContentionCorrect == which = "contention" => QM!ContentionCorrect

(* The loop predictor and its neighbours: for a branch that has gone through the same   *)
(* loop Learn times and kept its way the loop predictor is right, the end of the run    *)
(* included, so that only the global predictor can mispredict it, and no branch or path *)
(* has two ways of a table, so that updates go where lookups look.                      *)
PredictorCorrect == which = "branch" => BP!PredictorCorrect

(* The in-order core with out-of-order memory: no more loads are under way than the     *)
(* load unit holds although loads nobody waits for do not hold up the core, every       *)
(* register is ready when the next instruction starts, and no load misses a store to    *)
(* its address that is still in the store buffer.                                       *)
IocoomCorrect == which = "iocoom" => IO!IocoomCorrect

(* Regions of interest, fast-forwarding and sampling: a core that fast-forwards outside *)
(* the barrier has a callback that will bring it there, aimed at the time in force; the *)
(* CPI that drives it was measured in detailed simulation; the sampling assertions      *)
(* hold; and cores, models and barrier follow the mode through any sequence of ROIs.    *)
ModesCorrect == which = "modes" => SM!ModesCorrect

(* A component gets the value that was given last for its key, wherever the first file  *)
(* stands on the command line, and the saved copy of the configuration parses and       *)
(* answers alike, arrays of one element excepted.                                       *)
ConfigCorrect == which = "config" => CF!ConfigCorrect

(* The simulator works on the trace that was recorded: the reader decodes what the      *)
(* writer wrote and neither side waits for the other for ever (Sift), applications,     *)
(* threads and the end of the simulation are counted exactly (TraceManager), and the    *)
(* recorder gives every process its own number, every file its own block vector and     *)
(* clears every tid once (Recorder).                                                    *)
TracesCorrect ==
    /\ which = "sift" => SF!TraceCorrect
    /\ which = "manager" => TM!ManagerCorrect
    /\ which = "recorder" => RC!RecorderCorrect

(* What the simulator measures is what happened: an iteration counted as spinning       *)
(* changed no memory and a loop that changes nothing is counted (SpinLoop), the time    *)
(* and calls of the region are accounted to the right routine and call stack            *)
(* (RoutineTracer), and a thread is given the instructions it executed, on the core     *)
(* where it executed them (ThreadStats).                                                *)
MeasurementsCorrect ==
    /\ which = "spin" => SP!SpinsCorrect
    /\ which = "routines" => RT!RoutinesCorrect
    /\ which = "stats" => TS!StatsCorrect
=============================================================================
