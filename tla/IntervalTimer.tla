--------------------------- MODULE IntervalTimer ---------------------------
(***************************************************************************)
(* The interval core model.  Micro-operations enter a circular double      *)
(* window (Windows); whenever its front half is full the timer dispatches  *)
(* micro-operations into the back half, the old window, at a rate given by *)
(* the old window's critical path (IntervalTimer::dispatchWindow), and     *)
(* charges miss events to the components of the CPI stack.                 *)
(*                                                                         *)
(* A micro-operation is a record of the set Ops:                           *)
(*   kind   "exec" "load" "store" "branch" "fence" "serial"                *)
(*   src, dst  the registers it reads and writes                           *)
(*   addr   its cache line (memory operations)                             *)
(*   lat    its execution latency, for a load what the memory returns      *)
(*   icache the latency of fetching it past the L1-I, 0 for a hit          *)
(*   wrong  the branch is mispredicted                                     *)
(*   last   it ends an instruction                                         *)
(*   intra  how many micro-operations just before it, of its own           *)
(*          instruction, it depends on                                     *)
(*   port   the issue port it needs                                        *)
(* Times are cycles of a core whose frequency does not change.             *)
(***************************************************************************)
EXTENDS Integers, Sequences, FiniteSets, FiniteSetsExt, Folds

CONSTANTS Ops, Registers, WindowSize, DispatchWidth, LongLatency,
          BranchPenalty, FixedBase, Outstanding,
          MaxOps, MaxKinds    \* bounds: micro-operations simulated, distinct ones among them

VARIABLES iv_late,      \* memory operations are issued at dispatch
          iv_w,         \* Windows
          iv_map,       \* Windows::m_exec_time_map
          iv_deps,      \* RegisterDependencies and MemoryDependencies
          iv_mem,       \* m_loadstore_contention and the latest completions
          iv_rest,      \* m_remaining_dispatch_bandwidth
          iv_run,       \* the locals of dispatchWindow
          iv_total,     \* the latency returned so far
          iv_cpi,       \* the CPI stack
          iv_used,      \* the operations added so far (for the bound MaxKinds)
          iv_hidden     \* loads found independent that were not

vars == <<iv_late, iv_w, iv_map, iv_deps, iv_mem, iv_rest, iv_run, iv_total, iv_cpi, iv_used, iv_hidden>>

Slots      == 0 .. (2 * WindowSize - 1)
Kinds      == {"exec", "load", "store", "branch", "fence", "serial"}
Ports      == {"0", "1", "5", "05", "015", "2"}
Components == {"base", "icache", "bpred", "serial", "dcache", "long"}
NoSeq      == -1
Bypass     == 1     \* CoreModel::getBypassLatency of a memory operation
NoOp       == [kind |-> "exec", src |-> {}, dst |-> {}, addr |-> "none", lat |-> 0,
               icache |-> 0, wrong |-> FALSE, last |-> TRUE, intra |-> 0, port |-> "2"]
Empty      == [op |-> NoOp, seq |-> NoSeq, lat |-> 0, issued |-> TRUE, deps |-> {},
               exec |-> 0, contr |-> 0, flags |-> {}, dep |-> "no"]
MaxOf(a, b) == IF a > b THEN a ELSE b
SumOver(f, S) == MapThenFoldSet(+, 0, LAMBDA x : f[x], LAMBDA T : CHOOSE x \in T : TRUE, S)

Idle == [rate |-> 0, uops |-> 0, insns |-> 0, latency |-> 0, stop |-> FALSE, on |-> FALSE]
-----------------------------------------------------------------------------
(* Windows: the circular double window. *)
NoStats(w) == [w EXCEPT !.contr = [k \in Kinds |-> 0], !.total = 0, !.ports = [p \in Ports |-> 0]]

EmptyWindows ==
    NoStats([slot |-> [i \in Slots |-> Empty], next |-> 0, head |-> 0, tail |-> 0, old |-> 0,
             len |-> 0, oldLen |-> 0, cpHead |-> 0, cpTail |-> 0,
             contr |-> <<>>, total |-> 0, ports |-> <<>>])

IncrementIndex(i) == (i + 1) % (2 * WindowSize)
DecrementIndex(i) == (i + 2 * WindowSize - 1) % (2 * WindowSize)
WindowIndex(i)    == i % (2 * WindowSize)

AddFunctionalUnitStats(w, e) ==
    [w EXCEPT !.contr[e.op.kind] = @ + e.contr, !.total = @ + e.contr, !.ports[e.op.port] = @ + 1]

RemoveFunctionalUnitStats(w, e) ==
    [w EXCEPT !.contr[e.op.kind] = @ - e.contr, !.total = @ - e.contr, !.ports[e.op.port] = @ - 1]

(* The slot getInstruction computes for a sequence number; the program exits when it is not there. *)
GetInstruction(w, s) == WindowIndex(w.head - (w.slot[w.head].seq - s))

WindowContains(w, s) ==
    s >= w.slot[w.head].seq /\ s <= w.slot[DecrementIndex(w.tail)].seq

(* Mutant: only the upper end of the old window is checked. *)
OldWindowUnbounded(w, s) == s <= w.slot[DecrementIndex(w.head)].seq

OldWindowContains(w, s) ==
    s >= w.slot[w.old].seq /\ s <= w.slot[DecrementIndex(w.head)].seq

(* Mutant: the leaving instruction's contribution is not given back. *)
DispatchKeepsStats(w) ==
    LET full == w.oldLen = WindowSize
        gone == w.slot[w.old]
        left == IF full THEN [w EXCEPT !.cpHead = MaxOf(w.cpHead, gone.exec),
                                       !.old = IncrementIndex(w.old), !.oldLen = @ - 1]
                        ELSE w
    IN  [AddFunctionalUnitStats(left, w.slot[w.head]) EXCEPT
            !.head = IncrementIndex(w.head), !.len = @ - 1, !.oldLen = @ + 1]

(* Windows::dispatchInstruction: the instruction at the head moves into the old window. *)
Dispatch(w) ==
    LET full == w.oldLen = WindowSize
        gone == w.slot[w.old]
        left == IF full THEN [RemoveFunctionalUnitStats(w, gone) EXCEPT
                                 !.cpHead = MaxOf(w.cpHead, gone.exec),
                                 !.old = IncrementIndex(w.old), !.oldLen = @ - 1]
                        ELSE w
    IN  [AddFunctionalUnitStats(left, w.slot[w.head]) EXCEPT
            !.head = IncrementIndex(w.head), !.len = @ - 1, !.oldLen = @ + 1]

(* Mutant: the old window is emptied but its statistics stay. *)
ClearKeepsStats(w, cp) ==
    [w EXCEPT !.cpHead = cp, !.cpTail = cp, !.oldLen = 0, !.old = w.head]

ClearOldWindow(w, cp) ==
    NoStats([w EXCEPT !.cpHead = cp, !.cpTail = cp, !.oldLen = 0, !.old = w.head])

CriticalPathLength(w) == IF w.cpHead <= w.cpTail THEN w.cpTail - w.cpHead ELSE 0

(* IntervalContentionNehalem: ports 0, 1 and 5 also serve the shared classes 05 and 015. *)
EffectiveCriticalPathLength(w) ==
    LET single == Max({CriticalPathLength(w)} \union {w.ports[p] : p \in Ports \ {"05", "015"}})
        use05  == w.ports["0"] + w.ports["5"] + w.ports["05"]
        with05 == IF use05 > 2 * single THEN (use05 + 1) \div 2 ELSE single
        use015 == w.ports["0"] + w.ports["1"] + w.ports["5"] + w.ports["015"]
    IN  IF use015 > 3 * with05 THEN (use015 + 2) \div 3 ELSE with05

LongLatencyOperation(w, e) == e.exec >= w.cpTail /\ e.exec - w.cpTail >= LongLatency
-----------------------------------------------------------------------------
(* Dependencies of an added micro-operation on the producers still in one of the windows. *)
RegisterDeps(d, op, low) == {d.reg[r] : r \in {q \in op.src : d.reg[q] # NoSeq /\ d.reg[q] >= low}}

NewProducers(d, op, low, s) ==
    [r \in Registers |-> IF r \in op.dst THEN s
                         ELSE IF r \in op.src /\ d.reg[r] < low THEN NoSeq
                         ELSE d.reg[r]]

Clean(stores, low) == SelectSeq(stores, LAMBDA p : p.seq >= low)

Find(stores, addr) ==
    LET at == {i \in 1 .. Len(stores) : stores[i].addr = addr}
    IN  IF at = {} THEN {} ELSE {stores[Max(at)].seq}

(* A fence that is the oldest instruction held does not count: the comparison is strict. *)
MembarDeps(d, op, low) ==
    IF op.kind \in {"load", "store", "fence"} /\ d.membar # NoSeq /\ d.membar > low
    THEN {d.membar} ELSE {}

MemoryDeps(d, op, low) ==
    MembarDeps(d, op, low) \union IF op.kind = "load" THEN Find(Clean(d.stores, low), op.addr) ELSE {}

NewDeps(d, op, low, s) ==
    [reg    |-> NewProducers(d, op, low, s),
     stores |-> LET kept == Clean(d.stores, low)
                IN  IF op.kind = "store" THEN Append(kept, [seq |-> s, addr |-> op.addr]) ELSE kept,
     membar |-> IF op.kind = "fence" THEN s ELSE d.membar]

IsMem(op)     == op.kind \in {"load", "store"}
NewEntry(op, s, late) ==
    [Empty EXCEPT !.op = op, !.seq = s, !.issued = ~(late /\ IsMem(op)),
                  !.lat = IF ~IsMem(op) THEN op.lat ELSE IF late THEN Bypass ELSE Bypass + op.lat]

(* IntervalTimer::simulate: one micro-operation is added to a window that is not full. *)
Simulate(op) ==
    LET s     == iv_w.next
        w     == [iv_w EXCEPT !.slot[iv_w.tail] = NewEntry(op, s, iv_late), !.next = s + 1,
                              !.tail = IncrementIndex(@), !.len = @ + 1]
        low   == w.slot[w.old].seq
        deps  == RegisterDeps(iv_deps, op, low) \union MemoryDeps(iv_deps, op, low)
                    \union {s - k : k \in 1 .. op.intra}
    IN  /\ ~iv_run.on
        /\ iv_w.len < WindowSize
        /\ s < MaxOps /\ op.intra <= s
        /\ Cardinality(iv_used \union {op}) <= MaxKinds
        /\ iv_used' = iv_used \union {op}
        /\ iv_w' = [w EXCEPT !.slot[iv_w.tail].deps = deps]
        /\ iv_deps' = NewDeps(iv_deps, op, low, s)
        /\ UNCHANGED <<iv_late, iv_map, iv_mem, iv_rest, iv_run, iv_total, iv_cpi, iv_hidden>>
-----------------------------------------------------------------------------
(* ContentionModel: the slots of the load and store unit. *)
FirstFree(times, t) ==
    LET free == {i \in 1 .. Len(times) : times[i] <= t}
    IN  IF free # {} THEN Min(free)
        ELSE CHOOSE i \in 1 .. Len(times) :
                \A j \in 1 .. Len(times) : times[i] < times[j] \/ (times[i] = times[j] /\ i <= j)

(* The unit's state and the completion time after a request that starts at t and takes d. *)
CompletionTime(m, t, d) ==
    IF t = 0 \/ t < m.last THEN <<m, t + d>>
    ELSE LET u   == FirstFree(m.times, t)
             end == MaxOf(t, m.times[u]) + d
         IN  <<[m EXCEPT !.times[u] = end, !.last = t], end>>

IssueMemOp(e) ==
    IF IsMem(e.op) /\ ~e.issued THEN [e EXCEPT !.issued = TRUE, !.lat = @ + e.op.lat] ELSE e

IsLongLatencyLoad(e) == e.op.kind = "load" /\ e.lat > LongLatency

(* Fetch times are never set, so a producer's time needs no correction for them. *)
MaxProducerExecTime(w, e) ==
    Max({0} \union {w.slot[GetInstruction(w, d)].exec : d \in {s \in e.deps : OldWindowContains(w, s)}})

MapStep(w, map, e, via) ==
    LET from == {GetInstruction(w, d) : d \in {s \in e.deps : OldWindowContains(w, s)}}
    IN  [i \in Slots |-> IF i \in from THEN MaxOf(w.slot[i].lat + via, map[i]) ELSE map[i]]

(* Mutant: the walk over the old window stops one instruction early. *)
ResolveShort(w) ==
    LET walk[j \in 0 .. w.oldLen] ==
            IF j <= 1 THEN <<MapStep(w, iv_map, w.slot[w.head], 0), 0>>
            ELSE LET i == WindowIndex(w.head - (j - 1))  m == walk[j - 1][1]  best == walk[j - 1][2]
                 IN  IF m[i] = 0 THEN <<m, best>>
                     ELSE <<[MapStep(w, m, w.slot[i], m[i]) EXCEPT ![i] = 0], MaxOf(best, m[i])>>
    IN  walk[w.oldLen]

(* Windows::calculateBranchResolutionLatency: the map it leaves and the latency it finds. *)
BranchResolution(w) ==
    LET walk[j \in 0 .. w.oldLen] ==
            IF j = 0 THEN <<MapStep(w, iv_map, w.slot[w.head], 0), 0>>
            ELSE LET i == WindowIndex(w.head - j)  m == walk[j - 1][1]  best == walk[j - 1][2]
                 IN  IF m[i] = 0 THEN <<m, best>>
                     ELSE <<[MapStep(w, m, w.slot[i], m[i]) EXCEPT ![i] = 0], MaxOf(best, m[i])>>
    IN  walk[w.oldLen]
-----------------------------------------------------------------------------
(* blockWindow: what a long-latency load at the head hides of the window behind it. *)
WaitsFor(w, e) ==
    \E d \in {s \in e.deps : WindowContains(w, s)} :
        LET p == w.slot[GetInstruction(w, d)]
        IN  p.dep = "data" \/ (p.dep = "indep" /\ IsLongLatencyLoad(p))

SameLine(w, e) == e.op.kind = "load" /\ e.op.addr = w.slot[w.head].op.addr

(* Mutant: only the direct dependence on the load is seen. *)
MarkDirect(w, e) ==
    [e EXCEPT !.flags = @ \union {"icache"}, !.dep = IF w.slot[w.head].seq \in e.deps THEN "data" ELSE "no"]

Marked(w, e) ==
    [e EXCEPT !.flags = @ \union {"icache"}, !.dep = IF WaitsFor(w, e) \/ SameLine(w, e) THEN "data" ELSE "no"]

Overlap(w, e, barrier) ==
    IF e.dep = "data" THEN e
    ELSE IF e.op.kind = "branch" THEN [e EXCEPT !.flags = @ \union {"bpred"}]
    ELSE IF e.op.kind = "load" /\ ~barrier /\ "dcache" \notin e.flags
         THEN [IssueMemOp(e) EXCEPT !.flags = @ \union {"dcache"}, !.dep = "indep", !.exec = w.cpHead]
    ELSE e

BlockWindow(w0) ==
    LET w1 == [w0 EXCEPT !.slot[w0.head].dep = "indep"]
        walk[j \in 0 .. (w0.len - 1)] ==
            IF j = 0 THEN [w |-> w1, barrier |-> FALSE, stop |-> FALSE]
            ELSE LET b == walk[j - 1]
                     i == WindowIndex(w0.head + j)
                     e == b.w.slot[i]
                     barrier == b.barrier \/ e.op.kind = "fence"
                 IN  IF b.stop THEN b
                     ELSE IF e.op.kind = "serial"
                     THEN [b EXCEPT !.stop = TRUE,
                                    !.w.slot[i] = [e EXCEPT !.flags = @ \union {"icache"}, !.dep = "no"]]
                     ELSE [b EXCEPT !.barrier = barrier,
                                    !.w.slot[i] = Overlap(b.w, Marked(b.w, e), barrier)]
    IN  walk[w0.len - 1].w

(* The instructions of the window that cannot start before the one at the head has completed. *)
Chain(w) ==
    LET at(j) == w.slot[WindowIndex(w.head + j)]
        reach[j \in 0 .. (w.len - 1)] ==
            \/ j = 0
            \/ \E i \in 0 .. (j - 1) : reach[i] /\ at(i).seq \in at(j).deps
    IN  {at(j).seq : j \in {k \in 1 .. (w.len - 1) : reach[k]}}
-----------------------------------------------------------------------------
(* dispatchWindow: the rate, the instructions dispatched at it, and at least one cycle. *)
Full == iv_w.len = WindowSize

CurrentDispatchRate ==
    IF CriticalPathLength(iv_w) > 0
    THEN (iv_w.oldLen * FixedBase) \div EffectiveCriticalPathLength(iv_w) + iv_rest
    ELSE DispatchWidth * FixedBase

StartDispatch ==
    LET rate == CurrentDispatchRate \div FixedBase
    IN  /\ ~iv_run.on /\ Full
        /\ iv_rest' = IF CriticalPathLength(iv_w) > 0 /\ rate < DispatchWidth
                      THEN CurrentDispatchRate % FixedBase ELSE 0
        /\ iv_run' = [Idle EXCEPT !.rate = rate, !.on = TRUE]
        /\ UNCHANGED <<iv_late, iv_w, iv_map, iv_deps, iv_mem, iv_total, iv_cpi, iv_hidden, iv_used>>

MayDispatch ==
    iv_w.len > 0 /\ iv_run.insns < DispatchWidth /\ iv_run.uops < iv_run.rate /\ ~iv_run.stop

(* The state of one dispatch: windows, map, memory unit, latency, whether to stop, charges. *)
Bundle(w) == [w |-> w, map |-> iv_map, mem |-> iv_mem, lat |-> 0, stop |-> FALSE,
              cpi |-> [c \in Components |-> 0]]
Charge(b, c, n) == [b EXCEPT !.lat = @ + n, !.cpi[c] = @ + n]

ICacheMiss(b, cpTail) ==
    LET e == b.w.slot[b.w.head]
    IN  IF e.op.icache > 0 /\ "icache" \notin e.flags
        THEN [Charge(b, "icache", e.op.icache) EXCEPT
                 !.stop = TRUE, !.w = ClearOldWindow(b.w, cpTail + e.op.icache)]
        ELSE b

(* Mutant: the misprediction is not charged to the CPI stack. *)
BranchUncharged(b, cpTail) ==
    LET e == b.w.slot[b.w.head]
        r == BranchResolution(b.w)
        n == BranchPenalty + r[2]
    IN  IF e.op.kind = "branch" /\ e.op.wrong /\ "bpred" \notin e.flags
        THEN [b EXCEPT !.lat = @ + n, !.stop = TRUE, !.map = r[1],
                       !.w = ClearOldWindow(b.w, cpTail + n)]
        ELSE b

BranchMiss(b, cpTail) ==
    LET e == b.w.slot[b.w.head]
        r == BranchResolution(b.w)
        n == BranchPenalty + r[2]
    IN  IF e.op.kind = "branch" /\ e.op.wrong /\ "bpred" \notin e.flags
        THEN [Charge(b, "bpred", n) EXCEPT !.stop = TRUE, !.map = r[1],
                                           !.w = ClearOldWindow(b.w, cpTail + n)]
        ELSE b

(* Mutant: a long extension stretches the critical path instead of clearing the window. *)
UpdateStretches(b, t) ==
    LET h == b.w.head
        w == [b.w EXCEPT !.slot[h].exec = t]
    IN  [b EXCEPT !.w = IF t > w.cpTail
                        THEN [w EXCEPT !.slot[h].contr = t - w.cpTail, !.cpTail = t] ELSE w]

(* updateCriticalPath with the head's execution time set to t: longLatencyOperationLatency *)
(* answers true, that is one cycle, for an extension beyond the cut-off.                   *)
UpdateCriticalPath(b, t) ==
    LET h == b.w.head
        w == [b.w EXCEPT !.slot[h].exec = t]
    IN  IF LongLatencyOperation(w, w.slot[h])
        THEN [Charge(b, "long", 1) EXCEPT !.w = ClearOldWindow(w, t)]
        ELSE [b EXCEPT !.w = IF t > w.cpTail
                             THEN [w EXCEPT !.slot[h].contr = t - w.cpTail, !.cpTail = t] ELSE w]

MinimalFlushLatency(w) == (w.oldLen + DispatchWidth - 1) \div DispatchWidth

Serialize(b) ==
    LET e == b.w.slot[b.w.head]
        n == MaxOf(CriticalPathLength(b.w), MinimalFlushLatency(b.w)) + e.lat
    IN  [Charge(b, "serial", n) EXCEPT
            !.w = ClearOldWindow([b.w EXCEPT !.slot[b.w.head].exec = b.w.cpTail], b.w.cpTail)]

LongLoad(b, start) ==
    LET e    == b.w.slot[b.w.head]
        done == CompletionTime(b.mem, start, e.lat)
        n    == done[2] - start
        t    == b.w.cpTail
        w    == ClearOldWindow([b.w EXCEPT !.slot[b.w.head].exec = t], t + n)
    IN  [Charge([b EXCEPT !.mem = done[1]], "dcache", n) EXCEPT !.w = BlockWindow(w)]

ShortLoad(b, start) ==
    LET done == CompletionTime(b.mem, start, b.w.slot[b.w.head].lat)
    IN  UpdateCriticalPath([b EXCEPT !.mem = done[1]], done[2])

Load(b, start) ==
    LET e   == b.w.slot[b.w.head]
        out == IF "dcache" \in e.flags THEN b
               ELSE IF IsLongLatencyLoad(e) THEN LongLoad(b, start)
               ELSE ShortLoad(b, start)
        now == out.w.cpTail
        acc == MaxOf(out.mem.accounted, now)
    IN  [out EXCEPT !.mem.load = MaxOf(@, out.w.slot[out.w.head].exec),
                    !.mem.insns = IF IsLongLatencyLoad(e) THEN @ + e.lat ELSE @,
                    !.mem.cycles = IF IsLongLatencyLoad(e) /\ now + e.lat > acc THEN @ + now + e.lat - acc ELSE @,
                    !.mem.accounted = IF IsLongLatencyLoad(e) THEN MaxOf(acc, now + e.lat) ELSE @]

Execute(b, producer) ==
    LET e     == b.w.slot[b.w.head]
        start == MaxOf(producer, b.w.cpHead)
    IN  CASE e.op.kind = "serial" -> Serialize(b)
          [] e.op.kind = "fence"  ->
                UpdateCriticalPath(b, Max({producer, b.mem.store, b.mem.load}) + e.lat)
          [] e.op.kind = "load"   -> Load(b, start)
          [] e.op.kind = "store"  ->
                [UpdateCriticalPath(b, start + Bypass + 1) EXCEPT !.mem.store = MaxOf(@, start + e.lat)]
          [] OTHER -> UpdateCriticalPath(b, start + e.lat)

DispatchInstruction ==
    LET h == iv_w.head
        w == [iv_w EXCEPT !.slot[h] = IssueMemOp(@)]
        p == MaxProducerExecTime(w, w.slot[h])
        b == Execute(BranchMiss(ICacheMiss(Bundle(w), w.cpTail), w.cpTail), p)
        overlapped(v) == {v.slot[i].seq : i \in {j \in Slots : "dcache" \in v.slot[j].flags}}
    IN  /\ iv_run.on /\ MayDispatch
        /\ iv_w' = Dispatch(b.w)
        /\ iv_map' = b.map
        /\ iv_mem' = b.mem
        /\ iv_cpi' = [c \in Components |-> iv_cpi[c] + b.cpi[c]]
        /\ iv_run' = [iv_run EXCEPT !.uops = @ + 1, !.latency = @ + b.lat, !.stop = @ \/ b.stop,
                                    !.insns = IF iv_w.slot[h].op.last THEN @ + 1 ELSE @]
        /\ iv_hidden' = iv_hidden \union ((overlapped(b.w) \ overlapped(w)) \intersect Chain(w))
        /\ UNCHANGED <<iv_late, iv_deps, iv_rest, iv_total, iv_used>>

EndDispatch ==
    LET n == IF iv_run.latency = 0 THEN 1 ELSE iv_run.latency
    IN  /\ iv_run.on /\ ~MayDispatch
        /\ iv_cpi' = IF iv_run.latency = 0 THEN [iv_cpi EXCEPT !["base"] = @ + 1] ELSE iv_cpi
        /\ iv_total' = iv_total + n
        /\ iv_run' = Idle
        /\ UNCHANGED <<iv_late, iv_w, iv_map, iv_deps, iv_mem, iv_rest, iv_hidden, iv_used>>

IvInit ==
    /\ iv_late \in BOOLEAN
    /\ iv_w = EmptyWindows
    /\ iv_map = [i \in Slots |-> 0]
    /\ iv_deps = [reg |-> [r \in Registers |-> NoSeq], stores |-> <<>>, membar |-> NoSeq]
    /\ iv_mem = [times |-> [i \in 1 .. Outstanding |-> 0], last |-> 0, load |-> 0, store |-> 0,
                 insns |-> 0, cycles |-> 0, accounted |-> 0]
    /\ iv_rest = 0
    /\ iv_run = Idle
    /\ iv_total = 0
    /\ iv_cpi = [c \in Components |-> 0]
    /\ iv_used = {}
    /\ iv_hidden = {}

IvNext ==
    \/ \E op \in Ops : Simulate(op)
    \/ StartDispatch
    \/ DispatchInstruction
    \/ EndDispatch
-----------------------------------------------------------------------------
(* The shapes of the windows and of the accounts; the fraction of a dispatch slot is below one. *)
IvTypeOK ==
    /\ iv_w.head \in Slots /\ iv_w.tail \in Slots /\ iv_w.old \in Slots
    /\ iv_w.len \in 0 .. WindowSize /\ iv_w.oldLen \in 0 .. WindowSize
    /\ iv_w.next \in 0 .. MaxOps
    /\ iv_rest \in 0 .. (FixedBase - 1)
    /\ DOMAIN iv_w.slot = Slots

OldSlots == {WindowIndex(iv_w.head - j) : j \in 1 .. iv_w.oldLen}

(* Windows::getInstruction never meets its exit(0): the two windows hold consecutive sequence *)
(* numbers ending at the last one given out, and every producer a micro-operation may look up *)
(* in one of them is at the slot computed for it.                                             *)
ProducersFound ==
    LET held == {WindowIndex(iv_w.head + j) : j \in (-iv_w.oldLen) .. (iv_w.len - 1)}
    IN  /\ \A j \in (-iv_w.oldLen) .. (iv_w.len - 1) :
              iv_w.slot[WindowIndex(iv_w.head + j)].seq = iv_w.next - iv_w.len + j
        /\ iv_w.len > 0 =>
              \A i \in held : \A d \in iv_w.slot[i].deps :
                 (WindowContains(iv_w, d) \/ OldWindowContains(iv_w, d))
                    => iv_w.slot[GetInstruction(iv_w, d)].seq = d

(* The critical path is exactly what the instructions of the old window contributed to it, and *)
(* the port counts are theirs: getCpContrFraction never divides by an empty path, and the      *)
(* assertion that one type contributes at most the total holds.                                *)
CriticalPathIsContributions ==
    /\ iv_w.cpHead <= iv_w.cpTail
    /\ iv_w.cpTail - iv_w.cpHead = iv_w.total
    /\ \A k \in Kinds : iv_w.contr[k] =
          SumOver([i \in Slots |-> iv_w.slot[i].contr], {i \in OldSlots : iv_w.slot[i].op.kind = k})
    /\ \A p \in Ports : iv_w.ports[p] = Cardinality({i \in OldSlots : iv_w.slot[i].op.port = p})

(* A full window is always dispatched from in the end: the rate computed from the old window is *)
(* not zero for ever, because its critical path is never longer than the fixed-point base       *)
(* times its instructions, and the old window is not empty when it has a critical path.         *)
DispatchAdvances ==
    CriticalPathLength(iv_w) > 0 =>
        (iv_w.oldLen * FixedBase) \div EffectiveCriticalPathLength(iv_w) > 0

(* "The m_exec_time_map is empty when the algorithm starts": the branch-resolution walk clears *)
(* every entry it marks.                                                                       *)
MapStartsEmpty == \A i \in Slots : iv_map[i] = 0

(* Every cycle the timer reports is in exactly one component of the CPI stack. *)
StackIsLatency == SumOver(iv_cpi, Components) = iv_total + iv_run.latency

(* blockWindow hides under a long-latency load only loads whose chain of producers does not *)
(* lead back to it.                                                                         *)
OverlapIndependent == iv_hidden = {}

(* The interval model: every producer a micro-operation looks up is at its  *)
(* slot of the windows, the critical path is what the old window's          *)
(* instructions contributed, the dispatch rate is not zero for ever, the    *)
(* branch-resolution map starts empty, every cycle is in one component of   *)
(* the CPI stack, and a long-latency load hides only loads independent of   *)
(* it.                                                                      *)
IntervalCorrect ==
    IvTypeOK /\ ProducersFound /\ CriticalPathIsContributions /\ DispatchAdvances /\
    MapStartsEmpty /\ StackIsLatency /\ OverlapIndependent
=============================================================================
