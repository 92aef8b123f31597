------------------------------ MODULE MicroOps ------------------------------
(***************************************************************************)
(* From instructions to micro-operations.  InstructionDecoder::decode      *)
(* splits an instruction into loads, at most one execute and stores;       *)
(* MicroOpPerformanceModel::handleInstruction gives each load and store    *)
(* the dynamic information of its operand, squashes the ones that touch a  *)
(* line the instruction touched before (vector gathers and scatters),      *)
(* repairs the dependencies inside the instruction and hands the rest to   *)
(* the timing model, which numbers them.                                   *)
(*                                                                         *)
(* An instruction is [loads, execs, stores]: how many of each.  Squashed   *)
(* micro-operations get no number (IntervalTimer::simulate drops them).    *)
(* Dynamic instructions (a TLB miss, an access of the synchronisation      *)
(* code) have no micro-operations of their own and are given some.  The    *)
(* early return for missing information is left out: PerfQueue's           *)
(* InfoPaired says that an instruction's information is there.             *)
(***************************************************************************)
EXTENDS Integers, Sequences, FiniteSets, SequencesExt, FiniteSetsExt

CONSTANTS UopLines,      \* cache lines accesses go to
          MaxLoads, MaxStores,
          DynCosts,      \* costs of dynamic instructions, in cycles
          LongCutoff,    \* getLongLatencyCutoff
          MaxUopInsns    \* bound: instructions simulated

VARIABLES mo_insn,       \* the instruction being handled: shape, or "none"
          mo_infos,      \* m_dynamic_info_queue: direction and line
          mo_uops,       \* m_current_uops
          mo_state,      \* reads and writes done, lines read and written
          mo_next,       \* the timing model's next sequence number
          mo_sent,       \* the instruction last simulated
          mo_time,       \* of dynamic instructions: added to the clock at once, to the CPI stack,
                         \* and cycles handed to the timing model
          mo_cost,       \* ghost: their cost, and the micro-operations they were given
          mo_error,      \* the assertion that failed
          mo_count       \* instructions handled

moVars == <<mo_insn, mo_infos, mo_uops, mo_state, mo_next, mo_sent, mo_time, mo_cost,
            mo_error, mo_count>>

Shapes == [loads : 0 .. MaxLoads, execs : {0, 1}, stores : 0 .. MaxStores]
NoInsn == [loads |-> -1, execs |-> 0, stores |-> 0]
Fresh  == [reads |-> 0, writes |-> 0, read |-> {}, written |-> {}, dup |-> FALSE]
NoSent == [lines |-> <<>>, uops |-> <<>>]
-----------------------------------------------------------------------------
(* decode: loads, then executes, then stores.  An execute depends on the loads before it, a *)
(* store on the executes before it; offsets are counted inside a type.                      *)
Uop(type, off, intra) ==
    [type |-> type, typeOff |-> off, off |-> off, intra |-> intra, squashed |-> FALSE, count |-> 0,
     first |-> FALSE, last |-> FALSE, line |-> "none"]

Decode(s) ==
    LET list == [i \in 1 .. s.loads |-> Uop("load", i - 1, 0)]
                \o [i \in 1 .. s.execs |-> Uop("exec", i - 1, s.loads)]
                \o [i \in 1 .. s.stores |-> Uop("store", i - 1, s.execs)]
    IN  [i \in DOMAIN list |-> [list[i] EXCEPT !.first = i = 1, !.last = i = Len(list)]]

(* The first of the current micro-operations of a type, 0 when there is none. *)
Base(uops, type) == SelectInSeq(uops, LAMBDA u : u.type = type)

(* The functional thread queues one information per memory operand, reads before writes. *)
NextInstruction(s) ==
    /\ mo_insn = NoInsn /\ mo_error = "" /\ mo_count < MaxUopInsns
    /\ s.loads + s.execs + s.stores > 0
    /\ \E r \in [1 .. s.loads -> UopLines], w \in [1 .. s.stores -> UopLines] :
          mo_infos' = [i \in DOMAIN r |-> [dir |-> "load", line |-> r[i]]]
                      \o [i \in DOMAIN w |-> [dir |-> "store", line |-> w[i]]]
    /\ mo_insn' = s
    /\ mo_uops' = Decode(s)
    /\ mo_state' = Fresh /\ mo_sent' = NoSent
    /\ UNCHANGED <<mo_next, mo_error, mo_time, mo_cost, mo_count>>

(* Mutant: the marks are left where they were. *)
SquashOnly(uops, k) == [uops EXCEPT ![k].squashed = TRUE]

(* DynamicMicroOp::squash also moves the marks of the instruction's ends inwards. *)
Squash(uops, k) ==
    LET gone == [uops EXCEPT ![k].squashed = TRUE]
        left == {i \in DOMAIN gone : ~gone[i].squashed}
    IN  IF left = {} THEN gone
        ELSE [[gone EXCEPT ![Min(left)].first = TRUE] EXCEPT ![Max(left)].last = TRUE]

(* One memory operand takes the information at the front of the queue. *)
HandleOperand ==
    LET info == Head(mo_infos)
        dir  == IF mo_state.reads < mo_insn.loads THEN "load" ELSE "store"
        seen == IF dir = "load" THEN mo_state.read ELSE mo_state.written
        done == IF dir = "load" THEN mo_state.reads ELSE mo_state.writes
        k    == Base(mo_uops, dir) + done
        dup  == info.line \in seen
        set  == [mo_uops EXCEPT ![k].line = info.line]
    IN  /\ mo_insn # NoInsn /\ mo_infos # <<>> /\ mo_error = ""
        /\ IF info.dir # dir THEN /\ mo_error' = "Expected other memory info"
                                  /\ UNCHANGED <<mo_uops, mo_state, mo_infos>>
           ELSE IF k > Len(mo_uops) \/ mo_uops[k].type # dir
           THEN mo_error' = "Expected uop of this type" /\ UNCHANGED <<mo_uops, mo_state, mo_infos>>
           ELSE /\ mo_uops' = IF dup THEN Squash(set, k) ELSE set
                /\ mo_state' = IF dir = "load"
                               THEN [mo_state EXCEPT !.reads = @ + 1, !.read = @ \union {info.line}, !.dup = @ \/ dup]
                               ELSE [mo_state EXCEPT !.writes = @ + 1, !.written = @ \union {info.line}, !.dup = @ \/ dup]
                /\ mo_infos' = Tail(mo_infos)
                /\ UNCHANGED mo_error
        /\ UNCHANGED <<mo_insn, mo_next, mo_sent, mo_time, mo_cost, mo_count>>

SquashedUpTo(uops, i) == Cardinality({j \in 1 .. i : uops[j].squashed})

(* The offset among the micro-operations of its type that stay. *)
Offset(uops, i) == Cardinality({j \in 1 .. (i - 1) : uops[j].type = uops[i].type /\ ~uops[j].squashed})

(* Mutant: the dependencies keep the length the decoder gave them. *)
OffsetsOnly(uops) ==
    [i \in DOMAIN uops |-> IF uops[i].squashed THEN uops[i] ELSE [uops[i] EXCEPT !.off = Offset(uops, i)]]

(* doSquashing: the producers a micro-operation counts back to are fewer by the ones squashed, *)
(* found as a difference of running counts that include their own position.                    *)
DoSquashing(uops) ==
    LET base(i) == i - uops[i].typeOff
        less(i) == SquashedUpTo(uops, base(i)) - SquashedUpTo(uops, base(i) - uops[i].intra)
    IN  [i \in DOMAIN uops |->
            IF uops[i].squashed THEN uops[i]
            ELSE [uops[i] EXCEPT !.off = Offset(uops, i),
                                 !.intra = IF @ = 0 THEN 0 ELSE @ - less(i)]]

(* simulate: the micro-operations that stay are numbered in order; getDependency counts back from *)
(* a micro-operation's number over its offset and its dependencies.                               *)
Producers(uops, n) ==
    LET staying == SelectSeq(uops, LAMBDA u : ~u.squashed)
        deps(i) == {n + i - 1 - staying[i].off - staying[i].intra + d : d \in 0 .. (staying[i].intra - 1)}
    IN  [i \in DOMAIN staying |->
            [type |-> staying[i].type, seq |-> n + i - 1, deps |-> deps(i), line |-> staying[i].line,
             first |-> staying[i].first, last |-> staying[i].last]]

(* The rest of handleInstruction, once every operand has been handled, and resetState. *)
Finish ==
    LET fixed == IF mo_state.dup THEN DoSquashing(mo_uops) ELSE mo_uops
        out   == Producers(fixed, mo_next)
    IN  /\ mo_insn # NoInsn /\ mo_infos = <<>> /\ mo_error = ""
        /\ IF mo_state.reads = mo_insn.loads /\ mo_state.writes = mo_insn.stores
           THEN /\ mo_sent' = [lines |-> [i \in DOMAIN mo_uops |-> [type |-> mo_uops[i].type, line |-> mo_uops[i].line]],
                               uops |-> out]
                /\ mo_next' = mo_next + Len(out)
                /\ mo_insn' = NoInsn /\ mo_uops' = <<>> /\ mo_state' = Fresh
                /\ mo_count' = mo_count + 1 /\ UNCHANGED mo_error
           ELSE mo_error' = "reads or writes missing"
                /\ UNCHANGED <<mo_sent, mo_next, mo_insn, mo_uops, mo_state, mo_count>>
        /\ UNCHANGED <<mo_infos, mo_time, mo_cost>>

(* A TLB miss is one serializing micro-operation, a fenced access a load between two fences; each *)
(* of these is an instruction of its own to the timing model.                                     *)
DynamicUops(kind, fence) == IF kind = "mem" /\ fence THEN 3 ELSE 1

Marker == 1   \* latency of a serializing micro-operation, a fence, and a load whose cost is in the clock

AtOnce(kind, cost) == kind = "tlb" \/ (LongCutoff > 0 /\ cost > LongCutoff)

(* Mutant: a long access is given to the timing model with its latency too. *)
ChargedTwice(kind, fence, cost) ==
    [clock |-> IF AtOnce(kind, cost) THEN cost ELSE 0,
     stack |-> IF AtOnce(kind, cost) THEN cost ELSE 0,
     timer |-> (IF kind = "tlb" THEN Marker ELSE cost) + (DynamicUops(kind, fence) - 1) * Marker]

(* Where the cost of a dynamic instruction goes.  A TLB miss is added to the time at once, and so *)
(* is an access that takes long; the timing model sees them as a micro-operation of one cycle.    *)
(* Any other access is a load of that latency.  The fences come on top.                           *)
DynamicCost(kind, fence, cost) ==
    [clock |-> IF AtOnce(kind, cost) THEN cost ELSE 0,
     stack |-> IF AtOnce(kind, cost) THEN cost ELSE 0,
     timer |-> (IF AtOnce(kind, cost) THEN Marker ELSE cost) + (DynamicUops(kind, fence) - 1) * Marker]

(* An instruction of no cost is only counted. *)
DynamicInstruction(kind, fence, cost) ==
    LET c    == DynamicCost(kind, fence, cost)
        uops == IF cost = 0 THEN 0 ELSE DynamicUops(kind, fence)
    IN  /\ mo_insn = NoInsn /\ mo_error = "" /\ mo_count < MaxUopInsns
        /\ fence => kind = "mem"
        /\ mo_next' = mo_next + uops
        /\ mo_time' = IF cost = 0 THEN mo_time ELSE [f \in DOMAIN mo_time |-> mo_time[f] + c[f]]
        /\ mo_cost' = [cost |-> mo_cost.cost + cost, uops |-> mo_cost.uops + uops]
        /\ mo_count' = mo_count + 1 /\ mo_sent' = NoSent
        /\ UNCHANGED <<mo_insn, mo_infos, mo_uops, mo_state, mo_error>>

MoInit ==
    /\ mo_insn = NoInsn /\ mo_infos = <<>> /\ mo_uops = <<>> /\ mo_state = Fresh
    /\ mo_next = 0 /\ mo_sent = NoSent /\ mo_error = "" /\ mo_count = 0
    /\ mo_time = [clock |-> 0, stack |-> 0, timer |-> 0]
    /\ mo_cost = [cost |-> 0, uops |-> 0]

MoNext ==
    \/ \E s \in Shapes : NextInstruction(s)
    \/ HandleOperand
    \/ Finish
    \/ \E k \in {"tlb", "mem"}, f \in BOOLEAN, c \in DynCosts : DynamicInstruction(k, f, c)
-----------------------------------------------------------------------------
(* The shape of the state of handleInstruction; none of its assertions fails. *)
MoTypeOK ==
    /\ mo_insn \in Shapes \union {NoInsn}
    /\ mo_state.reads \in 0 .. MaxLoads /\ mo_state.writes \in 0 .. MaxStores
    /\ mo_next \in Nat /\ mo_count \in 0 .. MaxUopInsns
    /\ mo_error = ""

TypeOf(sent, t) == {sent[i].seq : i \in {j \in DOMAIN sent : sent[j].type = t}}

(* After doSquashing an execute waits for exactly the loads of its instruction that were simulated *)
(* and a store for its execute, whatever was squashed in between.                                  *)
WaitsForItsOwn ==
    \A i \in DOMAIN mo_sent.uops :
        mo_sent.uops[i].deps =
            CASE mo_sent.uops[i].type = "exec"  -> TypeOf(mo_sent.uops, "load")
              [] mo_sent.uops[i].type = "store" -> TypeOf(mo_sent.uops, "exec")
              [] OTHER -> {}

(* Squashing leaves one load for each line read and one store for each line written, and the *)
(* instruction still starts and ends exactly once, so that it is counted once.               *)
OneUopPerLine ==
    LET u == mo_sent.uops
        linesOf(s, t) == {s[i].line : i \in {j \in DOMAIN s : s[j].type = t}}
    IN  /\ \A t \in {"load", "store"} :
              /\ linesOf(u, t) = linesOf(mo_sent.lines, t)
              /\ Cardinality(linesOf(u, t)) = Cardinality(TypeOf(u, t))
        /\ \A i \in DOMAIN u : (u[i].first <=> i = 1) /\ (u[i].last <=> i = Len(u))

(* The cost of every dynamic instruction reaches the simulated time, through the clock or through *)
(* the timing model; what is charged beyond it is at most a cycle for each micro-operation it was *)
(* given, and what went to the clock past the timing model is in a component of the CPI stack.    *)
CostCharged ==
    LET over == mo_time.clock + mo_time.timer - mo_cost.cost
    IN  over \in 0 .. mo_cost.uops /\ mo_time.clock = mo_time.stack

(* Refuted by the code: the cost is charged once and not a cycle more. A TLB miss and a long     *)
(* access leave a micro-operation of one cycle in the timing model although "the latency has     *)
(* already been taken into account" (micro_op_performance_model.cc:444, 510).                    *)
ChargedExactlyOnce == mo_time.clock + mo_time.timer = mo_cost.cost

(* Micro-operations built from an instruction and its infos: after          *)
(* squashing, an execute waits for exactly its instruction's loads and a    *)
(* store for its execute, there is one uop for each line read or written,   *)
(* and the cost of a dynamic instruction is charged in full, through the    *)
(* clock or the timing model, with at most a cycle more for each uop.       *)
UopsCorrect ==
    MoTypeOK /\ WaitsForItsOwn /\ OneUopPerLine /\ CostCharged
=============================================================================
