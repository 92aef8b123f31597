----------------------------- MODULE PerfQueue -----------------------------
(***************************************************************************)
(* The queues of a core's PerformanceModel.  The functional thread queues  *)
(* basic blocks and, as it executes them, dynamic information on memory    *)
(* operands and branches; iterate() pairs the two again, one block behind. *)
(* Instructions that only let time pass are handled at once.  The timing   *)
(* models are the simple ones: OneIPC, Magic and Simple.                   *)
(*                                                                         *)
(* Instructions are numbered as they are executed, so that information can *)
(* be told apart even if it is for the same address.  What iterate() does  *)
(* for atomic regions is in AtomicRegion.                                  *)
(***************************************************************************)
EXTENDS Integers, Sequences, FiniteSets, SequencesExt

CONSTANTS PqModels,        \* "oneipc", "magic", "simple"
          PqFronts,        \* "pin", "trace"
          PqBlocks,        \* basic blocks: sequences of kinds of instructions
          BlockQueueSize, InfoQueueSize,
          Latencies,       \* of memory accesses
          Cutoff,          \* perf_model/core/oneipc/latency_cutoff
          WakeTimes, MaxBlocks, MaxDynamic, MaxIdle

VARIABLES pq_cfg,      \* the timing model and the front end
          pq_at,       \* "run" the program, "iterate"
          pq_next,     \* block to be queued after iterate(), or <<>>
          pq_blocks,   \* m_basic_block_queue
          pq_todo,     \* information the functional thread is to push
          pq_infos,    \* m_dynamic_info_queue
          pq_index,    \* m_current_ins_index
          pq_issued,   \* instructions executed, blocks executed
          pq_handled,  \* instructions handled, in order
          pq_error,    \* the assertion that failed
          pq_enabled, pq_ff, pq_detailed,
          pq_elapsed, pq_idle,
          pq_cpi,      \* component -> time accounted to it
          pq_extra     \* dynamic and idle instructions so far

pqVars == <<pq_cfg, pq_at, pq_next, pq_blocks, pq_todo, pq_infos, pq_index,
            pq_issued, pq_handled, pq_error, pq_enabled, pq_ff, pq_detailed,
            pq_elapsed, pq_idle, pq_cpi, pq_extra>>
timeVars == <<pq_elapsed, pq_idle, pq_cpi>>
modeVars == <<pq_enabled, pq_ff, pq_detailed>>

Components == {"base", "branch", "data", "start", "sync", "unscheduled", "dvfs",
               "recv", "fastforward"}

-----------------------------------------------------------------------------
(* The information an instruction comes with: branches first, then reads,  *)
(* then writes (TraceThread::handleInstructionDetailed, handleBranch,      *)
(* handleMemoryReadDetailed and handleMemoryWriteDetailed).                *)
InfosOf(kind) ==
  CASE kind = "load"   -> <<"read">>
    [] kind = "update" -> <<"read", "write">>
    [] kind = "branch" -> <<"branch">>
    [] OTHER           -> <<>>

(* The information handleInstruction() takes: that of its memory operands, *)
(* and for a branch what getCost() takes.  The Simple model calls          *)
(* getCost() twice.                                                        *)
Taken(kind) ==
  IF kind = "branch" /\ pq_cfg.model = "simple" THEN <<"branch", "branch">>
  ELSE InfosOf(kind)

Block(kinds, first) == [i \in DOMAIN kinds |-> [n |-> first + i, kind |-> kinds[i]]]
Infos(block) ==
  FlattenSeq([i \in DOMAIN block |->
    [j \in DOMAIN InfosOf(block[i].kind) |->
       [n |-> block[i].n, type |-> InfosOf(block[i].kind)[j]]]])

(* Time passes for the core, of which idle: incrementIdleElapsedTime.      *)
Pass(time, idle, component) ==
  /\ pq_elapsed' = pq_elapsed + time
  /\ pq_idle' = IF idle THEN pq_idle + time ELSE pq_idle
  /\ pq_cpi' = [pq_cpi EXCEPT ![component] = @ + time]

(* CircularQueue::push asserts that the queue is not full.                 *)
PushBlock(block) ==
  IF Len(pq_blocks) = BlockQueueSize
    THEN pq_error' = "block queue full" /\ UNCHANGED pq_blocks
    ELSE pq_blocks' = Append(pq_blocks, block) /\ UNCHANGED pq_error

-----------------------------------------------------------------------------
(* Mutant: a block is queued before those queued earlier are handled.      *)
PinQueueFirst(block) ==
  PushBlock(block) /\ pq_todo' = Infos(block) /\ UNCHANGED pq_next

(* The block waits for iterate().                                          *)
PinQueue(block) ==
  pq_next' = block /\ UNCHANGED <<pq_blocks, pq_error, pq_todo>>

(* handleBasicBlock (Pin): the blocks queued so far are handled, then the  *)
(* block is queued.  handleInstructionDetailed (traces): the block and its *)
(* information are queued, then blocks are handled.                        *)
QueueBasicBlock(kinds) ==
  /\ pq_at = "run" /\ pq_todo = <<>> /\ pq_enabled /\ ~pq_ff
  /\ pq_issued.blocks < MaxBlocks
  /\ LET block == Block(kinds, pq_issued.instructions)
     IN /\ pq_issued' = [instructions |-> pq_issued.instructions + Len(kinds),
                         blocks |-> pq_issued.blocks + 1]
        /\ pq_at' = "iterate"
        /\ IF pq_cfg.front = "pin"
             THEN PinQueue(block) /\ UNCHANGED pq_infos
             ELSE /\ PushBlock(block)
                  /\ pq_infos' = pq_infos \o Infos(block)
                  /\ UNCHANGED <<pq_next, pq_todo>>
  /\ UNCHANGED <<pq_cfg, pq_index, pq_handled, modeVars, timeVars, pq_extra>>

(* The functional thread executes the block it has queued.                 *)
PushDynamicInstructionInfo ==
  /\ pq_at = "run" /\ pq_todo # <<>>
  /\ IF Len(pq_infos) = InfoQueueSize
       THEN pq_error' = "info queue full" /\ UNCHANGED pq_infos
       ELSE pq_infos' = Append(pq_infos, Head(pq_todo)) /\ UNCHANGED pq_error
  /\ pq_todo' = Tail(pq_todo)
  /\ UNCHANGED <<pq_cfg, pq_at, pq_next, pq_blocks, pq_index, pq_issued, pq_handled,
                 modeVars, timeVars, pq_extra>>

MoreToHandle == Len(pq_blocks) > 1

(* The cost of an instruction that accessed memory for latency, and where  *)
(* OneIPC accounts it.                                                     *)
Cost(kind, latency) ==
  CASE kind = "dynamic" -> 2
    [] pq_cfg.model = "oneipc" /\ kind \in {"load", "update"} ->
         1 + (IF latency > Cutoff THEN latency ELSE 0)
    [] OTHER -> 1 + latency
Component(kind) ==
  CASE pq_cfg.model # "oneipc" -> "base"
    [] kind \in {"load", "update"} -> "data"
    [] kind = "branch" -> "branch"
    [] OTHER -> "base"

(* Mutant: a block ends one instruction early.                             *)
AdvanceShort(block) ==
  /\ pq_index' = IF pq_index + 2 < Len(block) THEN pq_index + 1 ELSE 0
  /\ pq_blocks' = IF pq_index + 2 < Len(block) THEN pq_blocks ELSE Tail(pq_blocks)

(* The loop of iterate() goes on to the next instruction, or block.        *)
Advance(block) ==
  /\ pq_index' = IF pq_index + 1 < Len(block) THEN pq_index + 1 ELSE 0
  /\ pq_blocks' = IF pq_index + 1 < Len(block) THEN pq_blocks ELSE Tail(pq_blocks)

(* One instruction of iterate(): handleInstruction takes its information,  *)
(* which must be for it and of its type.  If the queue runs dry iterate()  *)
(* returns, and what was taken is gone.                                    *)
HandleInstruction(latency) ==
  /\ pq_at = "iterate" /\ MoreToHandle /\ pq_error = "none"
  /\ LET block == Head(pq_blocks)
         ins == block[pq_index + 1]
         need == Taken(ins.kind)
         got == IF Len(pq_infos) < Len(need) THEN Len(pq_infos) ELSE Len(need)
     IN /\ latency \in (IF ins.kind \in {"load", "update"} THEN Latencies ELSE {0})
        /\ IF \E i \in 1 .. got : pq_infos[i] # [n |-> ins.n, type |-> need[i]]
             THEN /\ pq_error' = "wrong information"
                  /\ UNCHANGED <<pq_at, pq_infos, pq_index, pq_blocks, pq_handled, timeVars>>
             ELSE IF got < Len(need)
             THEN /\ pq_at' = "run" /\ pq_infos' = <<>>
                  /\ pq_error' = "not available"
                  /\ UNCHANGED <<pq_index, pq_blocks, pq_handled, timeVars>>
             ELSE /\ pq_infos' = SubSeq(pq_infos, got + 1, Len(pq_infos))
                  /\ Pass(Cost(ins.kind, latency), FALSE, Component(ins.kind))
                  /\ pq_handled' = Append(pq_handled, ins.n)
                  /\ Advance(block)
                  /\ UNCHANGED <<pq_at, pq_error>>
  /\ UNCHANGED <<pq_cfg, pq_next, pq_todo, pq_issued, modeVars, pq_extra>>

(* The end of iterate().                                                   *)
IterateDone ==
  /\ pq_at = "iterate" /\ ~MoreToHandle
  /\ pq_at' = "run"
  /\ IF pq_next # <<>>
       THEN PushBlock(pq_next) /\ pq_todo' = Infos(pq_next) /\ pq_next' = <<>>
       ELSE UNCHANGED <<pq_blocks, pq_error, pq_todo, pq_next>>
  /\ UNCHANGED <<pq_cfg, pq_infos, pq_index, pq_issued, pq_handled, modeVars, timeVars, pq_extra>>

-----------------------------------------------------------------------------
(* queueDynamicInstruction of an instruction that takes time: a TLB miss,  *)
(* also of an access made by handleInstruction, or a MEM_MODELED_TIME      *)
(* access.                                                                 *)
QueueDynamic ==
  /\ pq_extra.dynamic < MaxDynamic
  /\ pq_extra' = [pq_extra EXCEPT !.dynamic = @ + 1]
  /\ \/ /\ ~pq_enabled
        /\ UNCHANGED <<pq_blocks, pq_error, timeVars>>
     \/ /\ pq_enabled /\ pq_ff
        /\ Pass(2, FALSE, "fastforward")
        /\ UNCHANGED <<pq_blocks, pq_error>>
     \/ /\ pq_enabled /\ ~pq_ff
        /\ PushBlock(<<[n |-> 0, kind |-> "dynamic"]>>)
        /\ UNCHANGED timeVars
  /\ UNCHANGED <<pq_cfg, pq_at, pq_next, pq_todo, pq_infos, pq_index, pq_issued,
                 pq_handled, modeVars>>

(* Mutant: a thread that was woken before its core's time turns it back.   *)
SyncCostBack(end) == end - pq_elapsed

SyncCost(end) == IF end > pq_elapsed THEN end - pq_elapsed ELSE 0

(* handleIdleInstruction: a synchronisation that ends at a given time, or  *)
(* a delay (a DVFS transition, a received message).                        *)
HandleIdleInstruction(component, end) ==
  /\ pq_at = "run" /\ pq_extra.idle < MaxIdle
  /\ pq_extra' = [pq_extra EXCEPT !.idle = @ + 1]
  /\ IF ~pq_enabled \/ (pq_ff /\ ~pq_detailed) THEN UNCHANGED timeVars
     ELSE Pass(IF component = "sync" THEN SyncCost(end) ELSE end, TRUE, component)
  /\ UNCHANGED <<pq_cfg, pq_at, pq_next, pq_blocks, pq_todo, pq_infos, pq_index,
                 pq_issued, pq_handled, pq_error, modeVars>>

(* A thread starts on the core: onThreadStart and addCheckScheduled take   *)
(* the later of its time and the core's.  setElapsedTime cannot go back.   *)
Spawn(time) ==
  /\ pq_at = "run" /\ pq_todo = <<>> /\ pq_extra.idle < MaxIdle
  /\ pq_extra' = [pq_extra EXCEPT !.idle = @ + 1]
  /\ LET start == IF time > pq_elapsed THEN time ELSE pq_elapsed
     IN Pass(start - pq_elapsed, TRUE, IF pq_elapsed > 0 THEN "unscheduled" ELSE "start")
  /\ UNCHANGED <<pq_cfg, pq_at, pq_next, pq_blocks, pq_todo, pq_infos, pq_index,
                 pq_issued, pq_handled, pq_error, modeVars>>

(* enable, disable, setFastForward, and countInstructions of the           *)
(* fast-forward model: the program goes on without blocks being queued.    *)
SetMode(enabled, ff, detailed) ==
  /\ pq_at = "run" /\ pq_todo = <<>> /\ pq_extra.idle < MaxIdle
  /\ pq_extra' = [pq_extra EXCEPT !.idle = @ + 1]
  /\ pq_enabled' = enabled /\ pq_ff' = ff /\ pq_detailed' = detailed
  /\ UNCHANGED <<pq_cfg, pq_at, pq_next, pq_blocks, pq_todo, pq_infos, pq_index,
                 pq_issued, pq_handled, pq_error, timeVars>>

CountInstructions(count) ==
  /\ pq_at = "run" /\ pq_ff /\ pq_extra.idle < MaxIdle
  /\ pq_extra' = [pq_extra EXCEPT !.idle = @ + 1]
  /\ Pass(count, FALSE, "fastforward")
  /\ UNCHANGED <<pq_cfg, pq_at, pq_next, pq_blocks, pq_todo, pq_infos, pq_index,
                 pq_issued, pq_handled, pq_error, modeVars>>

PqInit ==
  /\ pq_cfg \in [model : PqModels, front : PqFronts]
  /\ pq_at = "run" /\ pq_next = <<>> /\ pq_blocks = <<>> /\ pq_todo = <<>>
  /\ pq_infos = <<>> /\ pq_index = 0 /\ pq_handled = <<>> /\ pq_error = "none"
  /\ pq_issued = [instructions |-> 0, blocks |-> 0]
  /\ pq_enabled = TRUE /\ pq_ff = FALSE /\ pq_detailed = TRUE
  /\ pq_elapsed = 0 /\ pq_idle = 0 /\ pq_cpi = [c \in Components |-> 0]
  /\ pq_extra = [dynamic |-> 0, idle |-> 0]

PqNext ==
  \/ \E kinds \in PqBlocks : QueueBasicBlock(kinds)
  \/ PushDynamicInstructionInfo
  \/ \E latency \in Latencies \cup {0} : HandleInstruction(latency)
  \/ IterateDone \/ QueueDynamic
  \/ \E t \in WakeTimes : \/ \E c \in {"sync", "dvfs", "recv"} : HandleIdleInstruction(c, t)
                          \/ Spawn(t) \/ CountInstructions(t)
  \/ \E e, f, d \in BOOLEAN : SetMode(e, f, d)

-----------------------------------------------------------------------------
PqTypeOK ==
  /\ pq_at \in {"run", "iterate"}
  /\ Len(pq_blocks) <= BlockQueueSize /\ Len(pq_infos) <= InfoQueueSize
  /\ DOMAIN pq_cpi = Components /\ pq_elapsed >= 0

(* Information always reaches the instruction it was pushed for, and is    *)
(* there when the instruction is handled: blocks are handled one behind    *)
(* the functional thread, whatever dynamic instructions come between, so   *)
(* that iterate() never has to return in the middle of a block.            *)
InfoPaired == pq_error \notin {"wrong information", "not available"}

(* Every instruction the functional thread executes is handled once, in    *)
(* program order, and none is lost: what is not handled is still queued.   *)
HandledInOrder ==
  LET program == SelectSeq(pq_handled, LAMBDA n : n > 0)
  IN /\ \A i \in DOMAIN program : program[i] = i
     /\ pq_at = "run" /\ pq_error = "none"
          => Len(program) + Len(SelectSeq(FlattenSeq(pq_blocks), LAMBDA i : i.n > 0))
               = pq_issued.instructions

(* The CPI stack accounts for all of the time, and idle time is what was   *)
(* accounted to idle components: time never goes back.                     *)
CpiAddsUp ==
  LET total(S) == FoldSet(LAMBDA c, s : s + pq_cpi[c], 0, S)
  IN /\ \A c \in Components : pq_cpi[c] >= 0
     /\ total(Components) = pq_elapsed
     /\ total({"start", "sync", "unscheduled", "dvfs", "recv"}) = pq_idle

(* The queues between a front end and a core's performance model:           *)
(* information reaches the instruction it was pushed for and is there in    *)
(* time, every instruction is handled once and in program order, and the    *)
(* CPI stack accounts for all of the time.                                  *)
QueueCorrect == PqTypeOK /\ InfoPaired /\ HandledInOrder /\ CpiAddsUp
=============================================================================
