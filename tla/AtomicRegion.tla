---------------------------- MODULE AtomicRegion ----------------------------
(***************************************************************************)
(* Atomic regions: the block-chop extension of the performance model.      *)
(* PerformanceModel::iterate() records the memory operands of every        *)
(* instruction in the core's memoryAccesses; after REGION_SIZE             *)
(* instructions commit() compares them, under memMapsLock, with those of   *)
(* the other running cores, and lets a squash handler act until there is   *)
(* no conflict left.  Then the region's accesses are dropped.              *)
(*                                                                         *)
(* What is recorded are pointers into a copy of the operand list that dies *)
(* at the end of the loop body: what a later reader finds there is chosen  *)
(* freely.  Instruction::translated is never initialised, so that the      *)
(* first translations are chosen freely too.  Time is left out.            *)
(***************************************************************************)
EXTENDS Integers, Sequences, FiniteSets

CONSTANTS RegionCores,
          Instrs,        \* instructions of the program
          RegionSize,    \* REGION_SIZE
          MaxRetries,    \* MAX_RETRIES
          FewInstrs,     \* REGION_SIZE / 20
          Handlers       \* handlers that commit() may be built with

ASSUME RegionAssumption ==
  /\ RegionSize \in Nat \ {0} /\ MaxRetries \in Nat \ {0} /\ FewInstrs \in Nat
  /\ \A i \in Instrs : \A k \in DOMAIN i : i[k].dir \in {"read", "write"}
  /\ "free" \notin RegionCores
  /\ Handlers \subseteq {"adaptive_interpret", "adaptive_chopper",
                         "interpret", "chopper", "mem_count", "probability"}

VARIABLES handler,       \* the handler whose handleSquash commit() calls
          pc,            \* core -> where its thread is in iterate()
          ins,           \* core -> the instruction it is at
          operands,      \* core -> operands the record loop has still to see
          accesses,      \* core -> memoryAccesses, as a set of operands
          count,         \* core -> count
          squashes,      \* core -> numRegionSquashes
          recent,        \* core -> the instructions in memoryInstructions
          queued,        \* core -> size of that queue, up to what is tested
          translated,    \* instructions whose translated flag is set
          lock,          \* memMapsLock: the core that holds it, or "free"
          back,          \* core -> where a commit returns to
          running        \* core -> whether checkMemAccesses looks at it

vars == <<handler, pc, ins, operands, accesses, count, squashes, recent,
          queued, translated, lock, back, running>>

(* An instruction is its list of memory operands, reads before writes.     *)
Op(a, d) == [addr |-> a, dir |-> d]
NoInstr == <<Op("none", "none")>>

(* fillOperandListMemOps: whatever it accesses, the operand's value is 0.  *)
ValueOf(op) == 0

(* What a recorded operand may look like to a reader.                      *)
MayBe(o, d) == ~o.live \/ o.dir = d
MustBe(o, d) == o.live /\ o.dir = d

Accesses(i, o) == \E k \in DOMAIN i : i[k].addr = o.addr /\ i[k].dir = o.dir
Put(f, c, v) == [f EXCEPT ![c] = v]
Least(a, b) == IF a < b THEN a ELSE b

-----------------------------------------------------------------------------
(* CoreManager::checkMemAccesses: the outcomes it may have.                *)
Others(c) == {d \in RegionCores \ {c} : running[d]}
SameKey(o, d) == {p \in accesses[d] : p.value = o.value}

ConflictPossible(c) ==
  \E o \in accesses[c], d \in Others(c) :
    \/ MayBe(o, "write") /\ SameKey(o, d) # {}
    \/ MayBe(o, "read") /\ \E p \in SameKey(o, d) : MayBe(p, "write")

ConflictCertain(c) ==
  \E o \in accesses[c], d \in Others(c) :
    \/ MustBe(o, "write") /\ SameKey(o, d) # {}
    \/ MustBe(o, "read") /\ \E p \in SameKey(o, d) : MustBe(p, "write")

(* A conflict between the regions of c and of a running core.              *)
RealConflict(c) ==
  \E o \in accesses[c], d \in Others(c) : \E p \in accesses[d] :
    o.addr = p.addr /\ "write" \in {o.dir, p.dir}

(* Mutant: after the first retries the handler goes on retrying.           *)
RetryForEver(c) == "retry"

(* handleSquash() of the handlers: which action they perform.              *)
Again(c) == squashes[c] > 0 /\ squashes[c] % MaxRetries = 0
AdaptiveInterpret(c) == IF Again(c) THEN "interpret" ELSE "retry"
AdaptiveChopper(c) == IF Again(c) THEN "chop" ELSE "retry"
MemCount(c) ==
  IF queued[c] >= FewInstrs THEN "chop"
  ELSE IF squashes[c] < 5 THEN "retry" ELSE "interpret"

(* The divisions are integer ones: the handler never interprets.           *)
Probability(c) ==
  LET probability == ((queued[c] \div RegionSize) + (squashes[c] \div 5)) \div 2
  IN IF probability = 0 THEN "retry" ELSE "chop"

ActionOf(c) ==
  CASE handler = "adaptive_interpret" -> AdaptiveInterpret(c)
    [] handler = "adaptive_chopper" -> AdaptiveChopper(c)
    [] handler = "interpret" -> "interpret"
    [] handler = "chopper" -> "chop"
    [] handler = "mem_count" -> MemCount(c)
    [] OTHER -> Probability(c)

(* The actions' perform().                                                 *)
RetryAction == UNCHANGED <<accesses, translated, recent, queued>>

InterpretAction(c) ==
  /\ accesses' = Put(accesses, c, {})
  /\ UNCHANGED <<translated, recent, queued>>

ChopperAction(c) ==
  /\ translated' = translated \cup recent[c]
  /\ recent' = Put(recent, c, {}) /\ queued' = Put(queued, c, 0)
  /\ accesses' = Put(accesses, c, {})

Perform(c, action) ==
  \/ action = "retry" /\ RetryAction
  \/ action = "interpret" /\ InterpretAction(c)
  \/ action = "chop" /\ ChopperAction(c)

-----------------------------------------------------------------------------
(* What the map may hold once the operands of an instruction have been      *)
(* looked at in order: those at the positions W are recorded, since none    *)
(* with their value and direction was seen there; at every other position   *)
(* there seemed to be one.                                                  *)
Recorded(set, ops) ==
  LET new(op) == [addr |-> op.addr, dir |-> op.dir, value |-> ValueOf(op),
                  live |-> TRUE]
      with(W) == set \cup {new(ops[i]) : i \in W}
      same(W, k) == {o \in with({i \in W : i < k}) : o.value = ValueOf(ops[k])}
      Choices == {W \in SUBSET DOMAIN ops : \A k \in DOMAIN ops :
                    IF k \in W THEN ~\E o \in same(W, k) : MustBe(o, ops[k].dir)
                               ELSE \E o \in same(W, k) : MayBe(o, ops[k].dir)}
  IN {with(W) : W \in Choices}

(* The next instruction, or the one the last call of iterate() stopped at, *)
(* enters memoryInstructions, and its operands are looked at with the lock *)
(* held: one step, since the maps are not touched without it.              *)
RecordAccesses(c) ==
  /\ pc[c] = "insn" \/ (pc[c] = "idle" /\ running[c])
  /\ lock = "free"
  /\ \E i \in IF ins[c] = NoInstr THEN Instrs ELSE {ins[c]} :
       /\ ins' = Put(ins, c, i)
       /\ recent' = Put(recent, c, recent[c] \cup {i})
       /\ IF i \in translated
            THEN /\ operands' = Put(operands, c, Tail(i))
                 /\ pc' = Put(pc, c, "commit") /\ back' = Put(back, c, "record")
                 /\ UNCHANGED accesses
            ELSE /\ \E set \in Recorded(accesses[c], i) :
                      accesses' = Put(accesses, c, set)
                 /\ pc' = Put(pc, c, "handle")
                 /\ UNCHANGED <<operands, back>>
  /\ queued' = Put(queued, c, Least(queued[c] + 1, 2 * RegionSize))
  /\ UNCHANGED <<handler, count, squashes, translated, lock, running>>

(* A region ended at an operand of a translated instruction: the next      *)
(* operand ends another one.                                               *)
ChopAtOperand(c) ==
  /\ pc[c] = "record" /\ lock = "free"
  /\ IF operands[c] = <<>>
       THEN pc' = Put(pc, c, "handle") /\ UNCHANGED operands
       ELSE /\ operands' = Put(operands, c, Tail(operands[c]))
            /\ pc' = Put(pc, c, "commit")
  /\ UNCHANGED <<handler, ins, accesses, count, squashes, recent, queued,
                 translated, lock, back, running>>

(* Mutant: the region ends one instruction late.                           *)
RegionFullLate(n) == n > RegionSize

(* canCommit() of every handler is false: nothing sets commitStatus.       *)
RegionFull(n) == n = RegionSize

(* Mutant: the barrier waits for stalled cores too.                        *)
OpenedByAll(at, run) ==
  IF \A d \in RegionCores : at[d] = "barrier"
    THEN [d \in RegionCores |-> "idle"] ELSE at

(* synchronize(): the skew barrier opens for those who wait in it as soon  *)
(* as every running core is there.                                         *)
Opened(at, run) ==
  IF \A d \in RegionCores : run[d] => at[d] = "barrier"
    THEN [d \in RegionCores |-> IF at[d] = "barrier" THEN "idle" ELSE at[d]]
    ELSE at

(* The loop body ends and the copy of the operand list dies with it: the   *)
(* recorded pointers dangle.  Without its dynamic information iterate()    *)
(* returns and will come back to this instruction; after the last          *)
(* instruction of the last block it goes on to synchronize().              *)
EndInstruction(c, found, last, set) ==
  /\ accesses' = Put(accesses, c, {[o EXCEPT !.live = FALSE] : o \in set})
  /\ ins' = IF found THEN Put(ins, c, NoInstr) ELSE ins
  /\ pc' = IF ~found THEN Put(pc, c, "idle")
           ELSE IF last THEN Opened(Put(pc, c, "barrier"), running)
           ELSE Put(pc, c, "insn")

(* handleInstruction() was called; found tells whether its dynamic         *)
(* information was there.  The instruction is counted either way.          *)
HandleInstruction(c, found, last) ==
  /\ pc[c] = "handle"
  /\ ins[c] = <<>> => found
  /\ count' = Put(count, c, count[c] + 1)
  /\ IF RegionFull(count[c] + 1)
       THEN /\ pc' = Put(pc, c, "commit")
            /\ back' = Put(back, c, IF found THEN "done" ELSE "stop")
            /\ UNCHANGED <<ins, accesses>>
       ELSE EndInstruction(c, found, last, accesses[c]) /\ UNCHANGED back
  /\ UNCHANGED <<handler, operands, squashes, recent, queued, translated, lock,
                 running>>

-----------------------------------------------------------------------------
(* commit(): take the lock ...                                             *)
CommitLock(c) ==
  /\ pc[c] = "commit" /\ lock = "free"
  /\ lock' = c /\ pc' = Put(pc, c, "check")
  /\ UNCHANGED <<handler, ins, operands, accesses, count, squashes, recent,
                 queued, translated, back, running>>

(* ... while there is a conflict let the handler act, lock held ...        *)
Squash(c) ==
  /\ pc[c] = "check" /\ ConflictPossible(c)
  /\ Perform(c, ActionOf(c))
  /\ squashes' = Put(squashes, c, squashes[c] + 1)
  /\ UNCHANGED <<handler, pc, ins, operands, count, lock, back, running>>

(* ... release it, and sleep for the writes.                               *)
CommitEnd(c) ==
  /\ pc[c] = "check" /\ ~ConflictCertain(c)
  /\ lock' = "free" /\ pc' = Put(pc, c, "reset")
  /\ UNCHANGED <<handler, ins, operands, accesses, count, squashes, recent,
                 queued, translated, back, running>>

(* Mutant: the map of the region is not emptied.                           *)
KeepMap(c) == accesses[c]

(* resetMemMap() empties the map.                                          *)
ResetMemMap(c) == {}

(* The end of a region.  Only the region that was full empties             *)
(* memoryInstructions; the other path goes back to the operands.           *)
EndRegion(c, last) ==
  /\ pc[c] = "reset" /\ lock = "free"
  /\ squashes' = Put(squashes, c, 0)
  /\ count' = Put(count, c, 0)
  /\ IF back[c] = "record"
       THEN /\ accesses' = Put(accesses, c, ResetMemMap(c))
            /\ pc' = Put(pc, c, "record")
            /\ UNCHANGED <<ins, recent, queued>>
       ELSE /\ EndInstruction(c, back[c] = "done", last, ResetMemMap(c))
            /\ recent' = Put(recent, c, {}) /\ queued' = Put(queued, c, 0)
  /\ UNCHANGED <<handler, operands, translated, lock, back, running>>

-----------------------------------------------------------------------------
(* A thread blocks in a system call, or is woken again: between two calls  *)
(* of iterate(), its region still open.  The barrier need not wait for it. *)
Stall(c) ==
  /\ pc[c] = "idle" /\ running[c] /\ \E d \in RegionCores \ {c} : running[d]
  /\ running' = Put(running, c, FALSE)
  /\ pc' = Opened(pc, running')
  /\ UNCHANGED <<handler, ins, operands, accesses, count, squashes, recent,
                 queued, translated, lock, back>>

Resume(c) ==
  /\ ~running[c]
  /\ running' = Put(running, c, TRUE)
  /\ UNCHANGED <<handler, pc, ins, operands, accesses, count, squashes, recent,
                 queued, translated, lock, back>>

Init ==
  /\ handler \in Handlers
  /\ pc = [c \in RegionCores |-> "idle"]
  /\ ins = [c \in RegionCores |-> NoInstr]
  /\ operands = [c \in RegionCores |-> <<>>]
  /\ accesses = [c \in RegionCores |-> {}]
  /\ count = [c \in RegionCores |-> 0]
  /\ squashes = [c \in RegionCores |-> 0]
  /\ recent = [c \in RegionCores |-> {}]
  /\ queued = [c \in RegionCores |-> 0]
  /\ translated \in SUBSET (Instrs \ {<<>>})
  /\ lock = "free"
  /\ back = [c \in RegionCores |-> "done"]
  /\ running = [c \in RegionCores |-> TRUE]

Step(c) ==
  \/ RecordAccesses(c) \/ ChopAtOperand(c)
  \/ \E found, last \in BOOLEAN : HandleInstruction(c, found, last)
  \/ CommitLock(c) \/ Squash(c) \/ CommitEnd(c)
  \/ \E last \in BOOLEAN : EndRegion(c, last)

Next == \E c \in RegionCores : Step(c) \/ Stall(c) \/ Resume(c)

Spec == Init /\ [][Next]_vars

(* Steps that take memMapsLock, and steps that end the work of iterate().  *)
TakesLock(c) ==
  \/ RecordAccesses(c) \/ ChopAtOperand(c) \/ CommitLock(c)
  \/ \E last \in BOOLEAN : EndRegion(c, last)
LastInstruction(c) ==
  \/ ~RegionFull(count[c] + 1) /\ HandleInstruction(c, TRUE, TRUE)
  \/ back[c] = "done" /\ EndRegion(c, TRUE)

(* A host thread that can go on does; memMapsLock is not denied for ever   *)
(* to one that waits for it; the dynamic information of an instruction     *)
(* arrives in the end; and the queue of basic blocks, of bounded size,     *)
(* runs empty, which takes the thread to the barrier.                      *)
FairSpec ==
  /\ Spec
  /\ \A c \in RegionCores :
       /\ WF_vars(Step(c))
       /\ SF_vars(TakesLock(c))
       /\ SF_vars(\E last \in BOOLEAN : HandleInstruction(c, TRUE, last))
       /\ SF_vars(LastInstruction(c))

-----------------------------------------------------------------------------
TypeOK ==
  /\ handler \in Handlers
  /\ pc \in [RegionCores -> {"idle", "insn", "record", "handle", "commit",
                             "check", "reset", "barrier"}]
  /\ \A c \in RegionCores :
       /\ ins[c] \in Instrs \cup {NoInstr}
       /\ \A o \in accesses[c] : o.value = 0 /\ o.dir \in {"read", "write"}
       /\ count[c] \in 0..RegionSize
       /\ recent[c] \subseteq Instrs
  /\ translated \subseteq Instrs
  /\ lock \in RegionCores \cup {"free"}
  /\ back \in [RegionCores -> {"done", "stop", "record"}]
  /\ running \in [RegionCores -> BOOLEAN]

(* Before the first instruction of a region is counted nothing is left of   *)
(* the one before: no retries, no pointer that dangles, and no access at    *)
(* all but those of the instruction that is being handled.  What the map    *)
(* still held would be compared with other cores again (resetMemMap()); a   *)
(* commit without instructions, between the operands of a translated one,   *)
(* never squashes.                                                          *)
RegionStartsEmpty(c) ==
  count[c] = 0 =>
    /\ squashes[c] = 0
    /\ \A o \in accesses[c] : o.live
    /\ pc[c] # "handle" => accesses[c] = {}

(* Every access in the map is one of an instruction in memoryInstructions:  *)
(* the queue and the map are filled and emptied at different places, and    *)
(* what ChopperAction translates has to contain what caused the conflict.   *)
AccessesOfRecent(c) ==
  \A o \in accesses[c] : \E i \in recent[c] : Accesses(i, o)

(* No region is squashed for what an earlier region of the core did.        *)
RegionsSeparate ==
  \A c \in RegionCores : RegionStartsEmpty(c) /\ AccessesOfRecent(c)

(* How often each handler can be asked before the region's own accesses    *)
(* are gone and with them the conflict.                                    *)
Budget ==
  CASE handler \in {"interpret", "chopper"} -> 1
    [] handler \in {"adaptive_interpret", "adaptive_chopper"} -> MaxRetries + 1
    [] handler = "mem_count" -> 6
    [] OTHER -> 11

(* The retries of a commit are bounded although memMapsLock is held all    *)
(* the while and nobody else can take a conflicting access back.           *)
RetriesBounded == \A c \in RegionCores : squashes[c] <= Budget

(* Squash handlers are for conflicts ("Performs actions for squash if      *)
(* conflict is detected"): what checkMemAccesses is sure to report, even   *)
(* without the dangling pointers, is one.  Refuted: see ValueOf.           *)
SquashMeansConflict ==
  \A c \in RegionCores :
    pc[c] = "check" /\ ConflictCertain(c) => RealConflict(c)

(* What a core is squashed for is a region that is still open.  Refuted:    *)
(* commit() releases memMapsLock before resetMemMap() takes it again, and   *)
(* in between the map of a committed region is compared with.               *)
SquashedByOpenRegion ==
  \A c \in RegionCores :
    pc[c] = "check" /\ ConflictCertain(c)
      => \E d \in Others(c) : accesses[d] # {} /\ pc[d] # "reset"

(* A core that waits in the skew barrier goes on: the core it waits for    *)
(* does not stay in its squash loop, or wait for memMapsLock, for ever.    *)
BarrierOpens ==
  \A c \in RegionCores : (pc[c] = "barrier") ~> (pc[c] = "idle")

(* The types, and that map, counters and memoryInstructions speak of one    *)
(* region: no region is squashed for what an earlier one of the core did.   *)
RegionsCorrect == TypeOK /\ RegionsSeparate
=============================================================================
