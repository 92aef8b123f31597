------------------------- MODULE AtomicRegionProofs -------------------------
(***************************************************************************)
(* AtomicRegion, for any cores, programs, region sizes and retry limits:   *)
(* commits exclude each other, a region is squashed no more often than its *)
(* handler's budget, and nothing of a region survives its commit.          *)
(***************************************************************************)
EXTENDS AtomicRegion, TLAPS

Places == {"idle", "insn", "record", "handle", "commit", "check", "reset", "barrier"}

\* What memoryAccesses may hold.
Recordable ==
    [addr : UNION {{i[k].addr : k \in DOMAIN i} : i \in Instrs},
     dir : {"read", "write"}, value : {0}, live : BOOLEAN]

\* The type invariant, with the functions' domains.
Types ==
    /\ handler \in Handlers
    /\ pc \in [RegionCores -> Places]
    /\ ins \in [RegionCores -> Instrs \cup {NoInstr}]
    /\ accesses \in [RegionCores -> SUBSET Recordable]
    /\ count \in [RegionCores -> 0..RegionSize]
    /\ squashes \in [RegionCores -> Nat]
    /\ recent \in [RegionCores -> SUBSET Instrs]
    /\ queued \in [RegionCores -> Nat]
    /\ translated \subseteq Instrs
    /\ lock \in RegionCores \cup {"free"}
    /\ back \in [RegionCores -> {"done", "stop", "record"}]
    /\ running \in [RegionCores -> BOOLEAN]

\* A core outside commit() has a region that is not full; outside the squash
\* loop it has retried nothing; a core that still has accesses to retry has
\* spent less than its budget; only the core in commit() has the lock; and a
\* region starts with nothing of the one before.
CoreInv(c) ==
    /\ pc[c] \notin {"commit", "check", "reset"} => count[c] < RegionSize
    /\ pc[c] \notin {"check", "reset"} => squashes[c] = 0
    /\ squashes[c] <= Budget
    /\ accesses[c] # {} => squashes[c] < Budget
    /\ lock = c <=> pc[c] = "check"
    /\ RegionStartsEmpty(c)
    /\ AccessesOfRecent(c)

RegionInv == Types /\ \A c \in RegionCores : CoreInv(c)

\* Two cores are never in the squash loop at once, so that no map changes
\* while checkMemAccesses reads it.
CommitsExclusive ==
    \A c, d \in RegionCores : pc[c] = "check" /\ pc[d] = "check" => c = d
-----------------------------------------------------------------------------
\* Every handler has a budget of at least one retry.
LEMMA BudgetFacts ==
  ASSUME handler \in Handlers
  PROVE  /\ Budget \in Nat /\ Budget >= 1
         /\ handler \in {"interpret", "chopper"} => Budget = 1
         /\ handler \in {"adaptive_interpret", "adaptive_chopper"} => Budget = MaxRetries + 1
         /\ handler = "mem_count" => Budget = 6
         /\ handler = "probability" => Budget = 11
  BY RegionAssumption DEF Budget

\* The barrier lets cores out and moves nobody else.
LEMMA OpenedFacts ==
  ASSUME NEW at \in [RegionCores -> Places], NEW run
  PROVE  /\ Opened(at, run) \in [RegionCores -> Places]
         /\ \A d \in RegionCores : \/ Opened(at, run)[d] = at[d]
                                   \/ at[d] = "barrier" /\ Opened(at, run)[d] = "idle"
  BY DEF Opened, Places

\* A core that only leaves the barrier keeps its part of the invariant.
LEMMA OthersKeep ==
  ASSUME NEW d, CoreInv(d), handler' = handler, count'[d] = count[d],
         squashes'[d] = squashes[d], accesses'[d] = accesses[d],
         recent'[d] = recent[d],
         pc'[d] = pc[d] \/ (pc[d] = "barrier" /\ pc'[d] = "idle"),
         lock' = d <=> lock = d
  PROVE  CoreInv(d)'
  BY DEF CoreInv, Budget, RegionStartsEmpty, AccessesOfRecent

\* The operands of an instruction enter the map alive.
LEMMA RecordedFacts ==
  ASSUME NEW set \in SUBSET Recordable, NEW i \in Instrs, NEW s \in Recorded(set, i)
  PROVE  /\ s \in SUBSET Recordable
         /\ \A o \in s : o \in set \/ (o.live /\ Accesses(i, o))
<1> DEFINE new(op) == [addr |-> op.addr, dir |-> op.dir, value |-> ValueOf(op),
                       live |-> TRUE]
<1>1. PICK W \in SUBSET DOMAIN i : s = set \cup {new(i[k]) : k \in W}
  BY DEF Recorded
<1>2. \A k \in DOMAIN i : new(i[k]) \in Recordable
  BY RegionAssumption DEF Recordable, ValueOf
<1>3. \A k \in DOMAIN i :
        new(i[k]).live /\ new(i[k]).addr = i[k].addr /\ new(i[k]).dir = i[k].dir
  OBVIOUS
<1> HIDE DEF new
<1>5. s \in SUBSET Recordable
  BY <1>1, <1>2
<1>6. ASSUME NEW o \in s, o \notin set
      PROVE  o.live /\ Accesses(i, o)
  <2>1. PICK k \in W : o = new(i[k])
    BY <1>1, <1>6
  <2>2. QED
    BY <2>1, <1>3 DEF Accesses
<1>7. QED
  BY <1>5, <1>6

\* The end of the loop body: the map holds the same operands, none of them
\* alive, and the core leaves for the next instruction or the barrier.
LEMMA EndInstructionFacts ==
  ASSUME Types, NEW c \in RegionCores, NEW found \in BOOLEAN, NEW last \in BOOLEAN,
         NEW set \in SUBSET Recordable, EndInstruction(c, found, last, set)
  PROVE  /\ accesses' \in [RegionCores -> SUBSET Recordable]
         /\ accesses'[c] = {} <=> set = {}
         /\ \A o \in accesses'[c] : \E p \in set : o.addr = p.addr /\ o.dir = p.dir
         /\ \A d \in RegionCores \ {c} : accesses'[d] = accesses[d]
         /\ ins' \in [RegionCores -> Instrs \cup {NoInstr}]
         /\ pc' \in [RegionCores -> Places]
         /\ pc'[c] \in {"idle", "insn", "barrier"}
         /\ \A d \in RegionCores \ {c} :
               pc'[d] = pc[d] \/ (pc[d] = "barrier" /\ pc'[d] = "idle")
<1>1. \A o \in Recordable : [o EXCEPT !.live = FALSE] \in Recordable
  BY DEF Recordable
<1>2. {[o EXCEPT !.live = FALSE] : o \in set} \in SUBSET Recordable
  BY <1>1
<1>3. accesses' = [accesses EXCEPT ![c] = {[o EXCEPT !.live = FALSE] : o \in set}]
  BY DEF EndInstruction, Put
<1>4. /\ accesses' \in [RegionCores -> SUBSET Recordable]
      /\ accesses'[c] = {[o EXCEPT !.live = FALSE] : o \in set}
      /\ \A d \in RegionCores \ {c} : accesses'[d] = accesses[d]
  BY <1>2, <1>3 DEF Types
<1>5. accesses'[c] = {} <=> set = {}
  <2>1. ASSUME NEW o \in set PROVE [o EXCEPT !.live = FALSE] \in accesses'[c]
    BY <1>4
  <2>2. ASSUME set = {} PROVE accesses'[c] = {}
    BY <1>4, <2>2
  <2>3. QED
    BY <2>1, <2>2
<1>6. ins' \in [RegionCores -> Instrs \cup {NoInstr}]
  BY DEF EndInstruction, Put, Types
<1>7. /\ pc' \in [RegionCores -> Places]
      /\ pc'[c] \in {"idle", "insn", "barrier"}
      /\ \A d \in RegionCores \ {c} :
            pc'[d] = pc[d] \/ (pc[d] = "barrier" /\ pc'[d] = "idle")
  <2>1. CASE ~found
    BY <2>1 DEF EndInstruction, Put, Types, Places
  <2>2. CASE found /\ ~last
    BY <2>2 DEF EndInstruction, Put, Types, Places
  <2>3. CASE found /\ last
    <3> DEFINE at == [pc EXCEPT ![c] = "barrier"]
    <3>1. at \in [RegionCores -> Places] /\ at[c] = "barrier"
          /\ \A d \in RegionCores \ {c} : at[d] = pc[d]
      BY DEF Types, Places
    <3>2. pc' = Opened(at, running)
      BY <2>3 DEF EndInstruction, Put
    <3> HIDE DEF at
    <3>3. QED
      BY <3>1, <3>2, OpenedFacts
  <2>4. QED
    BY <2>1, <2>2, <2>3
<1>8. ASSUME NEW o \in accesses'[c]
      PROVE  \E p \in set : o.addr = p.addr /\ o.dir = p.dir
  <2>1. PICK p \in set : o = [p EXCEPT !.live = FALSE]
    BY <1>4
  <2>2. p \in Recordable
    OBVIOUS
  <2>3. o.addr = p.addr /\ o.dir = p.dir
    BY <2>1, <2>2 DEF Recordable
  <2>4. QED
    BY <2>3
<1>9. QED
  BY <1>4, <1>5, <1>6, <1>7, <1>8
-----------------------------------------------------------------------------
\* The record loop starts with nothing retried.
LEMMA RecordStep ==
  ASSUME RegionInv, NEW c \in RegionCores, RecordAccesses(c)
  PROVE  RegionInv'
<1>1. Types /\ \A d \in RegionCores : CoreInv(d)
  BY DEF RegionInv
<1>2. PICK i \in IF ins[c] = NoInstr THEN Instrs ELSE {ins[c]} :
           /\ ins' = Put(ins, c, i)
           /\ recent' = Put(recent, c, recent[c] \cup {i})
           /\ IF i \in translated
                THEN /\ operands' = Put(operands, c, Tail(i))
                     /\ pc' = Put(pc, c, "commit") /\ back' = Put(back, c, "record")
                     /\ UNCHANGED accesses
                ELSE /\ \E set \in Recorded(accesses[c], i) :
                          accesses' = Put(accesses, c, set)
                     /\ pc' = Put(pc, c, "handle")
                     /\ UNCHANGED <<operands, back>>
  BY DEF RecordAccesses
<1>3. i \in Instrs
  BY <1>1, <1>2 DEF Types
<1>4. /\ pc[c] \in {"insn", "idle"} /\ lock = "free"
      /\ queued' = Put(queued, c, Least(queued[c] + 1, 2 * RegionSize))
      /\ UNCHANGED <<handler, count, squashes, translated, lock, running>>
  BY DEF RecordAccesses
<1>5. /\ accesses' \in [RegionCores -> SUBSET Recordable]
      /\ \A d \in RegionCores \ {c} : accesses'[d] = accesses[d]
      /\ \A o \in accesses'[c] : o \in accesses[c] \/ (o.live /\ Accesses(i, o))
      /\ pc'[c] # "handle" => accesses'[c] = accesses[c]
  <2>1. CASE i \in translated
    BY <1>1, <1>2, <2>1 DEF Types
  <2>2. CASE i \notin translated
    <3>1. PICK set \in Recorded(accesses[c], i) : accesses' = [accesses EXCEPT ![c] = set]
      BY <1>2, <2>2 DEF Put
    <3>2. accesses[c] \in SUBSET Recordable
      BY <1>1 DEF Types
    <3>3. /\ set \in SUBSET Recordable
          /\ \A o \in set : o \in accesses[c] \/ (o.live /\ Accesses(i, o))
      BY <1>3, <3>1, <3>2, RecordedFacts
    <3>4. pc'[c] = "handle"
      BY <1>1, <1>2, <2>2 DEF Types, Put
    <3>5. QED
      BY <1>1, <3>1, <3>3, <3>4 DEF Types
  <2>3. QED
    BY <2>1, <2>2
<1>6. /\ pc' \in [RegionCores -> Places] /\ pc'[c] \in {"commit", "handle"}
      /\ \A d \in RegionCores \ {c} : pc'[d] = pc[d]
      /\ back' \in [RegionCores -> {"done", "stop", "record"}]
  BY <1>1, <1>2 DEF Types, Put, Places
<1>7. queued' \in [RegionCores -> Nat]
  <2>1. \A a \in Nat : Least(a + 1, 2 * RegionSize) \in Nat
    BY RegionAssumption DEF Least
  <2>2. QED
    BY <1>1, <1>4, <2>1 DEF Types, Put
<1>8. Types'
  BY <1>1, <1>2, <1>3, <1>4, <1>5, <1>6, <1>7 DEF Types, Put
<1>9. CoreInv(c)'
  <2>1. CoreInv(c) /\ handler \in Handlers
    BY <1>1 DEF Types
  <2>2. Budget' = Budget
    BY <1>4 DEF Budget
  <2>3. squashes'[c] = 0 /\ count'[c] < RegionSize /\ lock' # c
    BY <1>4, <2>1, RegionAssumption DEF CoreInv
  <2>4. RegionStartsEmpty(c)'
    BY <1>4, <1>5, <1>6, <2>1 DEF CoreInv, RegionStartsEmpty
  <2>5. recent'[c] = recent[c] \cup {i}
    BY <1>1, <1>2 DEF Types, Put
  <2>6. AccessesOfRecent(c)'
    BY <1>5, <2>1, <2>5 DEF CoreInv, AccessesOfRecent
  <2>7. QED
    BY <1>6, <2>1, <2>2, <2>3, <2>4, <2>6, BudgetFacts DEF CoreInv
<1>10. ASSUME NEW d \in RegionCores \ {c} PROVE CoreInv(d)'
  <2>1. recent'[d] = recent[d]
    BY <1>1, <1>2 DEF Types, Put
  <2>2. QED
    BY <1>1, <1>4, <1>5, <1>6, <2>1, OthersKeep
<1>11. QED
  BY <1>8, <1>9, <1>10 DEF RegionInv

\* The next operand of a translated instruction.
LEMMA ChopStep ==
  ASSUME RegionInv, NEW c \in RegionCores, ChopAtOperand(c)
  PROVE  RegionInv'
<1>1. Types /\ \A d \in RegionCores : CoreInv(d)
  BY DEF RegionInv
<1>2. /\ pc[c] = "record" /\ lock = "free"
      /\ pc' = Put(pc, c, "handle") \/ pc' = Put(pc, c, "commit")
      /\ UNCHANGED <<handler, ins, accesses, count, squashes, recent, queued,
                     translated, lock, back, running>>
  BY DEF ChopAtOperand
<1>3. /\ pc' \in [RegionCores -> Places] /\ pc'[c] \in {"handle", "commit"}
      /\ \A d \in RegionCores \ {c} : pc'[d] = pc[d]
  BY <1>1, <1>2 DEF Types, Put, Places
<1>4. Types'
  BY <1>1, <1>2, <1>3 DEF Types
<1>5. CoreInv(c)'
  BY <1>1, <1>2, <1>3 DEF CoreInv, Budget, RegionStartsEmpty, AccessesOfRecent
<1>6. ASSUME NEW d \in RegionCores \ {c} PROVE CoreInv(d)'
  BY <1>1, <1>2, <1>3, OthersKeep
<1>7. QED
  BY <1>4, <1>5, <1>6 DEF RegionInv

\* An instruction is counted; at REGION_SIZE the region is full.
LEMMA HandleStep ==
  ASSUME RegionInv, NEW c \in RegionCores, NEW found \in BOOLEAN, NEW last \in BOOLEAN,
         HandleInstruction(c, found, last)
  PROVE  RegionInv'
<1>1. Types /\ \A d \in RegionCores : CoreInv(d)
  BY DEF RegionInv
<1>2. /\ pc[c] = "handle" /\ count' = [count EXCEPT ![c] = count[c] + 1]
      /\ UNCHANGED <<handler, operands, squashes, recent, queued, translated, lock, running>>
  BY DEF HandleInstruction, Put
<1>3. /\ CoreInv(c) /\ handler \in Handlers /\ count[c] \in 0..RegionSize
      /\ count[c] < RegionSize /\ RegionSize \in Nat
  BY <1>1, <1>2, RegionAssumption DEF Types, CoreInv
<1>4. /\ count' \in [RegionCores -> 0..RegionSize] /\ count'[c] = count[c] + 1
      /\ \A d \in RegionCores \ {c} : count'[d] = count[d]
  BY <1>1, <1>2, <1>3 DEF Types
<1>5. CASE RegionFull(count[c] + 1)
  <2>1. /\ pc' = [pc EXCEPT ![c] = "commit"]
        /\ back' = [back EXCEPT ![c] = IF found THEN "done" ELSE "stop"]
        /\ UNCHANGED <<ins, accesses>>
    BY <1>5 DEF HandleInstruction, Put
  <2>2. /\ pc' \in [RegionCores -> Places] /\ pc'[c] = "commit"
        /\ \A d \in RegionCores \ {c} : pc'[d] = pc[d]
    BY <1>1, <2>1 DEF Types, Places
  <2>3. back' \in [RegionCores -> {"done", "stop", "record"}]
    BY <1>1, <2>1 DEF Types
  <2>4. Types'
    BY <1>1, <1>2, <1>4, <2>1, <2>2, <2>3 DEF Types
  <2>5. CoreInv(c)'
    BY <1>2, <1>3, <1>4, <2>1, <2>2 DEF CoreInv, Budget, RegionStartsEmpty, AccessesOfRecent
  <2>6. ASSUME NEW d \in RegionCores \ {c} PROVE CoreInv(d)'
    BY <1>1, <1>2, <1>4, <2>1, <2>2, OthersKeep
  <2>7. QED
    BY <2>4, <2>5, <2>6 DEF RegionInv
<1>6. CASE ~RegionFull(count[c] + 1)
  <2>1. EndInstruction(c, found, last, accesses[c]) /\ UNCHANGED back
    BY <1>6 DEF HandleInstruction
  <2>2. accesses[c] \in SUBSET Recordable
    BY <1>1 DEF Types
  <2>3. /\ accesses' \in [RegionCores -> SUBSET Recordable]
        /\ accesses'[c] = {} <=> accesses[c] = {}
        /\ \A o \in accesses'[c] : \E p \in accesses[c] : o.addr = p.addr /\ o.dir = p.dir
        /\ \A d \in RegionCores \ {c} : accesses'[d] = accesses[d]
        /\ ins' \in [RegionCores -> Instrs \cup {NoInstr}]
        /\ pc' \in [RegionCores -> Places]
        /\ pc'[c] \in {"idle", "insn", "barrier"}
        /\ \A d \in RegionCores \ {c} :
              pc'[d] = pc[d] \/ (pc[d] = "barrier" /\ pc'[d] = "idle")
    BY <1>1, <2>1, <2>2, EndInstructionFacts
  <2>4. Types'
    BY <1>1, <1>2, <1>4, <2>1, <2>3 DEF Types
  <2>5. count'[c] < RegionSize
    BY <1>3, <1>4, <1>6 DEF RegionFull
  <2>6. CoreInv(c)'
    <3>1. AccessesOfRecent(c)'
      BY <1>2, <1>3, <2>3 DEF CoreInv, AccessesOfRecent, Accesses
    <3>2. RegionStartsEmpty(c)'
      BY <1>3, <1>4 DEF RegionStartsEmpty
    <3>3. QED
      BY <1>2, <1>3, <2>3, <2>5, <3>1, <3>2 DEF CoreInv, Budget
  <2>7. ASSUME NEW d \in RegionCores \ {c} PROVE CoreInv(d)'
    BY <1>1, <1>2, <1>4, <2>3, OthersKeep
  <2>8. QED
    BY <2>4, <2>6, <2>7 DEF RegionInv
<1>7. QED
  BY <1>5, <1>6

\* commit() takes the lock, which nobody has.
LEMMA CommitLockStep ==
  ASSUME RegionInv, NEW c \in RegionCores, CommitLock(c)
  PROVE  RegionInv'
<1>1. Types /\ \A d \in RegionCores : CoreInv(d)
  BY DEF RegionInv
<1>2. /\ pc[c] = "commit" /\ lock = "free" /\ lock' = c /\ pc' = [pc EXCEPT ![c] = "check"]
      /\ UNCHANGED <<handler, ins, operands, accesses, count, squashes, recent,
                     queued, translated, back, running>>
  BY DEF CommitLock, Put
<1>3. /\ pc' \in [RegionCores -> Places] /\ pc'[c] = "check"
      /\ \A d \in RegionCores \ {c} : pc'[d] = pc[d]
  BY <1>1, <1>2 DEF Types, Places
<1>4. Types'
  BY <1>1, <1>2, <1>3 DEF Types
<1>5. CoreInv(c)'
  BY <1>1, <1>2, <1>3 DEF CoreInv, Budget, RegionStartsEmpty, AccessesOfRecent
<1>6. ASSUME NEW d \in RegionCores \ {c} PROVE CoreInv(d)'
  BY <1>1, <1>2, <1>3, RegionAssumption, OthersKeep
<1>7. QED
  BY <1>4, <1>5, <1>6 DEF RegionInv

\* commit() releases the lock.
LEMMA CommitEndStep ==
  ASSUME RegionInv, NEW c \in RegionCores, CommitEnd(c)
  PROVE  RegionInv'
<1>1. Types /\ \A d \in RegionCores : CoreInv(d)
  BY DEF RegionInv
<1>2. /\ pc[c] = "check" /\ lock' = "free" /\ pc' = [pc EXCEPT ![c] = "reset"]
      /\ UNCHANGED <<handler, ins, operands, accesses, count, squashes, recent,
                     queued, translated, back, running>>
  BY DEF CommitEnd, Put
<1>3. /\ pc' \in [RegionCores -> Places] /\ pc'[c] = "reset"
      /\ \A d \in RegionCores \ {c} : pc'[d] = pc[d]
  BY <1>1, <1>2 DEF Types, Places
<1>4. Types'
  BY <1>1, <1>2, <1>3 DEF Types
<1>5. lock = c
  BY <1>1, <1>2 DEF CoreInv
<1>6. CoreInv(c)'
  BY <1>1, <1>2, <1>3, RegionAssumption
     DEF CoreInv, Budget, RegionStartsEmpty, AccessesOfRecent
<1>7. ASSUME NEW d \in RegionCores \ {c} PROVE CoreInv(d)'
  BY <1>1, <1>2, <1>3, <1>5, RegionAssumption, OthersKeep
<1>8. QED
  BY <1>4, <1>6, <1>7 DEF RegionInv

\* The region's end: nothing recorded, counted or retried is left of it.
LEMMA EndRegionStep ==
  ASSUME RegionInv, NEW c \in RegionCores, NEW last \in BOOLEAN, EndRegion(c, last)
  PROVE  RegionInv'
<1>1. Types /\ \A d \in RegionCores : CoreInv(d)
  BY DEF RegionInv
<1>2. /\ pc[c] = "reset" /\ lock = "free"
      /\ squashes' = [squashes EXCEPT ![c] = 0] /\ count' = [count EXCEPT ![c] = 0]
      /\ UNCHANGED <<handler, operands, translated, lock, back, running>>
  BY DEF EndRegion, Put
<1>3. /\ squashes' \in [RegionCores -> Nat] /\ squashes'[c] = 0
      /\ count' \in [RegionCores -> 0..RegionSize] /\ count'[c] = 0
      /\ \A d \in RegionCores \ {c} : squashes'[d] = squashes[d] /\ count'[d] = count[d]
  BY <1>1, <1>2, RegionAssumption DEF Types
<1>4. /\ accesses' \in [RegionCores -> SUBSET Recordable]
      /\ accesses'[c] = {}
      /\ \A d \in RegionCores \ {c} : accesses'[d] = accesses[d]
      /\ ins' \in [RegionCores -> Instrs \cup {NoInstr}]
      /\ recent' \in [RegionCores -> SUBSET Instrs]
      /\ \A d \in RegionCores \ {c} : recent'[d] = recent[d]
      /\ queued' \in [RegionCores -> Nat]
      /\ pc' \in [RegionCores -> Places]
      /\ pc'[c] \in {"record", "idle", "insn", "barrier"}
      /\ \A d \in RegionCores \ {c} :
            pc'[d] = pc[d] \/ (pc[d] = "barrier" /\ pc'[d] = "idle")
  <2>1. CASE back[c] = "record"
    <3>1. /\ accesses' = [accesses EXCEPT ![c] = {}] /\ pc' = [pc EXCEPT ![c] = "record"]
          /\ UNCHANGED <<ins, recent, queued>>
      BY <2>1 DEF EndRegion, Put, ResetMemMap
    <3>2. QED
      BY <1>1, <3>1 DEF Types, Places
  <2>2. CASE back[c] # "record"
    <3>1. /\ EndInstruction(c, back[c] = "done", last, {})
          /\ recent' = [recent EXCEPT ![c] = {}] /\ queued' = [queued EXCEPT ![c] = 0]
      BY <2>2 DEF EndRegion, Put, ResetMemMap
    <3>2. PICK found \in BOOLEAN : found = (back[c] = "done")
      OBVIOUS
    <3>3. EndInstruction(c, found, last, {}) /\ {} \in SUBSET Recordable
      BY <3>1, <3>2
    <3>4. /\ recent' \in [RegionCores -> SUBSET Instrs]
          /\ \A d \in RegionCores \ {c} : recent'[d] = recent[d]
          /\ queued' \in [RegionCores -> Nat]
      BY <1>1, <3>1 DEF Types
    <3>5. QED
      BY <1>1, <3>3, <3>4, EndInstructionFacts
  <2>3. QED
    BY <2>1, <2>2
<1>5. Types'
  BY <1>1, <1>2, <1>3, <1>4 DEF Types
<1>6. CoreInv(c)'
  <2>1. Budget' = Budget /\ Budget \in Nat /\ Budget >= 1
    BY <1>1, <1>2, BudgetFacts DEF Budget, Types
  <2>2. lock' # c
    BY <1>2, RegionAssumption
  <2>3. QED
    BY <1>3, <1>4, <2>1, <2>2, RegionAssumption
       DEF CoreInv, RegionStartsEmpty, AccessesOfRecent
<1>7. ASSUME NEW d \in RegionCores \ {c} PROVE CoreInv(d)'
  BY <1>1, <1>2, <1>3, <1>4, OthersKeep
<1>8. QED
  BY <1>5, <1>6, <1>7 DEF RegionInv

\* A core blocks, which may open the barrier.
LEMMA StallStep ==
  ASSUME RegionInv, NEW c \in RegionCores, Stall(c)
  PROVE  RegionInv'
<1>1. Types /\ \A d \in RegionCores : CoreInv(d)
  BY DEF RegionInv
<1>2. /\ running' = [running EXCEPT ![c] = FALSE] /\ pc' = Opened(pc, running')
      /\ UNCHANGED <<handler, ins, operands, accesses, count, squashes, recent,
                     queued, translated, lock, back>>
  BY DEF Stall, Put
<1>3. PICK run : run = running'
  OBVIOUS
<1>4. /\ Opened(pc, run) \in [RegionCores -> Places]
      /\ \A d \in RegionCores : \/ Opened(pc, run)[d] = pc[d]
                                \/ pc[d] = "barrier" /\ Opened(pc, run)[d] = "idle"
  BY <1>1, OpenedFacts DEF Types
<1>5. pc' = Opened(pc, run)
  BY <1>2, <1>3
<1>6. Types'
  BY <1>1, <1>2, <1>4, <1>5 DEF Types
<1>7. ASSUME NEW d \in RegionCores PROVE CoreInv(d)'
  BY <1>1, <1>2, <1>4, <1>5, OthersKeep
<1>8. QED
  BY <1>6, <1>7 DEF RegionInv
-----------------------------------------------------------------------------
\* A handler that retries with a conflict left has budget for another time:
\* the retries end where the handler begins to interpret or to chop.
LEMMA RetryFacts ==
  ASSUME Types, NEW c \in RegionCores, CoreInv(c), accesses[c] # {},
         ActionOf(c) = "retry"
  PROVE  squashes[c] + 1 < Budget
<1>1. /\ handler \in Handlers /\ squashes[c] \in Nat /\ queued[c] \in Nat
      /\ squashes[c] < Budget
      /\ RegionSize \in Nat \ {0} /\ MaxRetries \in Nat \ {0}
  BY RegionAssumption DEF Types, CoreInv
<1>2. CASE handler \in {"adaptive_interpret", "adaptive_chopper"}
  <2>1. ~(squashes[c] > 0 /\ squashes[c] % MaxRetries = 0)
    BY <1>2 DEF ActionOf, AdaptiveInterpret, AdaptiveChopper, Again
  <2>2. squashes[c] <= MaxRetries /\ Budget = MaxRetries + 1
    BY <1>1, <1>2, BudgetFacts
  <2>3. squashes[c] # MaxRetries
    <3>1. MaxRetries % MaxRetries = 0
      BY <1>1
    <3>2. QED
      BY <1>1, <2>1, <3>1
  <2>4. QED
    BY <1>1, <2>2, <2>3
<1>3. CASE handler \in {"interpret", "chopper"}
  BY <1>3 DEF ActionOf
<1>4. CASE handler = "mem_count"
  <2>1. squashes[c] < 5
    BY <1>1, <1>4 DEF ActionOf, MemCount
  <2>2. QED
    BY <1>1, <1>4, <2>1, BudgetFacts
<1>5. CASE handler = "probability"
  <2>1. ((queued[c] \div RegionSize) + (squashes[c] \div 5)) \div 2 = 0
    BY <1>1, <1>5 DEF ActionOf, Probability
  <2>2. queued[c] \div RegionSize \in Nat
    BY <1>1
  <2>3. squashes[c] < 10
    BY <1>1, <2>1, <2>2
  <2>4. QED
    BY <1>1, <1>5, <2>3, BudgetFacts
<1>6. QED
  BY <1>1, <1>2, <1>3, <1>4, <1>5, RegionAssumption

\* The squash loop goes round once: the handler retries within its budget,
\* or drops the accesses the conflict needs.
LEMMA SquashStep ==
  ASSUME RegionInv, NEW c \in RegionCores, Squash(c)
  PROVE  RegionInv'
<1>1. Types /\ \A d \in RegionCores : CoreInv(d)
  BY DEF RegionInv
<1>2. /\ pc[c] = "check" /\ accesses[c] # {} /\ Perform(c, ActionOf(c))
      /\ squashes' = [squashes EXCEPT ![c] = squashes[c] + 1]
      /\ UNCHANGED <<handler, pc, ins, operands, count, lock, back, running>>
  BY DEF Squash, ConflictPossible, Put
<1>3. /\ squashes' \in [RegionCores -> Nat] /\ squashes'[c] = squashes[c] + 1
      /\ \A d \in RegionCores \ {c} : squashes'[d] = squashes[d]
      /\ CoreInv(c) /\ handler \in Handlers /\ squashes[c] \in Nat
      /\ squashes[c] < Budget
  BY <1>1, <1>2 DEF Types, CoreInv
<1>4. Budget' = Budget /\ Budget \in Nat
  BY <1>2, <1>3, BudgetFacts DEF Budget
<1>5. /\ accesses' \in [RegionCores -> SUBSET Recordable]
      /\ accesses'[c] # {} => squashes[c] + 1 < Budget
      /\ accesses'[c] = {} \/ (accesses'[c] = accesses[c] /\ recent'[c] = recent[c])
      /\ \A d \in RegionCores \ {c} : accesses'[d] = accesses[d] /\ recent'[d] = recent[d]
      /\ translated' \subseteq Instrs
      /\ recent' \in [RegionCores -> SUBSET Instrs]
      /\ queued' \in [RegionCores -> Nat]
  <2>1. CASE ActionOf(c) = "retry" /\ RetryAction
    <3>1. squashes[c] + 1 < Budget
      BY <1>1, <1>2, <2>1, RetryFacts
    <3>2. QED
      BY <1>1, <2>1, <3>1 DEF RetryAction, Types
  <2>2. CASE InterpretAction(c)
    BY <1>1, <2>2 DEF InterpretAction, Types, Put
  <2>3. CASE ChopperAction(c)
    BY <1>1, <2>3 DEF ChopperAction, Types, Put
  <2>4. QED
    BY <1>2, <2>1, <2>2, <2>3 DEF Perform
<1>6. Types'
  BY <1>1, <1>2, <1>3, <1>5 DEF Types
<1>7. CoreInv(c)'
  <2>1. count'[c] = count[c] /\ count[c] # 0
    BY <1>2, <1>3 DEF CoreInv, RegionStartsEmpty
  <2>2. RegionStartsEmpty(c)' /\ AccessesOfRecent(c)'
    BY <1>3, <1>5, <2>1 DEF CoreInv, RegionStartsEmpty, AccessesOfRecent
  <2>3. QED
    BY <1>2, <1>3, <1>4, <1>5, <2>2 DEF CoreInv
<1>8. ASSUME NEW d \in RegionCores \ {c} PROVE CoreInv(d)'
  BY <1>1, <1>2, <1>3, <1>5, OthersKeep
<1>9. QED
  BY <1>6, <1>7, <1>8 DEF RegionInv
-----------------------------------------------------------------------------
\* Every step of every core keeps the invariant.
LEMMA RegionNext ==
  ASSUME RegionInv, [Next]_vars
  PROVE  RegionInv'
<1>1. CASE UNCHANGED vars
  BY <1>1 DEF vars, RegionInv, Types, CoreInv, Budget, RegionStartsEmpty, AccessesOfRecent
<1>2. ASSUME NEW c \in RegionCores, Step(c) PROVE RegionInv'
  BY <1>2, RecordStep, ChopStep, HandleStep, CommitLockStep, SquashStep,
     CommitEndStep, EndRegionStep DEF Step
<1>3. ASSUME NEW c \in RegionCores, Resume(c) PROVE RegionInv'
  BY <1>3 DEF Resume, Put, RegionInv, Types, CoreInv, Budget, RegionStartsEmpty,
              AccessesOfRecent
<1>4. QED
  BY <1>1, <1>2, <1>3, StallStep DEF Next

\* What a program starts with.
LEMMA RegionInit ==
  ASSUME Init
  PROVE  RegionInv
<1>1. Types
  BY RegionAssumption DEF Init, Types, Places
<1>2. ASSUME NEW c \in RegionCores PROVE CoreInv(c)
  BY <1>1, BudgetFacts, RegionAssumption
     DEF Init, CoreInv, Types, RegionStartsEmpty, AccessesOfRecent
<1>3. QED
  BY <1>1, <1>2 DEF RegionInv

\* The inductive invariant.
THEOREM RegionInvariant == Spec => []RegionInv
<1>1. QED
  BY RegionInit, RegionNext, PTL DEF Spec

\* Nothing of a region outlives it: when its first instruction is counted the
\* map holds accesses of that instruction only, all alive, and at any time only
\* accesses of the instructions that ChopperAction would translate.
THEOREM RegionsAreCorrect == Spec => []RegionsCorrect
<1>1. ASSUME RegionInv PROVE RegionsCorrect
  <2>1. Types
    BY <1>1 DEF RegionInv
  <2>2. ASSUME NEW c \in RegionCores, NEW o \in accesses[c]
        PROVE  o.value = 0 /\ o.dir \in {"read", "write"}
    <3>1. o \in Recordable
      BY <2>1 DEF Types
    <3>2. QED
      BY <3>1 DEF Recordable
  <2>3. TypeOK
    BY <2>1, <2>2 DEF Types, TypeOK, Places
  <2>4. QED
    BY <1>1, <2>3 DEF RegionInv, CoreInv, RegionsCorrect, RegionsSeparate
<1>2. QED
  BY <1>1, RegionInvariant, PTL

\* The squash loop of commit() ends: with every handler, the retries of a
\* region stay within the handler's budget.
THEOREM RetriesAreBounded == Spec => []RetriesBounded
<1>1. RegionInv => RetriesBounded
  BY DEF RegionInv, CoreInv, RetriesBounded
<1>2. QED
  BY <1>1, RegionInvariant, PTL

\* memMapsLock does its work: one core at a time is in the squash loop.
THEOREM CommitsAreExclusive == Spec => []CommitsExclusive
<1>1. RegionInv => CommitsExclusive
  BY DEF RegionInv, CoreInv, CommitsExclusive
<1>2. QED
  BY <1>1, RegionInvariant, PTL
=============================================================================
