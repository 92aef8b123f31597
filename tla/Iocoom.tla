------------------------------- MODULE Iocoom -------------------------------
(***************************************************************************)
(* IOCOOMPerformanceModel: an in-order core with out-of-order memory.  A   *)
(* scoreboard says when each register is ready, a load unit holds a        *)
(* bounded number of loads, and a store buffer lets stores complete behind *)
(* the core and forwards their values to loads.                            *)
(*                                                                         *)
(* An instruction is [fetch, cost, reads, writes, load, store, lat, hit]:  *)
(* its fetch latency and own cost, the registers it reads and writes, the  *)
(* addresses it loads and stores (NoAddress for none) and what the memory  *)
(* hierarchy answered.  That getCost is called twice is a matter of the    *)
(* queue of dynamic information (PerfQueue).                               *)
(***************************************************************************)
EXTENDS Integers, Sequences, FiniteSets, FiniteSetsExt

CONSTANTS IoInsns,       \* the instructions programs are made of
          IoRegisters,
          LoadUnits,     \* num_outstanding_loads
          StoreEntries,  \* num_store_buffer_entries
          MaxIoInsns     \* bound: instructions executed

VARIABLES io_time,       \* m_elapsed_time
          io_reg,        \* m_register_scoreboard
          io_unit,       \* LoadUnit::m_scoreboard
          io_store,      \* StoreBuffer: m_scoreboard and m_addresses
          io_loads,      \* ghost: when loads occupied the load unit
          io_pending,    \* ghost: the latest store to each address: when it is in memory
          io_missed,     \* ghost: loads that went to memory before a store to the same address
          io_done,       \* ghost: completion of the instructions that write nothing
          io_count

ioVars == <<io_time, io_reg, io_unit, io_store, io_loads, io_pending, io_missed, io_done, io_count>>

NoAddress   == "none"    \* also what the store buffer holds before its first store
Later(a, b) == IF a > b THEN a ELSE b
Addresses   == {i.load : i \in IoInsns} \union {i.store : i \in IoInsns}

(* The first entry that is free at time t; if there is none, the one that is free first. *)
Unit(board, t) ==
    LET free  == {i \in DOMAIN board : board[i] <= t}
        first == {i \in DOMAIN board : \A j \in DOMAIN board : board[i] <= board[j]}
    IN  Min(IF free # {} THEN free ELSE first)
-----------------------------------------------------------------------------
(* Mutant: a load that had to wait for the unit is not added to what the unit does. *)
LoadExecuteLost(board, t, occupancy) ==
    LET u == Unit(board, t)
    IN  [start |-> Later(t, board[u]), board |-> [board EXCEPT ![u] = t + occupancy]]

(* LoadUnit::execute *)
LoadExecute(board, t, occupancy) ==
    LET u     == Unit(board, t)
        start == Later(t, board[u])
    IN  [start |-> start, board |-> [board EXCEPT ![u] = start + occupancy]]

(* StoreBuffer::isAddressAvailable *)
Status(t, addr) ==
    LET held == {i \in DOMAIN io_store : io_store[i].addr = addr}
    IN  IF held = {} THEN "NOT_FOUND"
        ELSE IF io_store[Min(held)].time >= t THEN "VALID" ELSE "COMPLETED"

(* executeLoad: from the store buffer, at once, or through the load unit. *)
ExecuteLoad(i, t) ==
    LET s == Status(t, i.load)
        u == LoadExecute(io_unit, t, i.lat)
    IN  IF i.load = NoAddress \/ s = "VALID" \/ (i.hit /\ s = "COMPLETED")
        THEN [ready |-> t, latency |-> 0, board |-> io_unit, unit |-> FALSE]
        ELSE [ready |-> u.start, latency |-> i.lat, board |-> u.board, unit |-> TRUE]

(* Mutant: a store that takes the place of one still under way does not hold up the core. *)
StoreAtOnce(t, occupancy, addr) ==
    LET held  == {i \in DOMAIN io_store : io_store[i].addr = addr}
        u     == Unit([i \in DOMAIN io_store |-> io_store[i].time], t)
        k     == IF held # {} THEN Min(held) ELSE u
    IN  [time |-> t, done |-> t + occupancy,
         buffer |-> [io_store EXCEPT ![k] = [time |-> t + occupancy, addr |-> addr]]]

(* StoreBuffer::executeStore: the entry of the address, or a free one, or the first to be free. *)
ExecuteStore(t, occupancy, addr) ==
    LET held  == {i \in DOMAIN io_store : io_store[i].addr = addr}
        u     == Unit([i \in DOMAIN io_store |-> io_store[i].time], t)
        k     == IF held # {} THEN Min(held) ELSE u
        start == IF held # {} THEN t ELSE Later(t, io_store[u].time)
    IN  [time |-> start, done |-> start + occupancy,
         buffer |-> [io_store EXCEPT ![k] = [time |-> start + occupancy, addr |-> addr]]]

(* Mutant: the core does not wait for what it writes. *)
WritesBehind(now, write) == now

(* The core moves on to the time its written operands are ready. *)
AfterWrites(now, write) == Later(now, write)

(* handleInstruction.  The assignment that should advance the time to the completion of the *)
(* instruction is made to the value getElapsedTime returns, and is lost.                    *)
HandleInstruction(i) ==
    LET now   == io_time + i.fetch
        read  == Max({now} \union {io_reg[r] : r \in i.reads})
        ld    == ExecuteLoad(i, read)
        end   == ld.ready + ld.latency + i.cost
        st    == ExecuteStore(end, i.lat, i.store)
        write == Max({now} \union {end : r \in i.writes}
                     \union IF i.store = NoAddress THEN {} ELSE {st.time})
    IN  /\ io_count < MaxIoInsns /\ io_count' = io_count + 1
        /\ io_unit' = ld.board
        /\ io_reg' = [r \in IoRegisters |-> IF r \in i.writes THEN end ELSE io_reg[r]]
        /\ io_store' = IF i.store = NoAddress THEN io_store ELSE st.buffer
        /\ io_time' = AfterWrites(now, write)
        /\ io_loads' = IF ld.unit THEN io_loads \union {<<io_count, ld.ready, ld.ready + i.lat>>} ELSE io_loads
        /\ io_pending' = IF i.store = NoAddress THEN io_pending ELSE [io_pending EXCEPT ![i.store] = st.done]
        /\ io_missed' = IF ld.unit /\ io_pending[i.load] > ld.ready THEN io_missed \union {i.load} ELSE io_missed
        /\ io_done' = IF i.writes = {} /\ i.store = NoAddress THEN Later(io_done, end) ELSE io_done

IoInit ==
    /\ io_time = 0
    /\ io_reg = [r \in IoRegisters |-> 0]
    /\ io_unit = [u \in 1 .. LoadUnits |-> 0]
    /\ io_store = [u \in 1 .. StoreEntries |-> [time |-> 0, addr |-> NoAddress]]
    /\ io_loads = {} /\ io_pending = [a \in Addresses |-> 0] /\ io_missed = {} /\ io_done = 0
    /\ io_count = 0

IoNext == \E i \in IoInsns : HandleInstruction(i)
-----------------------------------------------------------------------------
(* Times are natural numbers and the store buffer holds addresses of the program. *)
IoTypeOK ==
    /\ io_time \in Nat /\ io_count \in 0 .. MaxIoInsns
    /\ \A r \in IoRegisters : io_reg[r] \in Nat
    /\ \A u \in DOMAIN io_unit : io_unit[u] \in Nat
    /\ \A u \in DOMAIN io_store : io_store[u].time \in Nat /\ io_store[u].addr \in Addresses \union {NoAddress}

(* No more loads are under way at any time than the load unit holds, although a load that writes *)
(* no register does not hold up the core and the next ones come to a unit that is full.           *)
LoadUnitBound ==
    \A l \in io_loads : Cardinality({k \in io_loads : k[2] <= l[2] /\ l[2] < k[3]}) <= LoadUnits

(* The core always waits for the operands it writes, so every register is ready by the time of  *)
(* the next instruction: the scoreboard never delays a reader.                                  *)
RegistersReady == \A r \in IoRegisters : io_reg[r] <= io_time

(* A load that starts before the latest store to its address is in memory takes the value from  *)
(* the store buffer: no store leaves the buffer while it is under way.                          *)
StoresForwarded == io_missed = {}

(* The comment before the assignment: "update cycle count with instruction cost".  The time is  *)
(* at or after the completion of every instruction, also of those that write nothing.           *)
CostTakesTime == io_done <= io_time

(* The in-order core with out-of-order memory: no more loads are under way  *)
(* than the load unit holds although loads nobody waits for do not hold up  *)
(* the core, every register is ready when the next instruction starts, and  *)
(* no load misses a store to its address that is still in the store buffer. *)
IocoomCorrect ==
    IoTypeOK /\ LoadUnitBound /\ RegistersReady /\ StoresForwarded
=============================================================================
