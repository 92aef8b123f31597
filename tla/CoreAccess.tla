----------------------------- MODULE CoreAccess -----------------------------
(***************************************************************************)
(* A core's accesses to memory: Core::initiateMemoryAccess splits them     *)
(* into cache lines, looks pages up in the TLBs, and passes dynamic        *)
(* instruction information to the performance model; instruction fetches   *)
(* skip the line that was fetched last.  And the counting of instructions  *)
(* of all cores for the periodic-instructions hook.                        *)
(*                                                                         *)
(* Addresses are bytes; a page has PageLines lines.  Wrap stands for 2^32: *)
(* the mask of instruction fetches is a UInt32.  Latencies are left out.   *)
(***************************************************************************)
EXTENDS Integers, Sequences, FiniteSets, SequencesExt

CONSTANTS LineSize, PageLines, AccAddresses, AccSizes, Wrap,
          TlbWays, StlbWays,    \* entries of the fully associative TLBs
          MaxInfos,             \* accesses with dynamic information
          HpiCores, HpiCounts,  \* counting cores; instructions in a block
          HpiCore, HpiGlobal,   \* hpi_ins_per_core, hpi_ins_global
          MaxCount

VARIABLES acc,           \* the access under way
          acc_lock,      \* m_mem_lock is held between LOCK and UNLOCK
          acc_saved,     \* m_dyninfo_save, or 0
          acc_infos,     \* dynamic information pushed, numbered in order
          acc_issued,    \* number of the last access that has information
          acc_last,      \* m_icache_last_block
          acc_fetched,   \* the last line the L1-I was accessed for
          tlb,           \* pages in "itlb", "dtlb", "stlb", newest first
          tlb_used,      \* pages looked up through each, newest first
          hpi_ins, hpi_next, hpi_last,   \* core -> counters of m_instructions
          hpi_at,                        \* core -> inside hookPeriodicInsCheck
          hpi_sum, hpi_due, hpi_calls    \* the global counters; hook calls

accVars == <<acc, acc_lock, acc_saved, acc_infos, acc_issued, acc_last,
             acc_fetched, tlb, tlb_used>>
hpiVars == <<hpi_ins, hpi_next, hpi_last, hpi_at, hpi_sum, hpi_due, hpi_calls>>

LineOf(a) == a - (a % LineSize)
PageOf(a) == a \div (LineSize * PageLines)
NoAccess == [at |-> "none", mem |-> "dtlb", signal |-> "none", addr |-> 0,
             size |-> 0, line |-> 0, info |-> 0, pieces |-> <<>>]

-----------------------------------------------------------------------------
(* TLB::lookup and allocate: a page that is not in the first level is      *)
(* brought in, whether the second level has it or not; the second level    *)
(* takes what the first one evicts, and is not filled by a lookup.         *)
Touch(pages, p) == <<p>> \o SelectSeq(pages, LAMBDA q : q # p)
FirstOf(pages, n) == SubSeq(pages, 1, IF Len(pages) < n THEN Len(pages) ELSE n)
Hit(pages, p) == \E i \in DOMAIN pages : pages[i] = p

(* Mutant: pages keep the place they were brought in at.                   *)
LookupFifo(name, p) ==
  IF Hit(tlb[name], p) THEN tlb
  ELSE [tlb EXCEPT ![name] = FirstOf(<<p>> \o @, TlbWays)]

Lookup(name, p) ==
  LET stlb == IF Hit(tlb.stlb, p) THEN Touch(tlb.stlb, p) ELSE tlb.stlb
      evicted == Len(tlb[name]) = TlbWays
      victim == Last(tlb[name])
  IN IF Hit(tlb[name], p) THEN [tlb EXCEPT ![name] = Touch(@, p)]
     ELSE [tlb EXCEPT ![name] = FirstOf(<<p>> \o @, TlbWays),
                      !.stlb = IF evicted THEN FirstOf(Touch(stlb, victim), StlbWays)
                                          ELSE stlb]

-----------------------------------------------------------------------------
(* initiateMemoryAccess.  Nothing is accessed for an empty access.  LOCK   *)
(* keeps m_mem_lock until the access with UNLOCK.                          *)
Begin(mem, signal, addr, size, info) ==
  /\ acc.at = "none"
  /\ signal = "unlock" <=> acc_lock
  /\ info => acc_issued < MaxInfos
  /\ LET n == IF info THEN acc_issued + 1 ELSE 0
     IN /\ acc_issued' = IF info THEN n ELSE acc_issued
        /\ IF size = 0
             THEN /\ acc_infos' = IF info THEN Append(acc_infos, n) ELSE acc_infos
                  /\ UNCHANGED <<acc, acc_lock>>
             ELSE /\ acc_lock' = TRUE
                  /\ acc' = [at |-> "line", mem |-> mem, signal |-> signal,
                             addr |-> addr, size |-> size, line |-> LineOf(addr),
                             info |-> n, pieces |-> <<>>]
                  /\ UNCHANGED acc_infos

(* accessMemory: a locked access is a pair on the same bytes.              *)
AccessMemory(signal, addr, size, info) ==
  /\ signal = "unlock" => addr = acc.addr /\ size = acc.size /\ (info <=> acc_saved # 0)
  /\ size = 0 => signal = "none"
  /\ Begin("dtlb", signal, addr, size, info)
  /\ UNCHANGED <<acc_saved, acc_last, acc_fetched, tlb, tlb_used, hpiVars>>

(* Mutant: an access that ends at the end of a line is one byte short.     *)
PieceShort(line, addr, end) ==
  LET offset == IF line = LineOf(addr) THEN addr - line ELSE 0
  IN [offset |-> offset,
      size |-> IF line = LineOf(end) THEN (end % LineSize) - offset
               ELSE LineSize - 1 - offset]

(* The part of an access that lies in a line.                              *)
Piece(line, addr, end) ==
  LET offset == IF line = LineOf(addr) THEN addr - line ELSE 0
  IN [offset |-> offset,
      size |-> IF line = LineOf(end) THEN (end % LineSize) - offset
               ELSE LineSize - offset]

(* One turn of the loop: coreInitiateMemoryAccess and accessTLB.           *)
AccessLine ==
  /\ acc.at = "line"
  /\ LET end == acc.addr + acc.size
         piece == Piece(acc.line, acc.addr, end)
         page == PageOf(acc.line)
     IN /\ IF piece.size = 0
             THEN UNCHANGED <<tlb, tlb_used, acc_fetched>>
             ELSE /\ tlb' = Lookup(acc.mem, page)
                  /\ tlb_used' = [tlb_used EXCEPT ![acc.mem] = Touch(@, page)]
                  /\ acc_fetched' = IF acc.mem = "itlb" THEN acc.line ELSE acc_fetched
        /\ acc' = [acc EXCEPT
             !.pieces = IF piece.size = 0 THEN @
                        ELSE Append(@, [line |-> acc.line, offset |-> piece.offset,
                                        size |-> piece.size]),
             !.line = @ + LineSize,
             !.at = IF acc.line = LineOf(end) THEN "end" ELSE "line"]
  /\ UNCHANGED <<acc_lock, acc_saved, acc_infos, acc_issued, acc_last, hpiVars>>

(* Mutant: the saved information is pushed after that of the access.       *)
PushedLate(info) ==
  acc_infos \o (IF info # 0 THEN <<info>> ELSE <<>>)
            \o (IF acc_saved # 0 /\ info # 0 THEN <<acc_saved>> ELSE <<>>)

(* Once the lock is released information that was saved is pushed.         *)
Pushed(info) ==
  acc_infos \o (IF acc_saved # 0 /\ info # 0 THEN <<acc_saved>> ELSE <<>>)
            \o (IF info # 0 THEN <<info>> ELSE <<>>)

(* The end of the access.  Information is never pushed with the lock held: *)
(* that of a LOCK access is saved.                                         *)
EndAccess ==
  /\ acc.at = "end"
  /\ acc_lock' = (acc.signal = "lock")
  /\ IF acc.signal = "lock"
       THEN acc_saved' = acc.info /\ UNCHANGED acc_infos
       ELSE /\ acc_infos' = Pushed(acc.info)
            /\ acc_saved' = IF acc.info # 0 THEN 0 ELSE acc_saved
  /\ acc' = IF acc.signal = "lock" THEN [acc EXCEPT !.at = "none"] ELSE NoAccess
  /\ UNCHANGED <<acc_issued, acc_last, acc_fetched, tlb, tlb_used, hpiVars>>

(* Mutant: a hit in the last line is decided by the instruction's start.   *)
SameLineStart(addr, size) == TRUE

SameLine(addr, size) == LineOf(addr) = LineOf(addr + size - 1)

(* readInstructionMemory.                                                  *)
ReadInstruction(address, size) ==
  LET addr == address % Wrap
      start == IF LineOf(addr) = acc_last THEN (LineOf(addr) + LineSize) % Wrap ELSE addr
  IN /\ ~acc_lock /\ size > 0
     /\ IF LineOf(addr) = acc_last /\ SameLine(addr, size)
          THEN UNCHANGED accVars
          ELSE /\ acc_last' = LineOf(start)
               /\ Begin("itlb", "none", LineOf(start), LineSize, FALSE)
               /\ UNCHANGED <<acc_saved, acc_fetched, tlb, tlb_used>>
     /\ UNCHANGED hpiVars

-----------------------------------------------------------------------------
(* countInstructions, hookPeriodicInsCheck: a core adds what it has        *)
(* counted to the global count and looks, without a lock, whether the hook *)
(* is due ...                                                              *)
CountInstructions(c, n) ==
  /\ hpi_at[c] = "out" /\ hpi_ins[c] + n <= MaxCount
  /\ hpi_ins' = [hpi_ins EXCEPT ![c] = @ + n]
  /\ IF hpi_ins[c] + n > hpi_next[c]
       THEN /\ hpi_sum' = hpi_sum + hpi_ins[c] + n - hpi_last[c]
            /\ hpi_next' = [hpi_next EXCEPT ![c] = @ + HpiCore]
            /\ hpi_last' = [hpi_last EXCEPT ![c] = hpi_ins[c] + n]
            /\ hpi_at' = [hpi_at EXCEPT ![c] = "check"]
       ELSE UNCHANGED <<hpi_sum, hpi_next, hpi_last, hpi_at>>
  /\ UNCHANGED <<hpi_due, hpi_calls, accVars>>

QuickCheck(c) ==
  /\ hpi_at[c] = "check"
  /\ hpi_at' = [hpi_at EXCEPT ![c] = IF hpi_sum > hpi_due THEN "call" ELSE "out"]
  /\ UNCHANGED <<hpi_ins, hpi_next, hpi_last, hpi_sum, hpi_due, hpi_calls, accVars>>

(* Mutant: the answer of the unlocked check is trusted.                    *)
DueTrusted == TRUE

(* The check under the thread lock.                                        *)
Due == hpi_sum > hpi_due

(* ... and again with the lock: hookPeriodicInsCall.                       *)
HookPeriodicInsCall(c) ==
  /\ hpi_at[c] = "call"
  /\ hpi_at' = [hpi_at EXCEPT ![c] = "out"]
  /\ hpi_calls' = IF Due THEN hpi_calls + 1 ELSE hpi_calls
  /\ hpi_due' = IF Due THEN hpi_due + HpiGlobal ELSE hpi_due
  /\ UNCHANGED <<hpi_ins, hpi_next, hpi_last, hpi_sum, accVars>>

AccInit ==
  /\ acc = NoAccess /\ acc_lock = FALSE /\ acc_saved = 0
  /\ acc_infos = <<>> /\ acc_issued = 0
  /\ acc_last = 0 - LineSize /\ acc_fetched = 0 - LineSize
  /\ tlb = [itlb |-> <<>>, dtlb |-> <<>>, stlb |-> <<>>]
  /\ tlb_used = [itlb |-> <<>>, dtlb |-> <<>>]
  /\ hpi_ins = [c \in HpiCores |-> 0] /\ hpi_next = [c \in HpiCores |-> 0]
  /\ hpi_last = [c \in HpiCores |-> 0] /\ hpi_at = [c \in HpiCores |-> "out"]
  /\ hpi_sum = 0 /\ hpi_due = 0 /\ hpi_calls = 0

(* The two parts share no state: they are looked at one at a time.         *)
AccNext ==
  \/ /\ hpi_sum = 0 /\ \A c \in HpiCores : hpi_ins[c] = 0
     /\ \/ \E s \in {"none", "lock", "unlock"}, a \in AccAddresses, n \in AccSizes,
              i \in BOOLEAN : AccessMemory(s, a, n, i)
        \/ AccessLine \/ EndAccess
        \/ \E a \in AccAddresses, n \in AccSizes : ReadInstruction(a, n)
  \/ /\ acc_issued = 0 /\ acc = NoAccess /\ tlb_used = [itlb |-> <<>>, dtlb |-> <<>>]
     /\ \E c \in HpiCores :
          \/ \E n \in HpiCounts : CountInstructions(c, n)
          \/ QuickCheck(c) \/ HookPeriodicInsCall(c)

-----------------------------------------------------------------------------
AccTypeOK ==
  /\ acc.at \in {"none", "line", "end"}
  /\ acc_lock \in BOOLEAN /\ acc_saved \in 0 .. MaxInfos
  /\ \A n \in DOMAIN tlb_used : Len(tlb[n]) <= TlbWays
  /\ Len(tlb.stlb) <= StlbWays

(* The pieces given to the caches are the bytes of the access, in order,   *)
(* each once, and no piece leaves its line.                                *)
PiecesExact ==
  LET start(i) == acc.pieces[i].line + acc.pieces[i].offset
  IN /\ \A i \in DOMAIN acc.pieces :
          /\ acc.pieces[i].offset + acc.pieces[i].size <= LineSize
          /\ start(i) = IF i = 1 THEN acc.addr ELSE start(i - 1) + acc.pieces[i - 1].size
     /\ acc.at = "end" =>
          acc.pieces # <<>> /\ start(Len(acc.pieces)) + Last(acc.pieces).size
                                 = acc.addr + acc.size

(* Dynamic information reaches the performance model in the order of the   *)
(* accesses and none is lost, although that of a locked access waits for   *)
(* the unlocking one: the model asserts that it belongs to its instruction.*)
InfosInOrder ==
  /\ \A i \in DOMAIN acc_infos : acc_infos[i] = i
  /\ acc.at = "none" /\ ~acc_lock => Len(acc_infos) = acc_issued

(* readInstructionMemory would not access the L1-I.                        *)
SkipsFetch(address, size) ==
  /\ acc = NoAccess /\ ~acc_lock /\ size > 0
  /\ LineOf(address % Wrap) = acc_last /\ SameLine(address % Wrap, size)

(* An instruction for which the L1-I is not accessed lies, to its last     *)
(* byte, in the line that was accessed last - as far as the 32 bits of the *)
(* mask tell lines apart: all of the address below 4 GB, and above only    *)
(* its low 32 bits, which are also those of the line that was accessed.    *)
FetchedLineKnown ==
  \A a \in AccAddresses, n \in AccSizes : SkipsFetch(a, n) =>
    LET line == LineOf(a + n - 1)
    IN IF a < Wrap THEN line = acc_fetched ELSE line % Wrap = acc_fetched

(* A first-level TLB holds the pages looked up most recently through it,   *)
(* whatever the other TLB and the shared second level do.                  *)
TlbHoldsLatest ==
  \A n \in DOMAIN tlb_used : tlb[n] = FirstOf(tlb_used[n], TlbWays)

(* The periodic hook is called at most once for every HpiGlobal            *)
(* instructions, although several cores may find it due at the same time.  *)
HookOncePerPeriod == hpi_calls > 0 => (hpi_calls - 1) * HpiGlobal < hpi_sum

(* A core's accesses: the pieces given to the caches are the bytes of the   *)
(* access, each once and within a line; infos reach the model in order and  *)
(* none is lost; a fetch is skipped only within what 32 bits of address say *)
(* is the line fetched last; a TLB holds the pages used most recently; the  *)
(* instruction hook is called at most once a period.                        *)
AccessCorrect ==
    AccTypeOK /\ PiecesExact /\ InfosInOrder /\ FetchedLineKnown /\ TlbHoldsLatest /\
    HookOncePerPeriod

(* "When accessing the same cache line as last time, don't access the L1-I" *)
(* (core.cc:220): refuted by code above 4 GB, because the mask of lines is  *)
(* a UInt32 (:212): two lines 4 GB apart are the same, and the L1-I is      *)
(* accessed at the truncated address.                                       *)
SkippedOnlyInSameLine ==
  \A a \in AccAddresses, n \in AccSizes :
    SkipsFetch(a, n) => LineOf(a + n - 1) = acc_fetched
=============================================================================
