-------------------------------- MODULE Sift --------------------------------
(***************************************************************************)
(* A SIFT connection: the writer (Sift::Writer, in the instrumented        *)
(* program) sends a stream of records through a FIFO to the reader         *)
(* (Sift::Reader), from which a TraceThread of the simulator executes.     *)
(* What a record leaves out, the reader reconstructs from what it has seen *)
(* before: addresses of sequential instructions, code and page mappings.   *)
(* For some records the writer waits for an answer on a second FIFO, and   *)
(* while it waits the simulator may access the program's memory.           *)
(***************************************************************************)
EXTENDS Integers, Sequences, FiniteSets, SequencesExt

CONSTANTS Code,         \* address -> [size, branch, predicate, data (addresses)]
          CodePage,     \* ICACHE_SIZE
          VaPage,       \* PAGE_SIZE of the logical-to-physical mapping
          BufferSize,   \* records the output stream holds before it writes
          FifoSize,     \* records the FIFO holds
          MaxIns,       \* instructions written
          MaxQuestions,  \* records that ask for an answer
          MaxAccesses   \* memory accesses of one handler

VARIABLES w_variable,  \* m_requires_icache_per_insn
          w_map,       \* m_send_va2pa_mapping
          w_pc,        \* next instruction the program executes
          w_last,      \* last_address
          w_icache, w_va2pa,
          w_present,   \* pages of the program in physical memory
          w_buffer,    \* records written but not yet in the FIFO
          w_flush,     \* flush() has not returned
          w_wait,      \* kind of answer the writer waits for
          w_count,     \* instructions and requests so far
          sift_in,     \* FIFO from writer to reader
          sift_out,    \* FIFO from reader to writer
          sift_lost,   \* instructions written and not yet read, as recorded
          r_last, r_bytes, r_scache, r_sinst, r_vcache, r_end,
          r_at,        \* "read", or the kind of record whose handler runs
          r_access,    \* address whose contents the handler waits for, or -1
          r_accesses,
          r_error,     \* what went wrong, on either side
          t_inst,      \* the instruction to be simulated when its successor is known
          t_bbv,       \* the basic block being reconstructed
          t_sizes,     \* sum of the sizes of its instructions
          t_handled, t_counted

writerVars == <<w_variable, w_map, w_pc, w_last, w_icache, w_va2pa, w_present,
                w_buffer, w_flush, w_wait, w_count>>
readerVars == <<r_last, r_bytes, r_scache, r_sinst, r_vcache, r_end, r_at, r_access,
                r_accesses>>
traceVars == <<t_inst, t_bbv, t_sizes, t_handled, t_counted>>
siftVars == <<writerVars, sift_in, sift_out, sift_lost, readerVars, r_error, traceVars>>

Bytes(addr, size) == addr .. addr + size - 1
CodePageOf(byte) == byte \div CodePage
VaPageOf(addr) == addr \div VaPage
VaPages == {VaPageOf(a) : a \in DOMAIN Code \cup UNION {ToSet(Code[a].data) : a \in DOMAIN Code}}

(* Records that ask for an answer, and those during whose handler the      *)
(* writer also answers memory requests.                                    *)
Requests == {"syscall", "newthread", "join", "sync", "magic", "emu"}
ServesMemory == {"syscall", "magic", "emu"}
(* Handlers that access the program's memory (SyscallMdl, magic strings).  *)
AccessesMemory == {"syscall", "magic"}

NoInst == [addr |-> -1, size |-> 0, branch |-> FALSE, predicate |-> FALSE,
           data |-> <<>>, mapped |-> {}]
NoBlock == [base |-> 0, count |-> 0, last |-> 0, end |-> FALSE]

-----------------------------------------------------------------------------
(* Mutant: only the page an instruction starts in is sent.                 *)
IcacheFirstPage(addr) ==
  IF w_variable
    THEN IF addr \in w_icache THEN <<>>
         ELSE <<[type |-> "code", bytes |-> Bytes(addr, Code[addr].size)]>>
    ELSE IF CodePageOf(addr) \in w_icache THEN <<>>
         ELSE <<[type |-> "code", bytes |-> Bytes(CodePageOf(addr) * CodePage, CodePage)]>>

(* The code records that go before an instruction: each page once, or each *)
(* instruction once.                                                       *)
IcacheRecords(addr) ==
  LET size == Code[addr].size
  IN IF w_variable
       THEN IF addr \in w_icache THEN <<>>
            ELSE <<[type |-> "code", bytes |-> Bytes(addr, size)]>>
       ELSE LET first == CodePageOf(addr)
                last == CodePageOf(addr + size - 1)
                new == SelectSeq([i \in 1 .. last - first + 1 |-> first + i - 1],
                                 LAMBDA p : p \notin w_icache)
            IN [i \in DOMAIN new |->
                  [type |-> "code", bytes |-> Bytes(new[i] * CodePage, CodePage)]]

IcacheSent(addr) ==
  IF w_variable THEN {addr}
  ELSE {CodePageOf(b) : b \in Bytes(addr, Code[addr].size)}

(* send_va2pa: pages not sent before; those not in memory are tried again  *)
(* the next time.                                                          *)
NewMappings(addresses) ==
  IF w_map THEN ({VaPageOf(addresses[i]) : i \in DOMAIN addresses} \cap w_present) \ w_va2pa
  ELSE {}
MapRecords(addresses) ==
  LET pages == SetToSeq(NewMappings(addresses))
  IN [i \in DOMAIN pages |-> [type |-> "map", page |-> pages[i]]]

(* Mutant: predicated instructions also go without one.                    *)
SimpleAlways(addr) == addr = w_last

(* The sequential instruction that is not predicated needs no address.     *)
Simple(addr) == addr = w_last /\ ~Code[addr].predicate

InstructionRecord(addr) ==
  LET i == Code[addr]
  IN IF Simple(addr)
       THEN [type |-> "simple", size |-> i.size, branch |-> i.branch, data |-> i.data]
       ELSE [type |-> "ext", addr |-> addr, size |-> i.size, branch |-> i.branch,
             predicate |-> i.predicate, data |-> i.data]

(* Writer::Instruction.  The program goes on after it, or after a branch   *)
(* anywhere; pages of data may have come into memory before.               *)
WriteInstruction(next) ==
  /\ w_wait = "none" /\ ~w_flush /\ w_count.ins < MaxIns
  /\ Len(w_buffer) <= BufferSize
  /\ Code[w_pc].branch \/ next = w_pc + Code[w_pc].size
  /\ LET addr == w_pc
         addresses == <<addr>> \o Code[addr].data
         sent == w_va2pa \cup NewMappings(addresses)
     IN /\ w_buffer' = w_buffer \o IcacheRecords(addr) \o MapRecords(addresses)
                         \o <<InstructionRecord(addr)>>
        /\ w_icache' = w_icache \cup IcacheSent(addr)
        /\ w_va2pa' = sent
        /\ w_last' = addr + Code[addr].size
        /\ sift_lost' = Append(sift_lost,
             [addr |-> addr, size |-> Code[addr].size, branch |-> Code[addr].branch,
              predicate |-> Code[addr].predicate, data |-> Code[addr].data,
              mapped |-> {VaPageOf(addresses[i]) : i \in DOMAIN addresses} \cap sent])
        /\ w_present' = w_present \cup {VaPageOf(addresses[i]) : i \in DOMAIN addresses}
  /\ w_pc' = next
  /\ w_count' = [w_count EXCEPT !.ins = @ + 1]
  /\ UNCHANGED <<w_variable, w_map, w_flush, w_wait, sift_in, sift_out, readerVars,
                 r_error, traceVars>>

(* Output, RoutineChange, RoutineAnnounce: nothing comes back.             *)
WriteNote ==
  /\ w_wait = "none" /\ ~w_flush /\ Len(w_buffer) <= BufferSize
  /\ w_count.requests < MaxQuestions
  /\ w_buffer' = Append(w_buffer, [type |-> "note"])
  /\ w_count' = [w_count EXCEPT !.requests = @ + 1]
  /\ UNCHANGED <<w_variable, w_map, w_pc, w_last, w_icache, w_va2pa, w_present, w_flush,
                 w_wait, sift_in, sift_out, sift_lost, readerVars, r_error, traceVars>>

(* Mutant: the request stays in the buffer of the stream.                  *)
SendUnflushed(kind, before) ==
  w_buffer' = w_buffer \o before \o <<[type |-> kind]>> /\ w_flush' = FALSE

(* A record is written, after others, and flushed.                         *)
Send(kind, before) ==
  w_buffer' = w_buffer \o before \o <<[type |-> kind]>> /\ w_flush' = TRUE

(* The record is flushed and the writer waits.                             *)
Request(kind, before) ==
  /\ w_wait = "none" /\ ~w_flush /\ w_count.requests < MaxQuestions
  /\ Send(kind, before)
  /\ w_wait' = kind
  /\ w_count' = [w_count EXCEPT !.requests = @ + 1]
  /\ UNCHANGED <<w_variable, w_map, w_pc, w_last, w_icache,
                 sift_in, sift_out, sift_lost, readerVars, r_error, traceVars>>

(* The page of the data of a futex or write call is touched and sent.      *)
Syscall(addr) ==
  /\ Request("syscall", MapRecords(<<addr>>))
  /\ w_present' = w_present \cup {VaPageOf(addr)}
  /\ w_va2pa' = w_va2pa \cup NewMappings(<<addr>>)
NewThread == Request("newthread", <<>>) /\ UNCHANGED <<w_present, w_va2pa>>
Join      == Request("join", <<>>) /\ UNCHANGED <<w_present, w_va2pa>>
Sync      == Request("sync", <<>>) /\ UNCHANGED <<w_present, w_va2pa>>
Magic     == Request("magic", <<>>) /\ UNCHANGED <<w_present, w_va2pa>>
Emulate   == Request("emu", <<>>) /\ UNCHANGED <<w_present, w_va2pa>>

(* Writer::End closes both streams.                                        *)
WriteEnd ==
  /\ w_wait = "none" /\ ~w_flush
  /\ Send("end", <<>>)
  /\ w_wait' = "ended"
  /\ UNCHANGED <<w_variable, w_map, w_pc, w_last, w_icache, w_va2pa, w_present, w_count,
                 sift_in, sift_out, sift_lost, readerVars, r_error, traceVars>>

(* The stream writes its buffer when it is flushed, or full.               *)
Transmit ==
  /\ w_flush \/ Len(w_buffer) > BufferSize
  /\ w_buffer # <<>> /\ Len(sift_in) < FifoSize
  /\ sift_in' = Append(sift_in, Head(w_buffer))
  /\ w_buffer' = Tail(w_buffer)
  /\ w_flush' = (w_flush /\ Tail(w_buffer) # <<>>)
  /\ UNCHANGED <<w_variable, w_map, w_pc, w_last, w_icache, w_va2pa, w_present, w_wait,
                 w_count, sift_out, sift_lost, readerVars, r_error, traceVars>>

Waiting == w_wait \in Requests /\ ~w_flush /\ sift_out # <<>>

(* While it waits the writer serves memory requests.                       *)
HandleMemoryRequest ==
  /\ Waiting /\ Head(sift_out).type = "access" /\ w_wait \in ServesMemory
  /\ sift_out' = Tail(sift_out)
  /\ w_buffer' = Append(w_buffer, [type |-> "contents", addr |-> Head(sift_out).addr])
  /\ w_flush' = TRUE
  /\ UNCHANGED <<w_variable, w_map, w_pc, w_last, w_icache, w_va2pa, w_present, w_wait,
                 w_count, sift_in, sift_lost, r_error, readerVars, traceVars>>

(* Any other record must be the answer awaited.                            *)
TakeResponse ==
  /\ Waiting /\ ~(Head(sift_out).type = "access" /\ w_wait \in ServesMemory)
  /\ sift_out' = Tail(sift_out)
  /\ w_wait' = "none"
  /\ r_error' = IF Head(sift_out).type = w_wait THEN r_error ELSE "answer"
  /\ UNCHANGED <<w_variable, w_map, w_pc, w_last, w_icache, w_va2pa, w_present, w_buffer,
                 w_flush, w_count, sift_in, sift_lost, readerVars, traceVars>>

-----------------------------------------------------------------------------
(* decodeInstruction copies the instruction out of the code received.      *)
DecodeOk(addr, size) == Bytes(addr, size) \subseteq r_bytes

(* getStaticInstruction: the instruction that followed the last one the    *)
(* previous time, or the one cached, or a new one.  scache maps an address *)
(* to the size and the address of the successor.                           *)
StaticInstruction(addr, size) ==
  LET predicted == r_sinst # -1 /\ r_scache[r_sinst].next = addr
      cached == predicted \/ addr \in DOMAIN r_scache
      known == IF cached THEN r_scache
               ELSE [a \in DOMAIN r_scache \cup {addr} |->
                       IF a = addr THEN [size |-> size, next |-> -1] ELSE r_scache[a]]
  IN /\ r_scache' = IF r_sinst # -1 /\ known[r_sinst].next = -1
                      THEN [known EXCEPT ![r_sinst].next = addr] ELSE known
     /\ r_sinst' = addr
     /\ r_error' = CASE ~cached /\ ~DecodeOk(addr, size) -> "code"
                     [] cached /\ known[addr].size # size -> "size"
                     [] OTHER -> r_error

(* Mutant: an explicit address does not move the reader's position.        *)
NextLastStays(rec) == r_last + rec.size
(* The position after an instruction, with its address or without.         *)
NextLast(rec) == IF rec.type = "ext" THEN rec.addr + rec.size ELSE r_last + rec.size

(* What Read returns for the record of an instruction.                     *)
Decoded(rec) ==
  [addr |-> IF rec.type = "ext" THEN rec.addr ELSE r_last,
   size |-> rec.size, branch |-> rec.branch,
   predicate |-> IF rec.type = "ext" THEN rec.predicate ELSE FALSE,
   data |-> rec.data]
Recorded(inst) ==
  [addr |-> inst.addr, size |-> inst.size, branch |-> inst.branch,
   predicate |-> inst.predicate, data |-> inst.data]

(* Mutant: a branch that is not taken does not end the block.              *)
StartsAfterJump(inst) == t_bbv.last # inst.addr

(* TraceThread::run simulates the previous instruction now that its        *)
(* successor is known, after counting it into its basic block.             *)
StartsBlock(inst) == t_bbv.end \/ t_bbv.last # inst.addr

Simulate(inst) ==
  LET starts == StartsBlock(inst)
  IN /\ t_counted' = IF starts THEN t_counted + t_bbv.count ELSE t_counted
     /\ t_bbv' = [base |-> IF starts THEN inst.addr ELSE t_bbv.base,
                  count |-> IF starts THEN 1 ELSE t_bbv.count + 1,
                  last |-> inst.addr + inst.size,
                  end |-> inst.branch]
     /\ t_sizes' = IF starts THEN inst.size ELSE t_sizes + inst.size
     /\ t_handled' = t_handled + 1

(* Reader::Read up to the next instruction: records of code and mappings   *)
(* are remembered, others handled.                                         *)
ReadInstruction ==
  /\ r_at = "read" /\ ~r_end /\ sift_in # <<>>
  /\ Head(sift_in).type \in {"simple", "ext"}
  /\ LET rec == Head(sift_in)
         inst == Decoded(rec)
         was == Head(sift_lost)
     IN /\ r_last' = NextLast(rec)
        /\ IF inst = Recorded(was) /\ was.mapped \subseteq r_vcache
             THEN StaticInstruction(inst.addr, inst.size)
             ELSE r_error' = "instruction" /\ UNCHANGED <<r_scache, r_sinst>>
        /\ t_inst' = was
        /\ IF t_inst = NoInst
             THEN UNCHANGED <<t_bbv, t_sizes, t_handled, t_counted>>
             ELSE Simulate(t_inst)
        /\ sift_lost' = Tail(sift_lost)
  /\ sift_in' = Tail(sift_in)
  /\ UNCHANGED <<writerVars, sift_out, r_bytes, r_vcache, r_end, r_at, r_access, r_accesses>>

ReadOther ==
  /\ r_at = "read" /\ ~r_end /\ sift_in # <<>>
  /\ Head(sift_in).type \notin {"simple", "ext"}
  /\ LET rec == Head(sift_in)
     IN /\ r_bytes' = IF rec.type = "code" THEN r_bytes \cup rec.bytes ELSE r_bytes
        /\ r_vcache' = IF rec.type = "map" THEN r_vcache \cup {rec.page} ELSE r_vcache
        /\ r_end' = (rec.type = "end")
        /\ r_at' = IF rec.type \in Requests THEN rec.type ELSE "read"
        /\ r_accesses' = 0
  /\ sift_in' = Tail(sift_in)
  /\ UNCHANGED <<writerVars, sift_out, sift_lost, r_last, r_scache, r_sinst, r_access,
                 r_error, traceVars>>

(* Reader::AccessMemory in a handler: the request goes out and the next    *)
(* record must be the contents.                                            *)
AccessMemory(addr) ==
  /\ r_at \in AccessesMemory /\ r_access = -1 /\ r_accesses < MaxAccesses
  /\ sift_out' = Append(sift_out, [type |-> "access", addr |-> addr])
  /\ r_access' = addr
  /\ r_accesses' = r_accesses + 1
  /\ UNCHANGED <<writerVars, sift_in, sift_lost, r_last, r_bytes, r_scache, r_sinst, r_vcache,
                 r_end, r_at, r_error, traceVars>>

MemoryResponse ==
  /\ r_access # -1 /\ sift_in # <<>>
  /\ LET rec == Head(sift_in)
     IN r_error' = IF rec.type # "contents" THEN "contents"
                   ELSE IF rec.addr # r_access THEN "contents" ELSE r_error
  /\ sift_in' = Tail(sift_in)
  /\ r_access' = -1
  /\ UNCHANGED <<writerVars, sift_out, sift_lost, r_last, r_bytes, r_scache, r_sinst, r_vcache,
                 r_end, r_at, r_accesses, traceVars>>

(* Mutant: a join is answered like the creation of a thread.               *)
ResponseTypeOld(kind) == IF kind = "join" THEN "newthread" ELSE kind
ResponseType(kind) == kind

(* The handler returns and its answer is sent.                             *)
SendResponse ==
  /\ r_at \in Requests /\ r_access = -1
  /\ sift_out' = Append(sift_out, [type |-> ResponseType(r_at), addr |-> 0])
  /\ r_at' = "read"
  /\ UNCHANGED <<writerVars, sift_in, sift_lost, r_last, r_bytes, r_scache, r_sinst, r_vcache,
                 r_end, r_access, r_accesses, r_error, traceVars>>

-----------------------------------------------------------------------------
SiftInit ==
  /\ w_variable \in BOOLEAN /\ w_map \in BOOLEAN
  /\ w_pc \in DOMAIN Code /\ w_last = 0
  /\ w_icache = {} /\ w_va2pa = {}
  /\ w_present = {VaPageOf(a) : a \in DOMAIN Code}
  /\ w_buffer = <<>> /\ w_flush = FALSE /\ w_wait = "none"
  /\ w_count = [ins |-> 0, requests |-> 0]
  /\ sift_in = <<>> /\ sift_out = <<>> /\ sift_lost = <<>>
  /\ r_last = 0 /\ r_bytes = {} /\ r_scache = <<>> /\ r_sinst = -1 /\ r_vcache = {}
  /\ r_end = FALSE /\ r_at = "read" /\ r_access = -1 /\ r_accesses = 0
  /\ r_error = "none"
  /\ t_inst = NoInst /\ t_bbv = NoBlock /\ t_sizes = 0 /\ t_handled = 0 /\ t_counted = 0

SiftNext ==
  \/ \E next \in DOMAIN Code : WriteInstruction(next)
  \/ WriteNote
  \/ \E addr \in {0, VaPage} : Syscall(addr)
  \/ NewThread \/ Join \/ Sync \/ Magic \/ Emulate
  \/ WriteEnd
  \/ Transmit
  \/ HandleMemoryRequest
  \/ TakeResponse
  \/ ReadInstruction
  \/ ReadOther
  \/ \E addr \in {0, VaPage} : AccessMemory(addr)
  \/ MemoryResponse
  \/ SendResponse

-----------------------------------------------------------------------------
(* Variables have the types the C++ classes give them.                     *)
SiftTypeOK ==
  /\ w_wait \in Requests \cup {"none", "ended"}
  /\ w_va2pa \subseteq w_present /\ w_present \subseteq VaPages
  /\ Len(sift_in) <= FifoSize /\ Len(sift_out) <= 1
  /\ r_at \in Requests \cup {"read"}
  /\ r_access \in {-1} \cup Nat
  /\ DOMAIN r_scache \subseteq DOMAIN Code
  /\ t_bbv.count \in Nat /\ t_counted \in Nat

(* The reader returns every instruction exactly as it was recorded -       *)
(* address, size, predication, data addresses - with its code and with     *)
(* the mappings that were sent, although most records carry no address,    *)
(* and code and mappings are sent only once (Reader::Read,                 *)
(* getStaticInstruction, decodeInstruction).                               *)
ReadsWhatWasWritten == r_error \notin {"instruction", "code", "size"}

(* Whatever the order in which requests and memory accesses of handlers    *)
(* cross on the two FIFOs, each side gets the record it asserts it gets    *)
(* (Writer::Syscall and its siblings, Reader::AccessMemory).               *)
AnswersMatch == r_error \notin {"answer", "contents"}

(* Writer and reader never wait for each other: when the reader waits for  *)
(* a record, the writer can send one, take an answer, or has all it wrote  *)
(* on its way (flush in Writer::Syscall and its siblings).                 *)
NotBothWaiting ==
  sift_in = <<>> /\ ~r_end /\ (r_at = "read" \/ r_access # -1)
    => \/ w_wait = "none"
       \/ sift_out # <<>>
       \/ w_flush /\ w_buffer # <<>>

(* The instructions counted are the ones simulated, except for the block   *)
(* still open, and a block is as long as its instructions: it holds no     *)
(* jump (TraceThread::run).                                                *)
BlocksContiguous ==
  /\ t_counted + t_bbv.count = t_handled
  /\ t_sizes = t_bbv.last - t_bbv.base
  /\ t_bbv.count > 0 => \A a \in DOMAIN Code :
       a >= t_bbv.base /\ a + Code[a].size < t_bbv.last => ~Code[a].branch

(* A SIFT stream and its answers: the reader returns every instruction as   *)
(* it was recorded, each side gets the record it asserts it gets, writer    *)
(* and reader never wait for each other, and a basic block holds no jump.   *)
TraceCorrect ==
    SiftTypeOK /\ ReadsWhatWasWritten /\ AnswersMatch /\ NotBothWaiting /\ BlocksContiguous
=============================================================================
