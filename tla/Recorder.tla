------------------------------ MODULE Recorder ------------------------------
(***************************************************************************)
(* The SIFT recorder: a Pin tool in the instrumented program that opens a  *)
(* writer per thread, records instructions while in the region of interest *)
(* (optionally in blocks of a fixed size, each with its basic-block        *)
(* vector), emulates clone and the clearing of the child's tid, and closes *)
(* the writers when the region or the threads end.  Several processes      *)
(* first claim an application number each.                                 *)
(*                                                                         *)
(* Pin holds its client lock in the callbacks for the start and the end of *)
(* a thread.  Program thread t is created by clone number t.               *)
(***************************************************************************)
EXTENDS Integers, Sequences, FiniteSets, SequencesExt

CONSTANTS RecThreads,  \* threads of the program, 0 is the main one
          RecConfigs,  \* [emulate, roi, fastforward, blocksize, detailed] records
          RecApps,     \* processes
          AppFifos,    \* number of applications the simulator has FIFOs for
          MaxSent      \* instructions of a thread

VARIABLES rec_cfg,
          rec_app,     \* process -> [id, next]: claimed number, next to try
          rec_claimed, \* .appid files
          rec_detail,  \* any_thread_in_detail
          rec_num,     \* num_threads
          rec_tidptrs, \* tidptrs
          rec_td,      \* thread_data
          rec_cleared, \* tids cleared, by clone
          rec_cloned,  \* clones so far
          rec_ended,   \* exit_group was sent
          rec_error    \* an output was used after it was closed

recVars == <<rec_cfg, rec_app, rec_claimed, rec_detail, rec_num, rec_tidptrs, rec_td,
             rec_cleared, rec_cloned, rec_ended, rec_error>>
appVars == <<rec_app, rec_claimed>>

(* A zeroed thread_data_t.  block is 0 without an output, else the number  *)
(* of its file (blocknum + 1); sent counts the instructions in the file.   *)
NoThread == [at |-> "unborn", num |-> -1, block |-> 0, blocks |-> 0, icount |-> 0,
             detailed |-> 0, sent |-> 0, bbv |-> 0, count |-> 0, tid |-> 0]

HasOutput(td) == td.block # 0

-----------------------------------------------------------------------------
(* Mutant: the file is looked for before it is created.                    *)
TryAppIdUnsafe(p) ==
  LET next == rec_app[p].next
  IN /\ rec_app[p].id = -1 /\ next < AppFifos
     /\ rec_app' = [rec_app EXCEPT ![p].id = next]
     /\ \/ rec_claimed' = rec_claimed \cup {next}
        \/ UNCHANGED rec_claimed

(* findMyAppId: the numbers are tried in order; creating the .appid file   *)
(* fails if it exists.                                                     *)
TryAppId(p) ==
  LET next == rec_app[p].next
  IN /\ rec_app[p].id = -1 /\ next < AppFifos
     /\ IF next \in rec_claimed
          THEN /\ rec_app' = [rec_app EXCEPT ![p].next = next + 1]
               /\ UNCHANGED rec_claimed
          ELSE /\ rec_app' = [rec_app EXCEPT ![p].id = next]
               /\ rec_claimed' = rec_claimed \cup {next}

FindMyAppId(p) ==
  /\ rec_td[0].at = "born"
  /\ TryAppId(p)
  /\ UNCHANGED <<rec_cfg, rec_detail, rec_num, rec_tidptrs, rec_td, rec_cleared, rec_cloned,
                 rec_ended, rec_error>>

-----------------------------------------------------------------------------
(* Mutant: the vector of a closed block goes into the next one.            *)
CloseFileKeeps(td) == [td EXCEPT !.block = 0, !.sent = 0, !.count = 0]

(* closeFile: with blocks, the open basic block is counted and the vector  *)
(* starts again.                                                           *)
CloseFile(td) ==
  IF rec_cfg.blocksize = 0 THEN [td EXCEPT !.block = 0, !.sent = 0]
  ELSE [td EXCEPT !.block = 0, !.sent = 0, !.bbv = 0, !.count = 0]

(* openFile closes the previous block first.                               *)
OpenFile(td) ==
  LET closed == IF HasOutput(td) THEN [CloseFile(td) EXCEPT !.blocks = @ + 1] ELSE td
  IN [closed EXCEPT !.block = closed.blocks + 1]

(* The basic-block vector of an instruction that starts a block or not.    *)
CountBlock(td, starts) ==
  IF starts THEN [td EXCEPT !.bbv = @ + td.count, !.count = 1]
  ELSE [td EXCEPT !.count = @ + 1]

(* sendInstruction: the instruction is written; the thread may be done, or *)
(* begin a new block.                                                      *)
SendInstruction(t, starts) ==
  /\ rec_td[t].at = "running" /\ HasOutput(rec_td[t]) /\ rec_detail
  /\ rec_td[t].detailed < MaxSent
  /\ LET one == [CountBlock(rec_td[t], starts) EXCEPT !.icount = @ + 1, !.detailed = @ + 1,
                                                     !.sent = @ + 1]
         target == rec_cfg.detailed # 0 /\ one.detailed >= rec_cfg.detailed
         full == rec_cfg.blocksize # 0 /\ one.icount >= rec_cfg.blocksize
     IN rec_td' = [rec_td EXCEPT ![t] =
                     IF target THEN CloseFile(one)
                     ELSE IF full THEN [OpenFile(one) EXCEPT !.icount = 0]
                     ELSE one]
  /\ UNCHANGED <<rec_cfg, appVars, rec_detail, rec_num, rec_tidptrs, rec_cleared, rec_cloned,
                 rec_ended, rec_error>>

(* countInsns, while no thread is in detail: enough instructions have been *)
(* skipped.                                                                *)
CountInsns(t) ==
  /\ rec_td[t].at = "running" /\ ~rec_detail
  /\ rec_td[t].icount < rec_cfg.fastforward
  /\ LET one == [rec_td[t] EXCEPT !.icount = @ + 1]
         done == one.icount >= rec_cfg.fastforward /\ ~rec_cfg.roi
     IN /\ rec_td' = [rec_td EXCEPT ![t] =
                        IF ~done THEN one
                        ELSE [(IF HasOutput(one) THEN one ELSE OpenFile(one)) EXCEPT !.icount = 0]]
        /\ rec_detail' = done
  /\ UNCHANGED <<rec_cfg, appVars, rec_num, rec_tidptrs, rec_cleared, rec_cloned, rec_ended,
                 rec_error>>

-----------------------------------------------------------------------------
(* Mutant: the pointer stays in the queue for the next thread as well.     *)
TakeTidPtrKeeps == rec_tidptrs
TakeTidPtr == Tail(rec_tidptrs)

(* emulateSyscallFunc for clone: the simulator creates the thread, and the *)
(* address of the child's tid is remembered for the thread that starts.    *)
Clone(t) ==
  LET child == rec_cloned + 1
  IN /\ rec_td[t].at = "running" /\ child \in RecThreads
     /\ rec_cloned' = child
     /\ rec_td' = [rec_td EXCEPT ![child].at = "born"]
     /\ rec_tidptrs' = IF rec_cfg.emulate /\ HasOutput(rec_td[t])
                         THEN Append(rec_tidptrs, child) ELSE rec_tidptrs
     /\ UNCHANGED <<rec_cfg, appVars, rec_detail, rec_num, rec_cleared, rec_ended, rec_error>>

(* threadStart: threads may start in another order than they were cloned.  *)
(* main() has found an application number before.                          *)
ThreadStart(t) ==
  /\ rec_td[t].at = "born"
  /\ \A p \in RecApps : rec_app[p].id # -1 \/ rec_app[p].next = AppFifos
  /\ LET numbered == [rec_td[t] EXCEPT !.at = "running", !.num = rec_num,
                        !.tid = IF rec_tidptrs # <<>> THEN Head(rec_tidptrs) ELSE 0]
     IN rec_td' = [rec_td EXCEPT ![t] =
                     IF t > 0 /\ (rec_detail \/ rec_cfg.emulate) THEN OpenFile(numbered)
                     ELSE numbered]
  /\ rec_tidptrs' = IF rec_tidptrs # <<>> THEN TakeTidPtr ELSE rec_tidptrs
  /\ rec_num' = rec_num + 1
  /\ UNCHANGED <<rec_cfg, appVars, rec_detail, rec_cleared, rec_cloned, rec_ended, rec_error>>

(* threadFinish: the main thread ends the application; the rest is done by *)
(* a thread of Pin.                                                        *)
ThreadFinish(t) ==
  /\ rec_td[t].at = "running"
  /\ rec_td' = [rec_td EXCEPT ![t].at = "finished"]
  /\ rec_ended' = (rec_ended \/ (rec_td[t].num = 0 /\ HasOutput(rec_td[t]) /\ rec_cfg.emulate))
  /\ UNCHANGED <<rec_cfg, appVars, rec_detail, rec_num, rec_tidptrs, rec_cleared, rec_cloned,
                 rec_error>>

(* threadFinishHelper: the child's tid is cleared, a joining thread woken  *)
(* through the output, whether there still is one or not.                  *)
ThreadFinishHelper(t) ==
  /\ rec_td[t].at = "finished"
  /\ rec_td' = [rec_td EXCEPT ![t] = [NoThread EXCEPT !.at = "gone"]]
  /\ rec_cleared' = IF rec_td[t].tid # 0 THEN Append(rec_cleared, rec_td[t].tid)
                    ELSE rec_cleared
  /\ rec_error' = (rec_error \/ (rec_td[t].tid # 0 /\ ~HasOutput(rec_td[t])))
  /\ UNCHANGED <<rec_cfg, appVars, rec_detail, rec_num, rec_tidptrs, rec_cloned, rec_ended>>

(* Magic instructions for the region of interest: beginROI and endROI.     *)
BeginROI(t) ==
  /\ rec_cfg.roi /\ rec_td[t].at = "running" /\ ~rec_detail
  /\ rec_detail' = TRUE
  /\ rec_td' = [u \in RecThreads |->
                  IF ~rec_cfg.emulate /\ rec_td[u].at = "running" /\ ~HasOutput(rec_td[u])
                    THEN OpenFile(rec_td[u]) ELSE rec_td[u]]
  /\ UNCHANGED <<rec_cfg, appVars, rec_num, rec_tidptrs, rec_cleared, rec_cloned, rec_ended,
                 rec_error>>

EndROI(t) ==
  /\ rec_cfg.roi /\ rec_td[t].at = "running" /\ rec_detail
  /\ rec_error' = (rec_error \/ (rec_cfg.emulate /\ ~HasOutput(rec_td[t])))
  /\ rec_ended' = (rec_ended \/ rec_cfg.emulate)
  /\ rec_detail' = FALSE
  /\ rec_td' = [u \in RecThreads |->
                  IF rec_td[u].at = "running" /\ HasOutput(rec_td[u])
                    THEN CloseFile(rec_td[u]) ELSE rec_td[u]]
  /\ UNCHANGED <<rec_cfg, appVars, rec_num, rec_tidptrs, rec_cleared, rec_cloned>>

-----------------------------------------------------------------------------
(* main(): the output of the main thread is opened before it starts.       *)
RecInit ==
  /\ rec_cfg \in RecConfigs
  /\ rec_app = [p \in RecApps |-> [id |-> -1, next |-> 0]] /\ rec_claimed = {}
  /\ rec_detail = (rec_cfg.fastforward = 0 /\ ~rec_cfg.roi)
  /\ rec_td = [t \in RecThreads |->
                 IF t # 0 THEN NoThread
                 ELSE [(IF rec_detail \/ rec_cfg.emulate THEN OpenFile(NoThread)
                        ELSE NoThread) EXCEPT !.at = "born"]]
  /\ rec_num = 0 /\ rec_tidptrs = <<>> /\ rec_cleared = <<>> /\ rec_cloned = 0
  /\ rec_ended = FALSE /\ rec_error = FALSE

RecNext ==
  \/ \E p \in RecApps : FindMyAppId(p)
  \/ \E t \in RecThreads : \/ \E starts \in BOOLEAN : SendInstruction(t, starts)
                           \/ CountInsns(t) \/ Clone(t) \/ ThreadStart(t)
                           \/ ThreadFinish(t) \/ ThreadFinishHelper(t)
                           \/ BeginROI(t) \/ EndROI(t)

-----------------------------------------------------------------------------
(* Variables have the types the C++ globals give them.                     *)
RecTypeOK ==
  /\ rec_detail \in BOOLEAN /\ rec_num \in 0 .. Cardinality(RecThreads)
  /\ rec_claimed \subseteq 0 .. AppFifos - 1
  /\ \A t \in RecThreads : rec_td[t].block \in Nat /\ rec_td[t].tid \in RecThreads
  /\ ToSet(rec_tidptrs) \subseteq RecThreads \ {0}

(* Processes that start together get different application numbers         *)
(* (findMyAppId).                                                          *)
AppIdsDistinct ==
  \A p, q \in RecApps : p # q /\ rec_app[p].id # -1 => rec_app[p].id # rec_app[q].id

(* The basic-block vector of a file accounts for exactly the instructions  *)
(* in the file, the block still open included, wherever the blocks of      *)
(* instructions are cut (sendInstruction, closeFile).                      *)
VectorMatchesFile ==
  \A t \in RecThreads : HasOutput(rec_td[t]) /\ rec_cfg.blocksize # 0
    => rec_td[t].bbv + rec_td[t].count = rec_td[t].sent

(* The tid of every cloned thread is cleared by exactly one thread: each   *)
(* is waiting, held by one thread, or cleared once (threadStart,           *)
(* threadFinishHelper).                                                    *)
TidsClearedOnce ==
  LET held == {t \in RecThreads : rec_td[t].tid # 0 /\ rec_td[t].at # "gone"}
  IN /\ IsInjective(rec_cleared) /\ IsInjective(rec_tidptrs)
     /\ \A t, u \in held : t # u => rec_td[t].tid # rec_td[u].tid
     /\ \A t \in held : rec_td[t].tid \notin ToSet(rec_cleared) \cup ToSet(rec_tidptrs)
     /\ ToSet(rec_cleared) \cap ToSet(rec_tidptrs) = {}

(* The recorder's threads: processes that start together take different     *)
(* application numbers, a file's basic-block vector accounts for exactly    *)
(* the instructions in it, and the tid of every cloned thread is cleared by *)
(* exactly one thread.                                                      *)
RecorderCorrect ==
    RecTypeOK /\ AppIdsDistinct /\ VectorMatchesFile /\ TidsClearedOnce
=============================================================================
