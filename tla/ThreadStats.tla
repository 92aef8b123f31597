----------------------------- MODULE ThreadStats -----------------------------
(***************************************************************************)
(* Per-thread statistics: cores count instructions, threads move between   *)
(* cores, and a thread is given what its core did since the last snapshot. *)
(* Snapshots are taken lazily, by hooks when a thread starts, stalls,      *)
(* resumes and exits, by the scheduler when it moves a thread, and for all *)
(* threads before statistics are written or threads rescheduled.           *)
(*                                                                         *)
(* Which thread the scheduler moves where is left open; every registered   *)
(* statistic is handled like the instruction count.                        *)
(***************************************************************************)
EXTENDS Integers, FiniteSets, FiniteSetsExt

CONSTANTS TsThreads, TsCores,
          MaxTsIns,   \* instructions of a core
          MaxTsMoves  \* moves of threads

VARIABLES ts_state,   \* "new", "initializing", "running", "stalled", "exited"
          ts_core,    \* Thread::m_core, or NoCore
          ts_insn,    \* core -> its instruction count
          ts_stats,   \* m_threads_stats: thread -> [core, last, count, bycore]
          ts_moves,
          ts_ran      \* thread, core -> instructions it executed there

tsVars == <<ts_state, ts_core, ts_insn, ts_stats, ts_moves, ts_ran>>

NoCore == -1          \* INVALID_CORE_ID
NoStats == [core |-> NoCore, last |-> 0, count |-> 0, bycore |-> [c \in TsCores |-> 0]]

Exists(t) == ts_state[t] \notin {"new", "initializing"}
Free(c) == \A t \in TsThreads : ts_core[t] # c

-----------------------------------------------------------------------------
(* Mutant: the core is asked for its progress after the move.              *)
UpdatedFromNow(stats, now) ==
  IF now = NoCore THEN [stats EXCEPT !.core = NoCore]
  ELSE [stats EXCEPT !.count = @ + ts_insn[now] - stats.last,
                     !.bycore[now] = @ + ts_insn[now] - stats.last,
                     !.core = now, !.last = ts_insn[now]]

(* ThreadStats::update for a thread that is on core now: first the         *)
(* progress of the core of the last snapshot, then a new snapshot.         *)
Updated(stats, now) ==
  LET delta == ts_insn[stats.core] - stats.last
      added == IF stats.core = NoCore THEN stats
               ELSE [stats EXCEPT !.count = @ + delta, !.bycore[stats.core] = @ + delta]
  IN IF now = NoCore THEN [added EXCEPT !.core = NoCore]
     ELSE [added EXCEPT !.core = now, !.last = ts_insn[now]]

(* ThreadStatsManager::update for one thread.                              *)
Update(t, now) == ts_stats' = [ts_stats EXCEPT ![t] = Updated(@, now)]

(* createThread: the scheduler may give the thread a core at once.         *)
CreateThread(t, c) ==
  /\ ts_state[t] = "new" /\ (c = NoCore \/ Free(c))
  /\ ts_state' = [ts_state EXCEPT ![t] = "initializing"]
  /\ ts_core' = [ts_core EXCEPT ![t] = c]
  /\ UNCHANGED <<ts_insn, ts_stats, ts_moves, ts_ran>>

(* onThreadStart: the hook of the statistics runs before the scheduler's.  *)
ThreadStart(t) ==
  /\ ts_state[t] = "initializing"
  /\ ts_stats' = [ts_stats EXCEPT ![t] = Updated(NoStats, ts_core[t])]
  /\ ts_state' = [ts_state EXCEPT ![t] = IF ts_core[t] = NoCore THEN "stalled" ELSE "running"]
  /\ UNCHANGED <<ts_core, ts_insn, ts_moves, ts_ran>>

(* SchedulerDynamic::moveThread: the thread moves, then its statistics are *)
(* updated.  A thread that is starting up is not moved.                    *)
MoveThread(t, c) ==
  /\ ts_state[t] \in {"running", "stalled"} /\ ts_core[t] # c /\ (c = NoCore \/ Free(c))
  /\ ts_moves < MaxTsMoves /\ ts_moves' = ts_moves + 1
  /\ ts_core' = [ts_core EXCEPT ![t] = c]
  /\ Update(t, c)
  /\ UNCHANGED <<ts_state, ts_insn, ts_ran>>

(* stallThread and resumeThread, as far as the statistics are concerned.   *)
ThreadStall(t) ==
  /\ ts_state[t] = "running"
  /\ ts_state' = [ts_state EXCEPT ![t] = "stalled"]
  /\ Update(t, ts_core[t])
  /\ UNCHANGED <<ts_core, ts_insn, ts_moves, ts_ran>>

ThreadResume(t) ==
  /\ ts_state[t] = "stalled"
  /\ ts_state' = [ts_state EXCEPT ![t] = "running"]
  /\ Update(t, ts_core[t])
  /\ UNCHANGED <<ts_core, ts_insn, ts_moves, ts_ran>>

(* onThreadExit: the thread is off its core when the hook runs.            *)
ThreadExit(t) ==
  /\ ts_state[t] = "running" /\ ts_core[t] # NoCore
  /\ ts_state' = [ts_state EXCEPT ![t] = "exited"]
  /\ ts_core' = [ts_core EXCEPT ![t] = NoCore]
  /\ Update(t, NoCore)
  /\ UNCHANGED <<ts_insn, ts_moves, ts_ran>>

(* update() for all threads that have statistics, also the exited ones.    *)
UpdateAll ==
  /\ ts_stats' = [t \in TsThreads |-> IF Exists(t) THEN Updated(ts_stats[t], ts_core[t])
                                      ELSE ts_stats[t]]
  /\ UNCHANGED <<ts_state, ts_core, ts_insn, ts_moves, ts_ran>>

(* A running thread executes an instruction on its core.                   *)
Execute(t) ==
  LET c == ts_core[t]
  IN /\ ts_state[t] = "running" /\ c # NoCore /\ ts_insn[c] < MaxTsIns
     /\ ts_insn' = [ts_insn EXCEPT ![c] = @ + 1]
     /\ ts_ran' = [ts_ran EXCEPT ![t][c] = @ + 1]
     /\ UNCHANGED <<ts_state, ts_core, ts_stats, ts_moves>>

-----------------------------------------------------------------------------
TsInit ==
  /\ ts_state = [t \in TsThreads |-> "new"] /\ ts_core = [t \in TsThreads |-> NoCore]
  /\ ts_insn = [c \in TsCores |-> 0] /\ ts_stats = [t \in TsThreads |-> NoStats]
  /\ ts_moves = 0
  /\ ts_ran = [t \in TsThreads |-> [c \in TsCores |-> 0]]

TsNext ==
  \/ UpdateAll
  \/ \E t \in TsThreads :
       \/ \E c \in TsCores \cup {NoCore} : CreateThread(t, c) \/ MoveThread(t, c)
       \/ ThreadStart(t) \/ ThreadStall(t) \/ ThreadResume(t) \/ ThreadExit(t) \/ Execute(t)

-----------------------------------------------------------------------------
(* Variables have the types the C++ members give them.                     *)
TsTypeOK ==
  /\ \A t \in TsThreads : ts_core[t] \in TsCores \cup {NoCore}
  /\ ts_insn \in [TsCores -> 0 .. MaxTsIns]

(* What core c did since the last snapshot of thread t, if t was on it.    *)
Unaccounted(t, c) ==
  IF ts_stats[t].core = c THEN ts_insn[c] - ts_stats[t].last ELSE 0

(* A thread is given exactly the instructions it executed, on the core     *)
(* where it executed them, through migration, stalls, and the reuse of its *)
(* core by others after it left or exited: no statistic is lost or counted *)
(* for two threads (ThreadStats::update and the order of the hooks).       *)
OwnInstructions ==
  \A t \in TsThreads :
    LET own(c) == ts_stats[t].bycore[c]
    IN /\ \A c \in TsCores : own(c) + Unaccounted(t, c) = ts_ran[t][c]
       /\ ts_stats[t].count = MapThenSumSet(own, TsCores)

(* Every instruction is accounted once, to the thread that executed it.    *)
StatsCorrect == TsTypeOK /\ OwnInstructions
=============================================================================
