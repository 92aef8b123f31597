---------------------------- MODULE TraceManager ----------------------------
(***************************************************************************)
(* The TraceManager starts the TraceThreads of one or more applications,   *)
(* counts them as they end, restarts applications that end before the      *)
(* others, and stops the simulation.  A thread ends at the end of its      *)
(* trace, when it is told to stop, or because another thread of its        *)
(* application called exit_group: its trace may then be blocked, so that   *)
(* it is counted as ended at once, and must not be counted again when it   *)
(* does end.                                                               *)
(*                                                                         *)
(* m_threads is appended to under m_lock but endApplication walks it       *)
(* without; the walk modelled is the one over storage that is not moved.   *)
(***************************************************************************)
EXTENDS Integers, Sequences, FiniteSets, SequencesExt

CONSTANTS TmApps,      \* applications
          MaxThreads,  \* TraceThreads created, over all runs
          Patience     \* seconds the monitor waits for a first connection

VARIABLES tm_policy,   \* [first: m_stop_with_first_app, restart: m_app_restart]
          tm_app,      \* app -> [num_threads, num_runs, run, exit]; ghosts: runs
                       \* begun, and those in which exit_group was called
          tm_nonfinish,\* m_num_apps_nonfinish
          tm_running,  \* m_num_threads_running
          tm_threads,  \* m_threads
          tm_started,  \* m_num_threads_started > 0
          tm_monitor,  \* [at, n]
          tm_done      \* signals of m_done

tmVars == <<tm_policy, tm_app, tm_nonfinish, tm_running, tm_threads, tm_started,
            tm_monitor, tm_done>>

(* A TraceThread: at is where its run() is; aborted is what it has read    *)
(* of its m_stop; pos is the position of its walk in endApplication.       *)
NewTraceThread(app, at, run) ==
  [app |-> app, run |-> run, at |-> at, stop |-> FALSE, stopped |-> FALSE,
   aborted |-> FALSE, pos |-> 0]

Threads == DOMAIN tm_threads
Move(t, at) == tm_threads' = [tm_threads EXCEPT ![t].at = at]

-----------------------------------------------------------------------------
(* Mutant: the first thread of a new run is added to the old count.        *)
FirstAdded(info) == [info EXCEPT !.num_threads = @ + 2, !.run = @ + 1]

(* newThread for the first thread of a run, and for a later one.           *)
FirstOf(info) == [info EXCEPT !.num_threads = 1, !.run = @ + 1]
LaterOf(info) == [info EXCEPT !.num_threads = @ + 1]

(* start: the monitor and the first thread of each application.            *)
Start ==
  /\ \E t \in Threads : tm_threads[t].at = "created"
  /\ tm_threads' = [t \in Threads |-> [tm_threads[t] EXCEPT !.at = "connect"]]
  /\ tm_monitor' = [at |-> "waiting", n |-> 0]
  /\ UNCHANGED <<tm_policy, tm_app, tm_nonfinish, tm_running, tm_started, tm_done>>

(* Monitor::run gives up, ending the simulator, when no thread has         *)
(* connected for a while.                                                  *)
MonitorStep ==
  /\ tm_monitor.at = "waiting"
  /\ tm_monitor' = IF tm_started THEN [at |-> "left", n |-> 0]
                   ELSE IF tm_monitor.n = Patience THEN [tm_monitor EXCEPT !.at = "gave up"]
                   ELSE [tm_monitor EXCEPT !.n = @ + 1]
  /\ UNCHANGED <<tm_policy, tm_app, tm_nonfinish, tm_running, tm_threads, tm_started, tm_done>>

(* The first instruction has arrived: signalStarted increments without     *)
(* the lock; of the count only whether it is zero matters.                 *)
SignalStarted(t) ==
  /\ tm_threads[t].at = "connect"
  /\ tm_started' = TRUE
  /\ Move(t, "run")
  /\ UNCHANGED <<tm_policy, tm_app, tm_nonfinish, tm_running, tm_monitor, tm_done>>

(* createThread, from a record of the trace.                               *)
CreateThread(t) ==
  /\ tm_threads[t].at = "run" /\ Len(tm_threads) < MaxThreads
  /\ LET app == tm_threads[t].app
     IN /\ tm_app' = [tm_app EXCEPT ![app] = LaterOf(@)]
        /\ tm_threads' = Append(tm_threads, NewTraceThread(app, "connect", tm_app[app].run))
  /\ tm_running' = tm_running + 1
  /\ UNCHANGED <<tm_policy, tm_nonfinish, tm_started, tm_monitor, tm_done>>

(* exit_group: the program calls it in one thread of the application.      *)
EndApplication(t) ==
  /\ tm_threads[t].at = "run"
  /\ LET app == tm_threads[t].app
         run == tm_threads[t].run
     IN run \notin tm_app[app].exit /\ tm_app' = [tm_app EXCEPT ![app].exit = @ \cup {run}]
  /\ tm_threads' = [tm_threads EXCEPT ![t].at = "walk", ![t].pos = 1]
  /\ UNCHANGED <<tm_policy, tm_nonfinish, tm_running, tm_started, tm_monitor, tm_done>>

(* Mutant: every end of an application counts, not only its first.         *)
FinishEach(app) ==
  LET info == tm_app[app]
      nonfinish == tm_nonfinish - 1
      stop == tm_policy.first \/ nonfinish = 0
  IN [info |-> [info EXCEPT !.num_threads = 0, !.num_runs = @ + 1],
      nonfinish |-> nonfinish, stop |-> stop, restart |-> ~stop /\ tm_policy.restart]

(* The effect of signalDone on the application of a thread that had not    *)
(* stopped, and what follows for the simulation.                           *)
Finish(app) ==
  LET info == tm_app[app]
      runs == info.num_runs + 1
      nonfinish == IF runs = 1 THEN tm_nonfinish - 1 ELSE tm_nonfinish
      stop == tm_policy.first \/ nonfinish = 0
  IN [info |-> [info EXCEPT !.num_threads = 0, !.num_runs = runs],
      nonfinish |-> nonfinish, stop |-> stop, restart |-> ~stop /\ tm_policy.restart]

(* Mutant: a thread that was counted in endApplication is counted again.   *)
AlreadyDoneNever(t) == FALSE
AlreadyDone(t) == tm_threads[t].stopped

(* signalDone for t, with after the threads as the caller changes them.    *)
SignalDone(t, aborted, after) ==
  IF AlreadyDone(t)
    THEN tm_threads' = after /\ UNCHANGED <<tm_app, tm_nonfinish, tm_running, tm_done>>
    ELSE LET app == tm_threads[t].app
             ended == [after EXCEPT ![t].stopped = TRUE]
             last == tm_app[app].num_threads = 1
         IN IF aborted \/ ~last
              THEN /\ tm_app' = [tm_app EXCEPT ![app].num_threads = @ - 1]
                   /\ tm_running' = tm_running - 1
                   /\ tm_threads' = ended
                   /\ UNCHANGED <<tm_nonfinish, tm_done>>
              ELSE LET f == Finish(app)
                   IN /\ f.restart => Len(tm_threads) < MaxThreads
                      /\ tm_app' = [tm_app EXCEPT ![app] =
                                      IF f.restart THEN FirstOf(f.info) ELSE f.info]
                      /\ tm_nonfinish' = f.nonfinish
                      /\ tm_done' = IF f.stop THEN tm_done + 1 ELSE tm_done
                      /\ tm_running' = IF f.restart THEN tm_running ELSE tm_running - 1
                      /\ tm_threads' =
                           IF f.stop
                             THEN [u \in DOMAIN ended |-> [ended[u] EXCEPT !.stop = TRUE]]
                             ELSE IF f.restart
                               THEN Append(ended, NewTraceThread(app, "connect",
                                                                 tm_app[app].run + 1))
                               ELSE ended

(* The walk of endApplication: the other threads of the application are    *)
(* asked to stop and counted as aborted.                                   *)
WalkStep(t) ==
  /\ tm_threads[t].at = "walk"
  /\ LET i == tm_threads[t].pos
     IN IF i > Len(tm_threads)
          THEN /\ tm_threads' = [tm_threads EXCEPT ![t].at = "run", ![t].pos = 0]
               /\ UNCHANGED <<tm_app, tm_nonfinish, tm_running, tm_done>>
          ELSE LET next == [tm_threads EXCEPT ![t].pos = @ + 1]
               IN IF i # t /\ tm_threads[i].app = tm_threads[t].app
                    THEN SignalDone(i, TRUE, [next EXCEPT ![i].stop = TRUE])
                    ELSE /\ tm_threads' = next
                         /\ UNCHANGED <<tm_app, tm_nonfinish, tm_running, tm_done>>
  /\ UNCHANGED <<tm_policy, tm_started, tm_monitor>>

(* The loop of run() ends with the trace, or because the thread is asked   *)
(* to stop; m_stop is read before signalDone takes the lock.               *)
RunEnds(t) ==
  /\ tm_threads[t].at = "run"
  /\ tm_threads' = [tm_threads EXCEPT ![t].at = "signal", ![t].aborted = tm_threads[t].stop]
  /\ UNCHANGED <<tm_policy, tm_app, tm_nonfinish, tm_running, tm_started, tm_monitor, tm_done>>
RunSignals(t) ==
  /\ tm_threads[t].at = "signal"
  /\ SignalDone(t, tm_threads[t].aborted,
                [tm_threads EXCEPT ![t].at = "gone", ![t].aborted = FALSE])
  /\ UNCHANGED <<tm_policy, tm_started, tm_monitor>>

-----------------------------------------------------------------------------
(* The constructor and init(): the first thread of each application.       *)
TmInit ==
  /\ tm_policy \in [first : BOOLEAN, restart : BOOLEAN]
  /\ tm_app = [a \in TmApps |-> [num_threads |-> 1, num_runs |-> 0, run |-> 1, exit |-> {}]]
  /\ tm_nonfinish = Cardinality(TmApps)
  /\ tm_running = Cardinality(TmApps)
  /\ LET apps == SetToSeq(TmApps)
     IN tm_threads = [i \in DOMAIN apps |-> NewTraceThread(apps[i], "created", 1)]
  /\ tm_started = FALSE /\ tm_monitor = [at |-> "created", n |-> 0] /\ tm_done = 0

TmNext ==
  /\ tm_monitor.at # "gave up"
  /\ \/ Start
     \/ MonitorStep
     \/ \E t \in Threads : \/ SignalStarted(t) \/ CreateThread(t)
                           \/ EndApplication(t) \/ WalkStep(t) \/ RunEnds(t)
                           \/ RunSignals(t)

-----------------------------------------------------------------------------
(* Variables have the types the C++ class gives them: counts do not go     *)
(* below zero.                                                             *)
TmTypeOK ==
  /\ \A a \in TmApps : tm_app[a].num_threads \in Nat /\ tm_app[a].num_runs \in Nat
  /\ tm_nonfinish \in Nat /\ tm_running \in Nat /\ tm_started \in BOOLEAN /\ tm_done \in Nat
  /\ Len(tm_threads) <= MaxThreads

(* The threads counted for an application are exactly those of its current *)
(* run that have not ended, whether they end by themselves, are aborted,   *)
(* or both at once; so is the total (TraceManager::signalDone, m_stopped). *)
CountsExact ==
  /\ \A a \in TmApps : tm_app[a].num_threads =
       Cardinality({t \in Threads : tm_threads[t].app = a /\ ~tm_threads[t].stopped})
  /\ tm_running = Cardinality({t \in Threads : ~tm_threads[t].stopped})
  /\ \A t \in Threads : tm_threads[t].run < tm_app[tm_threads[t].app].run
                        => tm_threads[t].stopped

(* The simulation is told to stop as soon as, and not before, the first or *)
(* all applications have ended once, however often others were restarted   *)
(* (TraceManager::signalDone, m_num_apps_nonfinish).                       *)
StopsInTime ==
  LET ended == {a \in TmApps : tm_app[a].num_runs > 0}
  IN tm_done > 0 <=> IF tm_policy.first THEN ended # {} ELSE ended = TmApps

(* An application all of whose threads have ended is counted as ended:     *)
(* exit_group by one thread leaves that thread to end the application      *)
(* (TraceManager::endApplication).                                         *)
EndsAreCounted ==
  tm_done = 0 => \A a \in TmApps : tm_app[a].num_threads = 0 => tm_app[a].num_runs >= tm_app[a].run

(* The manager of trace threads, whose threads end by themselves, by        *)
(* exit_group or by being stopped, and whose applications restart: its      *)
(* counts are those of the threads of the current run, it stops the         *)
(* simulation when the first or all applications have ended once and not    *)
(* before, and no end goes uncounted.                                       *)
ManagerCorrect == TmTypeOK /\ CountsExact /\ StopsInTime /\ EndsAreCounted
=============================================================================
