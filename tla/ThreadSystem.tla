---------------------------- MODULE ThreadSystem ----------------------------
(***************************************************************************)
(* Simulated threads on simulated cores: ThreadManager (creation, start,   *)
(* stall, resume, migration, join, exit), the dynamic schedulers (pinned   *)
(* and roaming, through SchedulerPinnedBase), and the clock-skew barrier   *)
(* (BarrierSyncServer).  The three call each other through hooks: a stall  *)
(* reschedules the core, a reschedule resumes another thread, the resume   *)
(* may reschedule another core, and the barrier's release runs the         *)
(* periodic hook that does all of it again.  All of this happens under     *)
(* m_thread_lock, so one action is one critical section; the state is one  *)
(* record `sys` that the operators below transform in the order in which   *)
(* the code calls them.                                                    *)
(*                                                                         *)
(* Time is counted in barrier quanta; the times of one quantum are not     *)
(* told apart, so the time at which a hook runs is sys.next - 1.           *)
(***************************************************************************)
EXTENDS Integers, SequencesExt

CONSTANTS
    Cores,          \* application cores, 0 .. n-1
    Threads,        \* thread ids, 0 .. m-1, created in this order
    Quantum,        \* m_quantum, in barrier quanta
    Interleaving,   \* scheduler/pinned/interleaving
    MaxTime,        \* bound: the barrier time does not pass it
    MaxSleep,       \* bound: longest sleep, in quanta
    FollowAborts,   \* bound: what follows an abort that leaves a stale clock
    MaxCalls        \* bound: sleeps, waits, pauses, yields, affinity changes and mode switches

ASSUME ThreadSystemAssumption ==
    /\ Cores # {} /\ Cores = 0 .. (Cardinality(Cores) - 1)
    /\ Threads # {} /\ Threads = 0 .. (Cardinality(Threads) - 1)
    /\ Cardinality(Cores) \in Nat /\ Cardinality(Threads) \in Nat
    /\ Quantum \in Nat /\ MaxTime \in Nat \ {0} /\ MaxSleep \in Nat /\ MaxCalls \in Nat
    /\ Interleaving \in 1 .. Cardinality(Cores) /\ FollowAborts \in BOOLEAN

NoCore == -1
NoThread == -1

VARIABLES
    sys,    \* the state of the three servers, one of Systems
    where,  \* what the host thread of a simulated thread is doing
    here,   \* the core a host thread believes it runs on, where it matters
    calls,  \* counts what MaxCalls bounds
    abandoned \* history: joiners signalled and not resumed

vars == <<sys, where, here, calls, abandoned>>

(* where[t]: "none" not created, "created" not yet started, "user" runs       *)
(* application code, "stalled" in Thread::wait, "startwait" in Thread::wait   *)
(* of waitForThreadStart, "barrier" in m_core_cond[here[t]].wait, "paused" in *)
(* a native pause(), "check" about to call Thread::reschedule, "exited".      *)
Places == {"none", "created", "user", "stalled", "startwait", "barrier",
           "paused", "check", "exited"}

Statuses == {"none", "INITIALIZING", "RUNNING", "STALLED", "IDLE"}
Reasons == {"none", "UNSCHEDULED", "JOIN", "SLEEP", "FUTEX", "PAUSE"}


(* The assertions of the code, and the two ways in which it runs for ever. *)
Assertions == {"core already runs a thread", "thread ends while not running", "core is not running",
               "core is already in the barrier", "reschedule recurses",
               "application deadlocked", "advance spins"}

(* ThreadManager: m_thread_state; Thread::m_core, Core::m_thread,             *)
(* Core::m_state.  SchedulerDynamic, SchedulerPinnedBase (ThreadInfo) and its *)
(* two subclasses.  BarrierSyncServer.  SyscallServer::m_sleeping; the        *)
(* threads signalled in this critical section, failed assertions, and whether *)
(* abortBarrier left a clock behind (AbortBarrier).                           *)
Systems ==
    [status : [Threads -> Statuses], reason : [Threads -> Reasons],
     waiter : [Threads -> Threads \union {NoThread}], core : [Threads -> Cores \union {NoCore}],
     cthread : [Cores -> Threads \union {NoThread}],
     cstate : [Cores -> {"IDLE", "INITIALIZING", "RUNNING"}],

     runnable : [Threads -> BOOLEAN], affinity : [Threads -> SUBSET Cores],
     coreRunning : [Threads -> Cores \union {NoCore}], lastScheduled : [Threads -> Nat],
     running : [Cores -> Threads \union {NoThread}], quantumLeft : [Cores -> 0 .. Quantum],
     lastPeriodic : Nat, policy : {"pinned", "roaming"}, nextCore : Cores,

     acquired : [Cores -> BOOLEAN], clock : [Cores -> Nat],
     slot : [Cores -> Threads \union {NoThread}], next : Nat \ {0},
     fastforward : BOOLEAN, disable : BOOLEAN,

     sleeping : Seq(Threads), wakeAt : [Threads -> Nat], signalled : SUBSET Threads,
     failed : SUBSET Assertions, aborted : BOOLEAN]

InitialSys(policy, mode) ==
    [status |-> [t \in Threads |-> "none"], reason |-> [t \in Threads |-> "none"],
     waiter |-> [t \in Threads |-> NoThread], core |-> [t \in Threads |-> NoCore],
     cthread |-> [c \in Cores |-> NoThread], cstate |-> [c \in Cores |-> "IDLE"],

     runnable |-> [t \in Threads |-> FALSE], affinity |-> [t \in Threads |-> {}],
     coreRunning |-> [t \in Threads |-> NoCore], lastScheduled |-> [t \in Threads |-> 0],
     running |-> [c \in Cores |-> NoThread], quantumLeft |-> [c \in Cores |-> 0],
     lastPeriodic |-> 0, policy |-> policy, nextCore |-> 0,

     acquired |-> [c \in Cores |-> FALSE], clock |-> [c \in Cores |-> 0],
     slot |-> [c \in Cores |-> NoThread], next |-> 1,
     fastforward |-> mode = "fastforward", disable |-> mode = "disabled",

     sleeping |-> <<>>, wakeAt |-> [t \in Threads |-> 0], signalled |-> {},
     failed |-> {}, aborted |-> FALSE]

Init ==
    /\ \E policy \in {"pinned", "roaming"}, mode \in {"detailed", "fastforward", "disabled"} :
         sys = InitialSys(policy, mode)
    /\ where = [t \in Threads |-> "none"]
    /\ here = [t \in Threads |-> NoCore]
    /\ calls = 0 /\ abandoned = {}

Now(s) == s.next - 1

(* An assertion of the code fails. *)
Fail(s, what) == [s EXCEPT !.failed = @ \union {what}]
AssertIn(s, ok, what) == IF ok THEN s ELSE Fail(s, what)

(* ThreadManager::anyThreadRunning *)
AnyThreadRunning(s) == \E t \in Threads : s.status[t] \in {"RUNNING", "INITIALIZING"}

(* Thread::setCore *)
SetCore(s, t, c) ==
    LET left == IF s.core[t] = NoCore THEN s ELSE [s EXCEPT !.cthread[s.core[t]] = NoThread]
        free == AssertIn(left, c = NoCore \/ left.cthread[c] = NoThread, "core already runs a thread")
        moved == [free EXCEPT !.core[t] = c]
    IN  IF c = NoCore THEN moved ELSE [moved EXCEPT !.cthread[c] = t]

(* Core::setState, for a core that may be none *)
SetState(s, c, state) == IF c = NoCore THEN s ELSE [s EXCEPT !.cstate[c] = state]

(* Bug: the clock of a migrated or stalled thread is not reset. *)
ReleaseNothing(s, t) == s

(* BarrierSyncServer::releaseThread *)
ReleaseThread(s, t) ==
    [s EXCEPT !.clock = [c \in Cores |-> IF s.acquired[c] /\ s.slot[c] = t THEN 0 ELSE @[c]]]

(* Thread::signal: noticed only by a host thread that is in Thread::wait. *)
SignalThread(s, t) == [s EXCEPT !.signalled = @ \union {t}]

(* SchedulerPinnedBase::findFreeCoreForThread *)
FreeCores(s, t) == {c \in s.affinity[t] : s.running[c] = NoThread}
FindFreeCoreForThread(s, t) ==
    IF FreeCores(s, t) = {} THEN NoCore
    ELSE CHOOSE c \in FreeCores(s, t) : \A d \in FreeCores(s, t) : c <= d

(* The threads reschedule() may put on core c, and its choice among them.     *)
Candidates(s, c) ==
    {t \in Threads : c \in s.affinity[t] /\ s.runnable[t] /\ s.coreRunning[t] \in {NoCore, c}}
LongestAgo(last, S) ==
    IF S = {} THEN NoThread
    ELSE CHOOSE t \in S : \A u \in S : last[t] < last[u] \/ (last[t] = last[u] /\ t <= u)

(* ThreadManager::moveThread calls resumeThread_async, whose hook calls       *)
(* reschedule, which calls moveThread: in the operators of this circle        *)
(* `resume` stands for resumeThread_async.  The barrier's migrate hook comes  *)
(* last.                                                                      *)
RunUnlessStalled(s, t, c) == IF s.status[t] = "STALLED" THEN s ELSE SetState(s, c, "RUNNING")
MoveThread(s, t, c, resume) ==
    LET old == s.core[t]
        idle == SetState(s, old, "IDLE")
        awake == IF old = NoCore /\ s.status[t] = "STALLED" /\ s.reason[t] = "UNSCHEDULED"
                 THEN resume[SignalThread(idle, t)][t] ELSE idle
        moved == IF c = NoCore THEN SetCore(idle, t, NoCore)
                 ELSE RunUnlessStalled(SetCore(awake, t, c), t, c)
    IN  ReleaseThread(moved, t)

(* Bugs: the thread that was on the core is not taken off it first; or its    *)
(* m_core_running is not cleared.                                             *)
RescheduleOnTop(s, c, resume) ==
    LET new == LongestAgo(s.lastScheduled, Candidates(s, c))
        taken == [s EXCEPT !.running[c] = new]
    IN  IF new \in {NoThread, s.running[c]} THEN s
        ELSE MoveThread([taken EXCEPT !.coreRunning[new] = c], new, c, resume)

(* The two moves of reschedule(): the thread on the core leaves it, the new   *)
(* one gets it.  The core is marked as taken before moveThread, whose         *)
(* HOOK_THREAD_RESUME looks for free cores.                                   *)
TakeOff(s, t, resume) ==
    IF t = NoThread THEN s
    ELSE MoveThread([s EXCEPT !.coreRunning[t] = NoCore, !.lastScheduled[t] = Now(s)],
                    t, NoCore, resume)
PutOn(s, c, t, resume) ==
    IF t = NoThread THEN [s EXCEPT !.running[c] = t]
    ELSE MoveThread([s EXCEPT !.running[c] = t, !.coreRunning[t] = c], t, c, resume)

(* SchedulerPinnedBase::reschedule *)
Reschedule(s, c, resume) ==
    LET now == s.running[c]
        ready == Candidates(s, c)
        last == IF now \in ready THEN [s.lastScheduled EXCEPT ![now] = Now(s)] ELSE s.lastScheduled
        new == LongestAgo(last, ready)
        aged == [s EXCEPT !.lastScheduled = last]
        done == IF new = now THEN aged ELSE PutOn(TakeOff(aged, now, resume), c, new, resume)
    IN  IF now # NoThread /\ s.status[now] = "INITIALIZING" THEN s
        ELSE [done EXCEPT !.quantumLeft[c] = Quantum]

(* ThreadManager::resumeThread_async with SchedulerPinnedBase::threadResume.  *)
(* Every nested reschedule fills a core: with n nested resumes to come, those *)
(* of Resumes[n], a resume that finds a free core although it has none to     *)
(* come would recurse without end.                                            *)
Up(s, t) == [s EXCEPT !.status[t] = "RUNNING", !.reason[t] = "none", !.wakeAt[t] = 0,
                      !.runnable[t] = TRUE]
NoMoreCores ==
    [s \in Systems |-> [t \in Threads |->
       IF FindFreeCoreForThread(Up(s, t), t) = NoCore THEN Up(s, t)
       ELSE Fail(Up(s, t), "reschedule recurses")]]
FillOne(resume) ==
    [s \in Systems |-> [t \in Threads |->
       LET free == FindFreeCoreForThread(Up(s, t), t)
       IN  IF free = NoCore THEN Up(s, t) ELSE Reschedule(Up(s, t), free, resume)]]
Resumes[n \in Nat] == IF n = 0 THEN NoMoreCores ELSE FillOne(Resumes[n - 1])

ResumeThread_async(s, t) == Resumes[Cardinality(Cores)][s][t]
RescheduleCore(s, c) == Reschedule(s, c, Resumes[Cardinality(Cores)])

(* The core of a thread that stalls or ends gets another one. *)
RescheduleCoreOf(s, t) ==
    IF s.coreRunning[t] = NoCore THEN s ELSE RescheduleCore(s, s.coreRunning[t])

(* ThreadManager::resumeThread *)
ResumeThread(s, t) == ResumeThread_async(SignalThread(s, t), t)

(* SchedulerPinnedBase::periodic for one core *)
PeriodicCore(s, c, delta) ==
    IF delta > s.quantumLeft[c] \/ s.running[c] = NoThread THEN RescheduleCore(s, c)
    ELSE [s EXCEPT !.quantumLeft[c] = @ - delta]

(* SyscallServer::futexPeriodic: of the sleeping threads whose time has come  *)
(* one a quantum is woken, the one that went to sleep first.                  *)
Sleepers(s) == ToSet(s.sleeping)
WakeSleeper(s, time) ==
    LET due == {i \in DOMAIN s.sleeping : s.wakeAt[s.sleeping[i]] <= time}
        first == CHOOSE i \in due : \A j \in due : i <= j
    IN  IF due = {} THEN s
        ELSE ResumeThread([s EXCEPT !.sleeping = RemoveAt(@, first)], s.sleeping[first])

(* HOOK_PERIODIC: the syscall server notifies before the scheduler acts, over *)
(* the cores in order.                                                        *)
Periodic(s, time) ==
    LET woken == WakeSleeper(s, time)
        upTo[n \in Nat] ==
          IF n = 0 THEN woken ELSE PeriodicCore(upTo[n - 1], n - 1, time - s.lastPeriodic)
    IN  [upTo[Cardinality(Cores)] EXCEPT !.lastPeriodic = time]

(* BarrierSyncServer::isCoreRunning *)
IsCoreRunning(s, c) ==
    s.cstate[c] = "RUNNING" /\ s.cthread[c] # NoThread /\ s.status[s.cthread[c]] = "RUNNING"

(* Bug: the barrier does not wait for the slower cores. *)
OneCoreReached(s) == \E c \in Cores : IsCoreRunning(s, c) /\ s.clock[c] >= s.next

(* BarrierSyncServer::isBarrierReached, in its two modes *)
IsBarrierReached(s) ==
    IF s.fastforward
    THEN /\ \E c \in Cores : s.acquired[c]
         /\ \A c \in Cores : s.acquired[c] \/ ~IsCoreRunning(s, c)
    ELSE /\ \E c \in Cores : IsCoreRunning(s, c)
         /\ \A c \in Cores : IsCoreRunning(s, c) => s.clock[c] >= s.next

(* The cores of S leave the barrier; their waiting threads are signalled.     *)
(* m_core_thread and a clock below the barrier time are not read again.       *)
LeaveBarrier(s, S, caller) ==
    [s EXCEPT !.acquired = [c \in Cores |-> @[c] /\ c \notin S],
              !.slot = [c \in Cores |-> IF c \in S THEN NoThread ELSE @[c]],
              !.signalled = @ \union ({s.slot[c] : c \in S} \ {caller})]

(* BarrierSyncServer::barrierRelease; answers the new state, whether the      *)
(* caller must wait, and whether the barrier's loop goes round again.         *)
(* AfterPeriodic is what follows HOOK_PERIODIC.                               *)
Answer(s, wait, again) == [s |-> s, wait |-> wait, again |-> again]

AfterPeriodic(s, caller, continue_until_release) ==
    LET q == [s EXCEPT !.next = @ + 1]
        freed == {c \in Cores : q.acquired[c] /\ q.clock[c] < q.next}
    IN  IF continue_until_release /\ AnyThreadRunning(s) THEN Answer(s, FALSE, FALSE)
        ELSE IF continue_until_release /\ Sleepers(s) = {}
             THEN Answer(Fail(s, "application deadlocked"), FALSE, FALSE)
        ELSE IF s.disable THEN Answer(s, FALSE, FALSE)
        ELSE IF freed = {} THEN Answer(q, TRUE, TRUE)
        ELSE Answer(LeaveBarrier([q EXCEPT !.clock = [c \in Cores |-> IF c \in freed THEN 0 ELSE @[c]]],
                                 freed, caller),
                    \A c \in freed : q.slot[c] # caller, FALSE)

NextRound(r, caller, continue_until_release) ==
    IF ~r.again THEN r
    ELSE IF r.s.next > MaxTime THEN Answer(r.s, TRUE, FALSE)
    ELSE AfterPeriodic(Periodic(r.s, r.s.next), caller, continue_until_release)

(* In fast-forward mode the barrier time is first raised to the latest clock. *)
Raised(s) ==
    LET times == {s.next} \union {s.clock[c] : c \in Cores}
    IN  [s EXCEPT !.next = CHOOSE m \in times : \A n \in times : m >= n]

BarrierRelease(s, caller, continue_until_release) ==
    LET rounds[n \in Nat] ==
          IF n = 0 THEN Answer(IF s.fastforward THEN Raised(s) ELSE s, TRUE, TRUE)
          ELSE NextRound(rounds[n - 1], caller, continue_until_release)
    IN  rounds[MaxTime + 1]

(* BarrierSyncServer::signal *)
Signal(s) ==
    IF ~s.disable /\ IsBarrierReached(s) THEN BarrierRelease(s, NoThread, FALSE).s ELSE s

(* ThreadManager::stallThread_async with the hooks of the scheduler, then of  *)
(* the barrier.                                                               *)
StallThread_async(s, t, reason) ==
    LET down == [s EXCEPT !.status[t] = "STALLED", !.reason[t] = reason]
        off == IF reason = "UNSCHEDULED" THEN down
               ELSE RescheduleCoreOf([down EXCEPT !.runnable[t] = FALSE], t)
    IN  Signal(ReleaseThread(off, t))

(* The loop of ThreadManager::stallThread: while nobody runs, the barrier     *)
(* advances time.  Only a disabled barrier comes back without having woken    *)
(* anybody, and it will never do so: time does not advance.                   *)
Advances(s) == ~AnyThreadRunning(s) /\ s.failed = {} /\ s.next <= MaxTime
AdvanceLoop(s) ==
    LET r == BarrierRelease(s, NoThread, TRUE).s
    IN  IF ~Advances(s) THEN s
        ELSE IF Advances(r) THEN Fail(r, "advance spins") ELSE r

StallThread(s, t, reason) == AdvanceLoop(StallThread_async(s, t, reason))

------------------------------------------------------------------------------
(* End of a critical section: what thread t does next, and the host threads   *)
(* that were signalled leave their waits.  A thread signalled while it still  *)
(* holds the lock (t itself) loses the signal.  A failed assertion ends it.   *)
Commit(s, t, next, core) ==
    /\ sys.failed = {} /\ (sys.aborted => FollowAborts)
    /\ s.next <= MaxTime
    /\ sys' = [s EXCEPT !.signalled = {}]
    /\ where' = [u \in Threads |->
                   IF u = t THEN next
                   ELSE IF u \in s.signalled /\ where[u] \in {"stalled", "startwait", "barrier"}
                   THEN "check" ELSE where[u]]
    /\ here' = [u \in Threads |->
                  IF where'[u] \notin {"user", "barrier"} THEN NoCore
                  ELSE IF u = t THEN core ELSE here[u]]
    /\ abandoned' = abandoned \union {u \in s.signalled : s.status[u] = "STALLED" /\ s.reason[u] = "JOIN"}

NoCall == calls' = calls
CountCall == calls < MaxCalls /\ calls' = calls + 1

(* After stallThread: back at once if a hook resumed the thread meanwhile. *)
AfterStall(s, t) == IF s.status[t] = "RUNNING" THEN "check" ELSE "stalled"
StallIn(s, t, reason) ==
    \E r \in {StallThread(s, t, reason)} : Commit(r, t, AfterStall(r, t), here[t])

(* SchedulerPinned::getNextCore and the two threadSetInitialAffinity; every   *)
(* core is in the mask.                                                       *)
GetNextCore(c) ==
    LET n == Cardinality(Cores)
        d == c + Interleaving
    IN  IF d >= n THEN ((d % n) + 1) % Interleaving ELSE d
InitialAffinity(s) == IF s.policy = "pinned" THEN {s.nextCore} ELSE Cores

(* ThreadManager::createThread_unlocked with SchedulerPinnedBase::threadCreate *)
CreateThread(s, t) ==
    LET set == [s EXCEPT !.status[t] = "INITIALIZING", !.affinity[t] = InitialAffinity(s),
                         !.nextCore = IF s.policy = "pinned" THEN GetNextCore(@) ELSE @]
        c == FindFreeCoreForThread(set, t)
    IN  IF c = NoCore THEN set
        ELSE SetState(SetCore([set EXCEPT !.coreRunning[t] = c, !.running[c] = t,
                                          !.quantumLeft[c] = Quantum], t, c), c, "INITIALIZING")

(* The main thread is created by the front end, others by a running thread.   *)
NextThread(t) == where[t] = "none" /\ \A u \in Threads : where[u] = "none" => t <= u

Spawn(t) ==
    /\ NextThread(t)
    /\ t > 0 => \E u \in Threads : where[u] = "user"
    /\ Commit(CreateThread(sys, t), t, "created", NoCore)
    /\ NoCall

(* ThreadManager::onThreadStart, with SchedulerPinnedBase::threadStart.  A    *)
(* thread that waits in waitForThreadStart is signalled, not resumed.         *)
RunOrStall(s, t) ==
    IF s.core[t] # NoCore
    THEN ReleaseThread(SetState([s EXCEPT !.status[t] = "RUNNING"], s.core[t], "RUNNING"), t)
    ELSE [s EXCEPT !.status[t] = "STALLED", !.reason[t] = "UNSCHEDULED"]
TellWaiter(s, t) ==
    IF s.waiter[t] = NoThread THEN s
    ELSE [SignalThread(s, s.waiter[t]) EXCEPT !.waiter[t] = NoThread]
Start(t) ==
    LET up == [sys EXCEPT !.status[t] = "RUNNING", !.runnable[t] = TRUE]
        free == FindFreeCoreForThread(up, t)
        put == IF free = NoCore THEN up ELSE RescheduleCore(up, free)
    IN  /\ where[t] = "created"
        /\ \E told \in {TellWaiter(RunOrStall(put, t), t)} : Commit(told, t, "check", told.core[t])
        /\ NoCall

(* ThreadManager::waitForThreadStart *)
WaitForThreadStart(u, t) ==
    /\ where[u] = "user" /\ u # t
    /\ sys.status[t] = "INITIALIZING" /\ sys.waiter[t] = NoThread
    /\ Commit([sys EXCEPT !.waiter[t] = u], u, "startwait", here[u])
    /\ NoCall

(* ThreadManager::joinThread; a thread is joined by one other thread.         *)
Join(u, t) ==
    /\ where[u] = "user" /\ u # t
    /\ sys.status[t] \notin {"none", "IDLE"} /\ sys.waiter[t] = NoThread
    /\ StallIn([sys EXCEPT !.waiter[t] = u], u, "JOIN")
    /\ NoCall

(* ThreadManager::onThreadExit: the joiner is resumed before the core is      *)
(* given up; then the exit hooks of the scheduler and of the barrier.         *)
Exit(t) ==
    LET c == sys.core[t]
        sound == AssertIn(sys, c # NoCore /\ sys.status[t] = "RUNNING", "thread ends while not running")
        idle == [sound EXCEPT !.status[t] = "IDLE", !.waiter[t] = NoThread]
        woken == IF sys.waiter[t] = NoThread THEN idle ELSE ResumeThread(idle, sys.waiter[t])
        left == [SetCore(SetState(woken, c, "IDLE"), t, NoCore) EXCEPT !.runnable[t] = FALSE]
    IN  /\ where[t] = "user"
        /\ Commit(Signal(ReleaseThread(RescheduleCoreOf(left, t), t)), t, "exited", NoCore)
        /\ NoCall

(* A sleep with a timeout, and any wait that another thread ends (futex,      *)
(* mutex, condition).                                                         *)
Sleep(t) ==
    \E d \in 1 .. MaxSleep :
      /\ where[t] = "user" /\ CountCall
      /\ StallIn([sys EXCEPT !.wakeAt[t] = Now(sys) + d, !.sleeping = Append(@, t)], t, "SLEEP")

Block(t) ==
    /\ where[t] = "user" /\ CountCall
    /\ StallIn(sys, t, "FUTEX")

Wake(u, t) ==
    /\ where[u] = "user"
    /\ sys.status[t] = "STALLED" /\ sys.reason[t] = "FUTEX"
    /\ Commit(ResumeThread(sys, t), u, "user", here[u])
    /\ NoCall

(* SYS_pause: the host thread blocks in the kernel, marked as stalled around  *)
(* it; a signal to the application ends it.                                   *)
Pause(t) ==
    /\ where[t] = "user" /\ CountCall
    /\ Commit(StallThread_async(sys, t, "PAUSE"), t, "paused", here[t])

EndPause(t) ==
    /\ where[t] = "paused"
    /\ Commit(ResumeThread_async(sys, t), t, "check", here[t])
    /\ NoCall

(* SchedulerPinnedBase::threadYield *)
ToOtherCore(s, t, c) ==
    LET free == FindFreeCoreForThread(s, t)
    IN  IF c \notin s.affinity[t] /\ free # NoCore THEN RescheduleCore(s, free) ELSE s
ThreadYield(s, t) ==
    LET c == s.coreRunning[t]
    IN  IF c = NoCore THEN s
        ELSE ToOtherCore(RescheduleCore([s EXCEPT !.quantumLeft[c] = 0], c), t, c)

Yield(t) ==
    /\ where[t] = "user" /\ CountCall
    /\ Commit(ThreadYield(sys, t), t, "check", here[t])

(* SchedulerPinnedBase::threadSetAffinity, called for SYS_sched_setaffinity;  *)
(* the mask of a thread that has ended changes nothing.                       *)
SetAffinity(u, t, mask) ==
    LET set == [sys EXCEPT !.affinity[t] = mask]
        c == set.coreRunning[t]
        free == FindFreeCoreForThread(set, t)
        done == IF t = u THEN ThreadYield(set, t)
                ELSE IF c # NoCore /\ c \notin mask THEN [set EXCEPT !.quantumLeft[c] = 0]
                ELSE IF set.runnable[t] /\ c = NoCore /\ free # NoCore THEN RescheduleCore(set, free)
                ELSE set
    IN  /\ where[u] = "user" /\ CountCall /\ sys.status[t] \notin {"none", "IDLE"}
        /\ mask # {} /\ mask # sys.affinity[t]
        /\ Commit(done, u, "check", here[u])

(* Thread::reschedule, and back to application code.  A thread that lost its  *)
(* core stalls until the scheduler gives it one.                              *)
CheckScheduled(t) ==
    /\ where[t] = "check"
    /\ \/ sys.core[t] # NoCore /\ Commit(sys, t, "user", sys.core[t])
       \/ sys.core[t] = NoCore /\ StallIn(sys, t, "UNSCHEDULED")
    /\ NoCall

(* BarrierSyncServer::synchronize.  In detailed mode only a core that reached *)
(* the barrier time is held; it may have run past it.                         *)
SyncTimes(s) == IF s.fastforward THEN {s.next - 1, s.next + 1} ELSE {s.next, s.next + 1}
Synchronize(t) ==
    \E time \in SyncTimes(sys) :
      LET c == here[t]
          sound == AssertIn(AssertIn(sys, sys.cthread[c] = t /\ sys.cstate[c] \in {"RUNNING", "INITIALIZING"},
                                     "core is not running"),
                            ~sys.acquired[c], "core is already in the barrier")
          in == [sound EXCEPT !.clock[c] = time, !.acquired[c] = TRUE, !.slot[c] = t]
          R == IF IsBarrierReached(in) THEN BarrierRelease(in, t, FALSE) ELSE Answer(in, TRUE, FALSE)
      IN  /\ where[t] = "user" /\ ~sys.disable
          /\ time <= MaxTime
          /\ \E r \in {R} : Commit(r.s, t, IF r.wait THEN "barrier" ELSE "check", c)
          /\ NoCall

(* BarrierSyncServer::abortBarrier: everybody leaves; m_local_clock_list is   *)
(* kept, so a core that waited still counts as having reached the barrier.    *)
AbortBarrier(s) ==
    [LeaveBarrier(s, {c \in Cores : s.acquired[c]}, NoThread) EXCEPT
       !.aborted = @ \/ \E c \in Cores : s.acquired[c] /\ s.clock[c] >= s.next]

(* Simulator::setInstrumentationMode -> setDisable *)
SetDisable(t) ==
    LET off == [sys EXCEPT !.disable = ~@]
    IN  /\ where[t] = "user" /\ CountCall
        /\ Commit(IF off.disable THEN AbortBarrier(off) ELSE off, t, "user", here[t])

(* FastForwardPerformanceManager::step and disable: the barrier's mode, and   *)
(* its next time raised to that of the core that is furthest ahead; release() *)
(* empties the barrier.                                                       *)
SetFastForward(t) ==
    \E latest \in {sys.next, sys.next + 1} :
      LET set == [sys EXCEPT !.fastforward = ~@, !.next = latest]
      IN  /\ where[t] = "user" /\ CountCall
          /\ \A c \in Cores : sys.acquired[c] => sys.clock[c] <= latest
          /\ Commit(IF sys.fastforward THEN AbortBarrier(set) ELSE set, t, "user", here[t])

Next ==
    \E t \in Threads :
      \/ Spawn(t) \/ Start(t) \/ Exit(t) \/ CheckScheduled(t) \/ Synchronize(t)
      \/ Sleep(t) \/ Block(t) \/ Pause(t) \/ EndPause(t) \/ Yield(t)
      \/ SetDisable(t) \/ SetFastForward(t)
      \/ \E u \in Threads : Join(u, t) \/ WaitForThreadStart(u, t) \/ Wake(u, t)
      \/ \E u \in Threads, mask \in SUBSET Cores : SetAffinity(u, t, mask)

Spec == Init /\ [][Next]_vars

------------------------------------------------------------------------------
(* Types of the servers' state and of the host threads' places. *)
TypeOK ==
    /\ sys \in Systems /\ sys.next \in 1 .. MaxTime /\ sys.signalled = {}
    /\ where \in [Threads -> Places] /\ here \in [Threads -> Cores \union {NoCore}]
    /\ abandoned \subseteq Threads

(* The assertions of the three servers hold: a core is never given to two     *)
(* threads, a thread ends only while it runs, only a running core enters the  *)
(* barrier and only once, and rescheduling does not call itself without end.  *)
AssertionsHold ==
    sys.failed \subseteq {"application deadlocked", "advance spins"}

(* The scheduler's tables agree with each other and with where ThreadManager  *)
(* put the threads: m_core_thread_running, ThreadInfo::m_core_running,        *)
(* Thread::m_core and Core::m_thread all name the same placement, and a core  *)
(* marked RUNNING has a thread.                                               *)
PlacementAgrees ==
    /\ sys.core = sys.coreRunning
    /\ sys.cthread = sys.running
    /\ \A t \in Threads, c \in Cores : sys.core[t] = c <=> sys.cthread[c] = t
    /\ \A c \in Cores : sys.cstate[c] = "RUNNING" => sys.cthread[c] # NoThread

(* Outside the barrier, preemption is not possible (scheduler_dynamic.cc:67): *)
(* a thread that executes application code is on the core it believes to be   *)
(* on, and that core is marked as running.                                    *)
UserOnCore ==
    \A t \in Threads : where[t] = "user" =>
      sys.core[t] = here[t] /\ sys.cstate[here[t]] = "RUNNING" /\ sys.status[t] = "RUNNING"

(* Who resumes a stalled thread: the exit of the thread it joins, the periodic *)
(* hook when its sleep is over, the scheduler, which may choose it for a core, *)
(* or another thread (futex).                                                  *)
Resumable(t) ==
    \/ sys.reason[t] = "JOIN" /\ \E u \in Threads : sys.waiter[u] = t /\ sys.status[u] \notin {"none", "IDLE"}
    \/ sys.reason[t] = "SLEEP" /\ t \in Sleepers(sys)
    \/ sys.reason[t] = "UNSCHEDULED" /\ sys.runnable[t] /\ sys.coreRunning[t] = NoCore
    \/ sys.reason[t] = "FUTEX"

(* No wake-up is lost: a thread in Thread::wait is stalled and there is one   *)
(* who resumes it, or the start that it waits for is to come; and a thread in *)
(* a core's condition is the one the barrier has recorded for that core.  The *)
(* exception is a thread that joined another before that one started: its     *)
(* start signals the joiner without resuming it and forgets it (JoinersWoken).*)
NoLostSignal ==
    \A t \in Threads :
      /\ where[t] = "stalled" => sys.status[t] = "STALLED" /\ (Resumable(t) \/ t \in abandoned)
      /\ where[t] = "startwait" => \E u \in Threads : sys.waiter[u] = t /\ where[u] = "created"
      /\ where[t] = "barrier" => sys.acquired[here[t]] /\ sys.slot[here[t]] = t

(* Whoever joins a thread is resumed by its exit. The code breaks it           *)
(* (thread_manager.cc:136): onThreadStart takes the joiner for a thread in     *)
(* waitForThreadStart.                                                         *)
JoinersWoken == abandoned = {}

(* What the servers take for a running thread is one that can go on: nobody   *)
(* is left waiting for a thread that waits itself, as the barrier would for a *)
(* thread it has forgotten to release or the scheduler for one it did not     *)
(* wake.                                                                      *)
RunningCanGo ==
    (AnyThreadRunning(sys) /\ sys.failed = {}) =>
      \E t \in Threads : where[t] \in {"created", "user", "check"}

(* "When all threads are stalled, we have a deadlock -- unless we let the     *)
(* barrier advance time which may wake up threads that are sleeping"          *)
(* (thread_manager.cc:341): somebody is running, or holds the lock to advance *)
(* time, as long as a thread sleeps.                                          *)
SleepersWake ==
    Sleepers(sys) # {} => AnyThreadRunning(sys) \/ sys.failed # {}

(* The tables of scheduler, thread manager and cores name the same          *)
(* placement through every preemption, migration, exit and barrier release, *)
(* and a thread that executes application code is on the core it believes   *)
(* to be on.                                                                *)
PlacementCorrect == TypeOK /\ PlacementAgrees /\ UserOnCore

(* Whoever waits in Thread::wait or in the barrier is one the servers still *)
(* know they have to wake, and as long as the servers count a thread as     *)
(* running some thread can really go on.                                    *)
WakeUpsArrive == NoLostSignal /\ RunningCanGo
=============================================================================
