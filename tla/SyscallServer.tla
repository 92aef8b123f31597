--------------------------- MODULE SyscallServer ---------------------------
(***************************************************************************)
(* The emulation of SYS_futex and SYS_nanosleep: SyscallServer and         *)
(* SimFutex (common/system/syscall_server.cc), on top of the stalling and  *)
(* resuming of ThreadStall.                                                *)
(*                                                                         *)
(* Application threads store to futex words without the simulator's lock,  *)
(* so a store may fall between the read of a word inside a futex call and  *)
(* the use of the value: those calls take two steps, ReadWord and the      *)
(* completion.  Time is only ever compared with timeouts, so a waiter      *)
(* carries the number of barrier quanta it has left; Forever stands for    *)
(* SubsecondTime::MaxTime().                                               *)
(***************************************************************************)
EXTENDS ThreadStall

CONSTANTS
    Uaddrs,       \* futex words
    Timeouts,     \* the timeouts applications ask for, in quanta
    NrWakes,      \* the counts applications pass to wake calls
    WakeOps,      \* the encoded FUTEX_WAKE_OP operations applications use
    TimeStart,    \* osemu/time_start, in quanta
    TimeMod       \* SubsecondTime wraps at this many quanta (2^64 fs)

ASSUME SyscallAssumption ==
    /\ IsFiniteSet(Threads)
    /\ Timeouts \subseteq 0 .. TimeMod
    /\ NrWakes \subseteq Nat
    /\ WakeOps \subseteq [op : {"SET", "ADD", "OR", "ANDN", "XOR"}, oparg : {0, 1},
                          cmp : {"EQ", "NE", "LT", "GE", "LE", "GT"}, cmparg : {0, 1}]
    /\ TimeStart \in Nat /\ TimeMod \in Nat /\ TimeStart < TimeMod

VARIABLES
    mem,          \* contents of the futex words (one-bit integers)
    waiting,      \* SimFutex::m_waiting of each futex
    sleeping,     \* m_sleeping
    call,         \* arguments and value read of the call that holds the lock
    ret,          \* what the thread's last futex wait returned
    by,           \* auxiliary: what ended that wait
    owes          \* auxiliary: <<t, u>> when t stored to u and must still wake it

vars == <<status, where, msg, mem, waiting, sleeping, call, ret, by, owes>>

Words == {0, 1}
Forever == -1
NoCall == [op |-> "none"]

(* What a thread in a queue waits for.  Three fields are auxiliary: the      *)
(* value the word had to have, whether a requeue has moved the waiter away   *)
(* from that word, and the timeout asked for.                                *)
Waiter(t, left, val, asked) ==
    [thread |-> t, left |-> left, val |-> val, requeued |-> FALSE, asked |-> asked]

QueueOf(q) == {q[i].thread : i \in DOMAIN q}

Init ==
    /\ StallInit
    /\ mem = [u \in Uaddrs |-> 0]
    /\ waiting = [u \in Uaddrs |-> <<>>]
    /\ sleeping = <<>>
    /\ call = NoCall
    /\ ret = [t \in Threads |-> "none"]
    /\ by = [t \in Threads |-> "none"]
    /\ owes = {}
-----------------------------------------------------------------------------
(***************************************************************************)
(* Queues.                                                                 *)
(***************************************************************************)
(* push_back(m_waiting.front()) for every waiter of q: requeueWaiter         *)
Moved(q) == [i \in DOMAIN q |-> [q[i] EXCEPT !.requeued = TRUE]]

(* q without the positions of S, in order *)
Without(q, S) == InOrder(q, DOMAIN q \ S)

(* The positions n successive calls of SimFutex::dequeueWaiter take.  It     *)
(* takes the first waiter whose mask meets the mask of the call, but every   *)
(* call has FUTEX_BITSET_MATCH_ANY (for FUTEX_WAKE_BITSET too, where         *)
(* handleFutexCall tests for FUTEX_WAIT_BITSET), which meets every nonzero   *)
(* mask: masks never select, and are left out.                               *)
Dequeued(q, n) == {i \in DOMAIN q : i <= n}

(* A bug the code avoids: the search stops at the most recent waiter.        *)
ExpiredLast(q) ==
    {i \in DOMAIN q : /\ q[i].left = 0
                      /\ \A j \in DOMAIN q : j > i => q[j].left # 0}

(* The position SimFutex::wakeTimedOut takes, and the sleep loop of          *)
(* futexPeriodic: the first waiter whose time has come, and only that one.   *)
Expired(q) ==
    {i \in DOMAIN q : /\ q[i].left = 0
                      /\ \A j \in 1..(i - 1) : q[j].left # 0}

(* A bug the code avoids: MaxTime() is counted down like any other timeout.  *)
AgedForever(q) ==
    [i \in DOMAIN q |->
        LET less(n) == IF n # 0 THEN n - 1 ELSE n
        IN  [q[i] EXCEPT !.left = less(@), !.asked = less(@)]]

(* One quantum passes for every waiter of q: m_next_barrier_time advances.   *)
Aged(q) ==
    [i \in DOMAIN q |->
        LET less(n) == IF n > 0 THEN n - 1 ELSE n
        IN  [q[i] EXCEPT !.left = less(@), !.asked = less(@)]]

HasTimeout(q) == \E i \in DOMAIN q : q[i].left # Forever

(* getNextTimeout() < MaxTime()                                              *)
TimeoutPending ==
    HasTimeout(sleeping) \/ \E u \in Uaddrs : HasTimeout(waiting[u])
-----------------------------------------------------------------------------
(***************************************************************************)
(* Applications store to futex words at any time, without m_thread_lock.   *)
(* A correct application wakes the word's waiters afterwards, before it    *)
(* stores again: owes records that it has still to do so.                  *)
(***************************************************************************)
(* The application has looked at the result of its last call.               *)
Consumed(t) ==
    /\ ret' = [ret EXCEPT ![t] = "none"]
    /\ by' = [by EXCEPT ![t] = "none"]

Store(t, u, v) ==
    /\ where[t] = "user"
    /\ mem[u] # v
    /\ \A w \in Uaddrs : <<t, w>> \notin owes
    /\ mem' = [mem EXCEPT ![u] = v]
    /\ owes' = owes \cup {<<t, u>>}
    /\ Consumed(t)
    /\ UNCHANGED <<status, where, msg, waiting, sleeping, call>>

(* The timeout of a wait that asks for r quanta.  FUTEX_WAIT_BITSET passes   *)
(* an absolute time on the emulated clock, which started at TimeStart.       *)
(* FUTEX_WAIT passes a relative one, from which the code also subtracts      *)
(* TimeStart: when that is negative the unsigned sum with the current time   *)
(* lies far in the future, or wraps around and is already past.              *)
TimeoutLeft(cmd, r) ==
    CASE r = Forever -> {Forever}
      [] r # Forever /\ cmd = "FUTEX_WAIT_BITSET" -> {r}
      [] r # Forever /\ cmd = "FUTEX_WAIT" ->
            IF r >= TimeStart THEN {r - TimeStart}
                              ELSE {0, TimeMod - (TimeStart - r)}

(* handleFutexCall up to and including the read of the word (act_val).       *)
ReadWord(t, c) ==
    /\ where[t] = "user"
    /\ LockFree
    /\ where' = [where EXCEPT ![t] = "server"]
    /\ call' = c
    /\ Consumed(t)
    /\ UNCHANGED <<status, msg, mem, waiting, sleeping, owes>>

FutexWaitCall(t, u) ==
    \E val \in Words, r \in Timeouts \cup {Forever} :
    \E cmd \in {"FUTEX_WAIT", "FUTEX_WAIT_BITSET"} :
    \E left \in TimeoutLeft(cmd, r) :
        ReadWord(t, [op |-> "wait", u |-> u, val |-> val, act |-> mem[u],
                     left |-> left, asked |-> r])

CmpRequeueCall(t, u) ==
    \E u2 \in Uaddrs \ {u}, n \in NrWakes, val3 \in Words :
        ReadWord(t, [op |-> "requeue", u |-> u, u2 |-> u2, n |-> n,
                     val3 |-> val3, act |-> mem[u]])

(* FUTEX_WAKE_OP reads the second word, in futexDoOp.                        *)
WakeOpCall(t, u) ==
    \E u2 \in Uaddrs \ {u}, n \in NrWakes, n2 \in NrWakes, o \in WakeOps :
        ReadWord(t, [op |-> "wakeop", u |-> u, u2 |-> u2, n |-> n, n2 |-> n2,
                     do |-> o, old |-> mem[u2]])
-----------------------------------------------------------------------------
(* A bug the code avoids: futexWait without the comparison.                  *)
WaitUnconditionally(t) ==
    /\ where[t] = "server" /\ call.op = "wait"
    /\ waiting' = [waiting EXCEPT ![call.u] =
          Append(@, Waiter(t, call.left, call.val, call.asked))]
    /\ StallAsync(t)
    /\ call' = NoCall
    /\ UNCHANGED <<msg, mem, sleeping, ret, by, owes>>

(* futexWait and SimFutex::enqueueWaiter up to the stall.                    *)
FutexWait(t) ==
    /\ where[t] = "server" /\ call.op = "wait"
    /\ IF call.val # call.act
       THEN /\ where' = [where EXCEPT ![t] = "user"]
            /\ ret' = [ret EXCEPT ![t] = "EWOULDBLOCK"]
            /\ UNCHANGED <<status, waiting>>
       ELSE /\ waiting' = [waiting EXCEPT ![call.u] =
                  Append(@, Waiter(t, call.left, call.val, call.asked))]
            /\ StallAsync(t)
            /\ UNCHANGED ret
    /\ call' = NoCall
    /\ UNCHANGED <<msg, mem, sleeping, by, owes>>

(* A wake call ends the waits of the threads of S.                           *)
WokenBy(S) == [t \in Threads |-> IF t \in S THEN "wake" ELSE by[t]]

(* t has woken u's waiters until none was left *)
Paid(t, u, left) == IF left = <<>> THEN {<<t, u>>} ELSE {}

(* FUTEX_WAKE and FUTEX_WAKE_BITSET: futexWake.                              *)
FutexWake(t, u, n) ==
    /\ where[t] = "user"
    /\ LockFree
    /\ LET S == Dequeued(waiting[u], n)
           woken == {waiting[u][i].thread : i \in S}
           rest == Without(waiting[u], S)
       IN  /\ waiting' = [waiting EXCEPT ![u] = rest]
           /\ status' = Resumed(woken)
           /\ where' = Signalled(woken, where)
           /\ msg' = Messages(woken, TRUE)
           /\ by' = WokenBy(woken)
           /\ owes' = owes \ Paid(t, u, rest)
    /\ UNCHANGED <<mem, sleeping, call, ret>>

(***************************************************************************)
(* futexDoOp on one-bit words: the new value, and the comparison.          *)
(***************************************************************************)
NewVal(o, old) ==
    CASE o.op = "SET"  -> o.oparg
      [] o.op = "ADD"  -> (old + o.oparg) % 2
      [] o.op = "OR"   -> IF old = 1 \/ o.oparg = 1 THEN 1 ELSE 0
      [] o.op = "ANDN" -> IF o.oparg = 1 THEN 0 ELSE old
      [] o.op = "XOR"  -> IF old = o.oparg THEN 0 ELSE 1

OpRet(o, old) ==
    CASE o.cmp = "EQ" -> old = o.cmparg
      [] o.cmp = "NE" -> old # o.cmparg
      [] o.cmp = "LT" -> old < o.cmparg
      [] o.cmp = "GE" -> old >= o.cmparg
      [] o.cmp = "LE" -> old <= o.cmparg
      [] o.cmp = "GT" -> old > o.cmparg

(* futexWakeOp from the write of the second word on: a store to that word   *)
(* since it was read is overwritten.                                        *)
FutexWakeOp(t) ==
    /\ where[t] = "server" /\ call.op = "wakeop"
    /\ LET S == Dequeued(waiting[call.u], call.n)
           S2 == IF OpRet(call.do, call.old)
                 THEN Dequeued(waiting[call.u2], call.n2) ELSE {}
           rest == Without(waiting[call.u], S)
           rest2 == Without(waiting[call.u2], S2)
           woken == {waiting[call.u][i].thread : i \in S}
                    \cup {waiting[call.u2][i].thread : i \in S2}
           stored == IF NewVal(call.do, call.old) # mem[call.u2]
                     THEN {<<t, call.u2>>} ELSE {}
       IN  /\ mem' = [mem EXCEPT ![call.u2] = NewVal(call.do, call.old)]
           /\ waiting' = [waiting EXCEPT ![call.u] = rest, ![call.u2] = rest2]
           /\ status' = Resumed(woken)
           /\ where' = Signalled(woken, [where EXCEPT ![t] = "user"])
           /\ msg' = Messages(woken, TRUE)
           /\ by' = WokenBy(woken)
           /\ owes' = (owes \cup stored)
                        \ (Paid(t, call.u, rest) \cup Paid(t, call.u2, rest2))
    /\ call' = NoCall
    /\ UNCHANGED <<sleeping, ret>>

(* futexCmpRequeue: wake call.n waiters, move all the others to u2's queue  *)
(* (requeueWaiter); with a word that has changed, do nothing (EAGAIN).      *)
FutexCmpRequeue(t) ==
    /\ where[t] = "server" /\ call.op = "requeue"
    /\ LET ok == call.val3 = call.act
           S == IF ok THEN Dequeued(waiting[call.u], call.n) ELSE {}
           woken == {waiting[call.u][i].thread : i \in S}
           moved == IF ok THEN Moved(Without(waiting[call.u], S)) ELSE <<>>
       IN  /\ waiting' = [waiting EXCEPT ![call.u] = IF ok THEN <<>> ELSE @,
                                         ![call.u2] = @ \o moved]
           /\ status' = Resumed(woken)
           /\ where' = Signalled(woken, [where EXCEPT ![t] = "user"])
           /\ msg' = Messages(woken, TRUE)
           /\ by' = WokenBy(woken)
           /\ owes' = owes \ (IF ok THEN {<<t, call.u>>} ELSE {})
    /\ call' = NoCall
    /\ UNCHANGED <<mem, sleeping, ret>>

(* handleSleepCall up to the stall.                                         *)
SleepCall(t, r) ==
    /\ where[t] = "user"
    /\ LockFree
    /\ sleeping' = Append(sleeping, Waiter(t, r, 0, r))
    /\ StallAsync(t)
    /\ Consumed(t)
    /\ UNCHANGED <<msg, mem, waiting, call, owes>>
-----------------------------------------------------------------------------
(***************************************************************************)
(* futexPeriodic, called from barrierRelease once a quantum: by a thread   *)
(* that synchronizes with the barrier, by a stalling thread that was the   *)
(* last one the others were waiting for, or by a stalling thread that      *)
(* leaves nobody running (BarrierSyncServer::advance).                     *)
(***************************************************************************)
BarrierReleased ==
    \/ LockFree /\ AnyThreadRunning
    \/ \E t \in Threads :
          /\ where[t] = "stalling"
          /\ \/ \E v \in Threads \ {t} : status[v] = "RUNNING"
             \/ ~AnyThreadRunning /\ TimeoutPending

(* A bug the code avoids: a timeout reported as a wakeup.                   *)
PeriodicSaysWoken ==
    /\ BarrierReleased
    /\ LET aged == [u \in Uaddrs |-> Aged(waiting[u])]
           agedS == Aged(sleeping)
           woken == {agedS[i].thread : i \in Expired(agedS)}
              \cup UNION {{aged[u][i].thread : i \in Expired(aged[u])} : u \in Uaddrs}
       IN  /\ sleeping' = Without(agedS, Expired(agedS))
           /\ waiting' = [u \in Uaddrs |-> Without(aged[u], Expired(aged[u]))]
           /\ status' = Resumed(woken)
           /\ where' = Signalled(woken, where)
           /\ msg' = Messages(woken, TRUE)
           /\ by' = [t \in Threads |-> IF t \in woken THEN "timeout" ELSE by[t]]
    /\ UNCHANGED <<mem, call, ret, owes>>

FutexPeriodic ==
    /\ BarrierReleased
    /\ LET aged == [u \in Uaddrs |-> Aged(waiting[u])]
           agedS == Aged(sleeping)
           woken == {agedS[i].thread : i \in Expired(agedS)}
              \cup UNION {{aged[u][i].thread : i \in Expired(aged[u])} : u \in Uaddrs}
       IN  /\ sleeping' = Without(agedS, Expired(agedS))
           /\ waiting' = [u \in Uaddrs |-> Without(aged[u], Expired(aged[u]))]
           /\ status' = Resumed(woken)
           /\ where' = Signalled(woken, where)
           /\ msg' = Messages(woken, FALSE)
           /\ by' = [t \in Threads |-> IF t \in woken THEN "timeout" ELSE by[t]]
    /\ UNCHANGED <<mem, call, ret, owes>>

(* advance() with nobody running and no timeout to wait for: the assertion  *)
(* "Application has deadlocked" ends the simulation.                        *)
DeadlockAbort(t) ==
    /\ MustAdvance(t)
    /\ ~TimeoutPending
    /\ where' = [where EXCEPT ![t] = "aborted"]
    /\ UNCHANGED <<status, msg, mem, waiting, sleeping, call, ret, by, owes>>

StallStep(t) ==
    /\ StallWait(t)
    /\ UNCHANGED <<mem, waiting, sleeping, call, ret, by, owes>>

(* stallThread returns into enqueueWaiter and futexWait: the wakeup message *)
(* decides between 0 and ETIMEDOUT (nanosleep ignores it).                  *)
WaitReturns(t) ==
    /\ StallReturns(t)
    /\ where' = [where EXCEPT ![t] = "user"]
    /\ ret' = [ret EXCEPT ![t] = IF msg[t] THEN "0" ELSE "ETIMEDOUT"]
    /\ UNCHANGED <<status, msg, mem, waiting, sleeping, call, by, owes>>

Finished ==
    /\ \E t \in Threads : where[t] = "aborted"
    /\ UNCHANGED vars

Next ==
    \/ \E t \in Threads, u \in Uaddrs :
          \/ \E v \in Words : Store(t, u, v)
          \/ FutexWaitCall(t, u)
          \/ CmpRequeueCall(t, u)
          \/ WakeOpCall(t, u)
          \/ \E n \in NrWakes : FutexWake(t, u, n)
    \/ \E t \in Threads :
          \/ FutexWait(t)
          \/ FutexWakeOp(t)
          \/ FutexCmpRequeue(t)
          \/ \E r \in Timeouts : SleepCall(t, r)
          \/ StallStep(t)
          \/ WaitReturns(t)
          \/ DeadlockAbort(t)
    \/ FutexPeriodic
    \/ Finished

Spec == Init /\ [][Next]_vars

(* The same with host signals that interrupt a thread asleep in             *)
(* ConditionVariable::wait.                                                 *)
InterruptStep(t) ==
    /\ Interrupted(t)
    /\ UNCHANGED <<mem, waiting, sleeping, call, ret, by, owes>>

SpecWithSignals ==
    Init /\ [][Next \/ \E t \in Threads : InterruptStep(t)]_vars

(* A call that holds the lock runs to its end; running threads keep         *)
(* reaching the barrier; a thread that keeps asking for m_thread_lock gets  *)
(* it in the end.  Nothing is assumed about the application.                *)
FairSpec ==
    /\ Spec
    /\ \A t \in Threads :
          /\ WF_vars(FutexWait(t)) /\ WF_vars(FutexWakeOp(t))
          /\ WF_vars(FutexCmpRequeue(t))
          /\ WF_vars(StallStep(t)) /\ WF_vars(DeadlockAbort(t))
          /\ SF_vars(WaitReturns(t))
    /\ SF_vars(FutexPeriodic)
-----------------------------------------------------------------------------
WaiterType ==
    LET times == 0 .. TimeMod \cup {Forever}
    IN  [thread : Threads, left : times, val : Words, requeued : BOOLEAN,
         asked : times]

(* The type invariant; no queue ever holds more waiters than there are      *)
(* threads.                                                                 *)
TypeOK ==
    /\ StallTypeOK
    /\ mem \in [Uaddrs -> Words]
    /\ waiting \in [Uaddrs -> Seq(WaiterType)]
    /\ sleeping \in Seq(WaiterType)
    /\ \A q \in {sleeping} \cup {waiting[u] : u \in Uaddrs} :
          Len(q) <= Cardinality(Threads)
    /\ call.op \in {"none", "wait", "requeue", "wakeop"}
    /\ ret \in [Threads -> {"none", "0", "EWOULDBLOCK", "ETIMEDOUT"}]
    /\ by \in [Threads -> {"none", "wake", "timeout"}]
    /\ owes \subseteq Threads \X Uaddrs

(* How many queue entries name t, over all futexes and the sleep list.      *)
Entries(t) ==
    Cardinality({i \in DOMAIN sleeping : sleeping[i].thread = t})
    + Cardinality({p \in Uaddrs \X (1..Cardinality(Threads)) :
                      /\ p[2] \in DOMAIN waiting[p[1]]
                      /\ waiting[p[1]][p[2]].thread = t})

(* A thread that is asleep in ConditionVariable::wait sits in exactly one   *)
(* queue, where a wake, a requeue or a timeout will find it; one that is    *)
(* not stalled sits in none.  Breaks if a periodic hook that runs inside    *)
(* stallThread loses its signal (thread_manager.cc, "this signal was        *)
(* lost"), or if a requeue leaves a waiter behind.                          *)
SleepersQueued ==
    \A t \in Threads :
        /\ where[t] = "wait" => Entries(t) = 1
        /\ status[t] = "RUNNING" => Entries(t) = 0

(* A wait that ends well was ended by a wake call, and one that reports     *)
(* ETIMEDOUT by its own timeout: the message of resumeThread survives until *)
(* the woken thread has the lock again and reads it.                        *)
ResultMatchesWaker ==
    \A t \in Threads :
        /\ ret[t] = "0" => by[t] = "wake"
        /\ ret[t] = "ETIMEDOUT" => by[t] = "timeout"

(* No lost wakeup: a thread queued on a word that no longer has the value   *)
(* it waited for is there only while the thread that changed the word has   *)
(* still to make its wake call.  The comparison in futexWait and the wake   *)
(* share m_thread_lock; the store does not.  A requeued waiter waits for a  *)
(* call on its new word, whatever that word holds.                          *)
NoLostWakeup ==
    \A u \in Uaddrs : \A i \in DOMAIN waiting[u] :
        ~waiting[u][i].requeued =>
            \/ waiting[u][i].val = mem[u]
            \/ \E t \in Threads : <<t, u>> \in owes

(* "FUTEX_WAIT uses relative timeout": every queued thread will time out    *)
(* when it asked to.                                                        *)
TimeoutAsAsked ==
    \A u \in Uaddrs : \A i \in DOMAIN waiting[u] :
        waiting[u][i].left = waiting[u][i].asked

(* "Restart futex_wait if it was interrupted by a signal": a thread comes   *)
(* out of ConditionVariable::wait only after it has been resumed.           *)
AwakeIsRunning ==
    \A t \in Threads : where[t] \in {"user", "server", "woken"} =>
        status[t] = "RUNNING"

InTimedWait(t) ==
    \/ \E i \in DOMAIN sleeping : sleeping[i].thread = t
    \/ \E u \in Uaddrs : \E i \in DOMAIN waiting[u] :
          waiting[u][i].thread = t /\ waiting[u][i].left # Forever

(* A thread with a timeout, or asleep in nanosleep, returns to the          *)
(* application in the end, although a periodic hook wakes at most one       *)
(* thread per queue and new waiters keep arriving.                          *)
TimedWaitsReturn ==
    \A t \in Threads : InTimedWait(t) ~> where[t] = "user"

(* The invariant of the futex and sleep queues: a thread asleep in          *)
(* ConditionVariable::wait sits in exactly one queue, where a wake, a       *)
(* requeue or a timeout will find it, a running one in none, and the result *)
(* of a wait names what ended it.                                           *)
WaitersCorrect == TypeOK /\ SleepersQueued /\ ResultMatchesWaker
=============================================================================
