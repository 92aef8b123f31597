---------------------------- MODULE ThreadStall ----------------------------
(***************************************************************************)
(* How a simulated thread stops and resumes.  ThreadManager::stallThread   *)
(* puts the calling host thread to sleep on the Thread's own               *)
(* ConditionVariable; ThreadManager::resumeThread signals it.  Every       *)
(* server (futex, sleep, mutex, condition, barrier) calls both with        *)
(* m_thread_lock held, and only ConditionVariable::wait gives the lock up. *)
(*                                                                         *)
(* where[t] says what host thread t is doing with respect to that lock:    *)
(*   "user"      outside, running application code                         *)
(*   "server"    holds the lock, in the middle of a server call            *)
(*   "stalling"  holds the lock, inside stallThread after                  *)
(*               stallThread_async, not yet in wait()                      *)
(*   "wait"      blocked in ConditionVariable::wait, lock released         *)
(*   "woken"     out of the futex wait, waiting for the lock               *)
(*   "aborted"   the "Application has deadlocked" assertion fired          *)
(***************************************************************************)
EXTENDS FiniteSets, Integers, Sequences

CONSTANT Threads      \* simulated threads

VARIABLES
    status,       \* m_thread_state[t].status
    where,        \* see above
    msg           \* Thread::m_wakeup_msg: (void*)true, or NULL = (void*)false

stallVars == <<status, where, msg>>

Places == {"user", "server", "stalling", "wait", "woken", "aborted"}

StallTypeOK ==
    /\ status \in [Threads -> {"RUNNING", "STALLED"}]
    /\ where \in [Threads -> Places]
    /\ msg \in [Threads -> BOOLEAN]

StallInit ==
    /\ status = [t \in Threads |-> "RUNNING"]
    /\ where = [t \in Threads |-> "user"]
    /\ msg = [t \in Threads |-> FALSE]

(* Nobody holds m_thread_lock. *)
LockFree == \A t \in Threads : where[t] \notin {"server", "stalling", "aborted"}

(* ThreadManager::anyThreadRunning *)
AnyThreadRunning == \E t \in Threads : status[t] = "RUNNING"

(* stallThread_async, up to the hooks it calls: the thread is STALLED, and   *)
(* still holds the lock.                                                     *)
StallAsync(t) ==
    /\ status' = [status EXCEPT ![t] = "STALLED"]
    /\ where' = [where EXCEPT ![t] = "stalling"]

(* resumeThread for every thread of S: signal() stores the message and       *)
(* wakes the host thread if it is in wait(); a thread that has not reached   *)
(* wait() does not notice.                                                   *)
Resumed(S) == [t \in Threads |-> IF t \in S THEN "RUNNING" ELSE status[t]]
Signalled(S, places) ==
    [t \in Threads |-> IF t \in S /\ places[t] = "wait" THEN "woken" ELSE places[t]]
Messages(S, m) == [t \in Threads |-> IF t \in S THEN m ELSE msg[t]]

(* The k-th smallest of a set W of positions, and the elements of queue q at *)
(* those positions, in order: what is left, or taken, when a loop over a     *)
(* queue of threads handles some of them.                                    *)
Nth(W, k) == CHOOSE i \in W : Cardinality({j \in W : j <= i}) = k
InOrder(q, W) == [k \in 1..Cardinality(W) |-> q[Nth(W, k)]]

(* stallThread, no thread running: only the barrier advancing time can help. *)
MustAdvance(t) == where[t] = "stalling" /\ ~AnyThreadRunning

(* A bug the code avoids: stallThread without the check for RUNNING.         *)
StallAlwaysWaits(t) ==
    /\ where[t] = "stalling"
    /\ AnyThreadRunning
    /\ msg' = [msg EXCEPT ![t] = FALSE]
    /\ where' = [where EXCEPT ![t] = "wait"]
    /\ UNCHANGED status

(* stallThread reaches the end of its loop: a thread that a periodic hook    *)
(* woke up in the meantime must not wait, the others do.                     *)
StallWait(t) ==
    /\ where[t] = "stalling"
    /\ AnyThreadRunning
    /\ status[t] # "RUNNING"
    /\ msg' = [msg EXCEPT ![t] = FALSE]
    /\ where' = [where EXCEPT ![t] = "wait"]
    /\ UNCHANGED status

(* stallThread returns to the server that called it, which holds the lock:   *)
(* at once for a thread that is RUNNING again, otherwise after wait() has    *)
(* re-acquired the lock.                                                     *)
StallReturns(t) ==
    \/ where[t] = "stalling" /\ AnyThreadRunning /\ status[t] = "RUNNING"
    \/ where[t] = "woken" /\ LockFree

(* A host signal ends the futex wait of ConditionVariable::wait.  syscall()  *)
(* then returns -1 and sets errno, so the test res == -EINTR fails and the   *)
(* loop is left as if somebody had called signal().                          *)
Interrupted(t) ==
    /\ where[t] = "wait"
    /\ where' = [where EXCEPT ![t] = "woken"]
    /\ UNCHANGED <<status, msg>>
=============================================================================
