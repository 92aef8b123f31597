----------------------------- MODULE SyncServer -----------------------------
(***************************************************************************)
(* The emulation of pthread mutexes, condition variables and barriers:     *)
(* SyncServer, SimMutex, SimCond and SimBarrier                            *)
(* (common/system/sync_server.cc), on top of ThreadStall.  Every operation *)
(* runs under m_thread_lock from its entry to its end or to the wait in    *)
(* stallThread.  A mutex is handed to its next owner by unlock; the woken  *)
(* thread does not compete for it.                                         *)
(***************************************************************************)
EXTENDS ThreadStall

CONSTANTS
    Mutexes, Conds,
    NoOwner,      \* SimMutex::NO_OWNER
    Barriers,     \* barrier ids, each created with count = all threads
    MaxRounds     \* bound: how often a thread may enter a barrier

ASSUME SyncAssumption ==
    /\ IsFiniteSet(Threads) /\ Threads # {}
    /\ NoOwner \notin Threads
    /\ MaxRounds \in Nat

VARIABLES
    owner,        \* SimMutex::m_owner
    mutexQ,       \* SimMutex::m_waiting
    condQ,        \* SimCond::m_waiting: <<thread, mutex>>
    barrierQ,     \* SimBarrier::m_waiting
    doing,        \* the call thread t is in
    held,         \* mutexes t has locked: lock() returned, unlock() not called
    entered,      \* auxiliary: how often t has entered barrier b
    left          \* auxiliary: how often t has left barrier b

syncVars == <<owner, mutexQ, condQ, barrierQ, doing, held, entered, left>>
vars == <<status, where, msg, owner, mutexQ, condQ, barrierQ, doing, held,
          entered, left>>

Count == Cardinality(Threads)
Idle == [op |-> "none"]
Locking(m) == [op |-> "lock", m |-> m]
Blocking(b) == [op |-> "barrier", b |-> b]

Init ==
    /\ StallInit
    /\ owner = [m \in Mutexes |-> NoOwner]
    /\ mutexQ = [m \in Mutexes |-> <<>>]
    /\ condQ = [c \in Conds |-> <<>>]
    /\ barrierQ = [b \in Barriers |-> <<>>]
    /\ doing = [t \in Threads |-> Idle]
    /\ held = [t \in Threads |-> {}]
    /\ entered = [t \in Threads |-> [b \in Barriers |-> 0]]
    /\ left = [t \in Threads |-> [b \in Barriers |-> 0]]

(* t may call the server: it runs application code and nobody is inside.    *)
MayCall(t) == where[t] = "user" /\ LockFree

(* resumeThread for every thread of S                                       *)
Resume(S) ==
    /\ status' = Resumed(S)
    /\ where' = Signalled(S, where)
    /\ msg' = Messages(S, FALSE)

(* SimMutex::lock, for mutexLock: take a free mutex, else queue and stall.  *)
(* The caller may be the owner: it then queues behind itself.               *)
Lock(t, m) ==
    \/ /\ owner[m] = NoOwner
       /\ owner' = [owner EXCEPT ![m] = t]
       /\ held' = [held EXCEPT ![t] = @ \cup {m}]
       /\ UNCHANGED <<status, where, msg, mutexQ, condQ, barrierQ, doing,
                      entered, left>>
    \/ /\ owner[m] # NoOwner
       /\ mutexQ' = [mutexQ EXCEPT ![m] = Append(@, t)]
       /\ doing' = [doing EXCEPT ![t] = Locking(m)]
       /\ StallAsync(t)
       /\ UNCHANGED <<msg, owner, condQ, barrierQ, held, entered, left>>

MutexLock(t, m) == MayCall(t) /\ Lock(t, m)

(* tryLock: isLocked(t) holds only when another thread owns the mutex, and  *)
(* the call then fails and changes nothing; otherwise it locks, which lets  *)
(* the owner queue behind itself.                                           *)
MutexTryLock(t, m) ==
    /\ MayCall(t)
    /\ owner[m] \in {NoOwner, t}
    /\ Lock(t, m)

(* A bug the code avoids: unlock frees a mutex that has waiters and wakes   *)
(* the first one as well.                                                   *)
UnlockFrees(m) ==
    /\ owner' = [owner EXCEPT ![m] = NoOwner]
    /\ mutexQ' = [mutexQ EXCEPT ![m] = IF @ = <<>> THEN @ ELSE Tail(@)]
    /\ Resume(IF mutexQ[m] = <<>> THEN {} ELSE {Head(mutexQ[m])})

(* Another: unlock leaves the new owner in the queue.                       *)
UnlockKeepsWaiter(m) ==
    /\ owner' = [owner EXCEPT ![m] =
                    IF mutexQ[m] = <<>> THEN NoOwner ELSE Head(mutexQ[m])]
    /\ Resume(IF mutexQ[m] = <<>> THEN {} ELSE {Head(mutexQ[m])})
    /\ UNCHANGED mutexQ

(* Another: unlock hands the mutex to the most recent waiter.               *)
UnlockLast(m) ==
    LET q == mutexQ[m] IN
    /\ owner' = [owner EXCEPT ![m] = IF q = <<>> THEN NoOwner ELSE q[Len(q)]]
    /\ mutexQ' = [mutexQ EXCEPT ![m] =
                     IF q = <<>> THEN q ELSE SubSeq(q, 1, Len(q) - 1)]
    /\ Resume(IF q = <<>> THEN {} ELSE {q[Len(q)]})

(* SimMutex::unlock: the first waiter becomes the owner and is resumed.     *)
Unlock(m) ==
    /\ owner' = [owner EXCEPT ![m] =
                    IF mutexQ[m] = <<>> THEN NoOwner ELSE Head(mutexQ[m])]
    /\ mutexQ' = [mutexQ EXCEPT ![m] = IF @ = <<>> THEN @ ELSE Tail(@)]
    /\ Resume(IF mutexQ[m] = <<>> THEN {} ELSE {Head(mutexQ[m])})

MutexUnlock(t, m) ==
    /\ MayCall(t)
    /\ m \in held[t]
    /\ Unlock(m)
    /\ held' = [held EXCEPT ![t] = @ \ {m}]
    /\ UNCHANGED <<condQ, barrierQ, doing, entered, left>>

(* SimCond::wait: unlock the mutex, handing it over, then queue and stall.  *)
CondWait(t, c, m) ==
    /\ MayCall(t)
    /\ m \in held[t]
    /\ LET woken == IF mutexQ[m] = <<>> THEN {} ELSE {Head(mutexQ[m])}
       IN  /\ owner' = [owner EXCEPT ![m] =
                          IF mutexQ[m] = <<>> THEN NoOwner ELSE Head(mutexQ[m])]
           /\ mutexQ' = [mutexQ EXCEPT ![m] = IF @ = <<>> THEN @ ELSE Tail(@)]
           /\ status' = [Resumed(woken) EXCEPT ![t] = "STALLED"]
           /\ where' = [Signalled(woken, where) EXCEPT ![t] = "stalling"]
           /\ msg' = Messages(woken, FALSE)
    /\ condQ' = [condQ EXCEPT ![c] = Append(@, <<t, m>>)]
    /\ held' = [held EXCEPT ![t] = @ \ {m}]
    /\ doing' = [doing EXCEPT ![t] = Locking(m)]
    /\ UNCHANGED <<barrierQ, entered, left>>

(* SimMutex::lock_async for the first n waiters of condition c, in order: a *)
(* waiter gets its mutex if it is free by then, else it joins its queue     *)
(* without being woken.                                                     *)
Granted(c, n) ==
    {i \in 1..n : /\ owner[condQ[c][i][2]] = NoOwner
                  /\ \A j \in 1..(i - 1) : condQ[c][j][2] # condQ[c][i][2]}

(* A bug the code avoids: a waiter whose mutex is taken is forgotten.       *)
LockAsyncForgets(c, n) ==
    LET q == condQ[c]
    IN  /\ owner' = [m \in Mutexes |->
              IF \E i \in Granted(c, n) : q[i][2] = m
              THEN q[CHOOSE i \in Granted(c, n) : q[i][2] = m][1] ELSE owner[m]]
        /\ Resume({q[i][1] : i \in Granted(c, n)})
        /\ condQ' = [condQ EXCEPT ![c] = SubSeq(@, n + 1, Len(@))]
        /\ UNCHANGED mutexQ

LockAsync(c, n) ==
    LET q == condQ[c]
        threads == [i \in DOMAIN q |-> q[i][1]]
        queues(m) == {i \in 1..n : q[i][2] = m /\ i \notin Granted(c, n)}
    IN  /\ owner' = [m \in Mutexes |->
              IF \E i \in Granted(c, n) : q[i][2] = m
              THEN q[CHOOSE i \in Granted(c, n) : q[i][2] = m][1] ELSE owner[m]]
        /\ mutexQ' = [m \in Mutexes |-> mutexQ[m] \o InOrder(threads, queues(m))]
        /\ Resume({q[i][1] : i \in Granted(c, n)})
        /\ condQ' = [condQ EXCEPT ![c] = SubSeq(@, n + 1, Len(@))]

CondSignal(t, c) ==
    /\ MayCall(t)
    /\ LockAsync(c, IF condQ[c] = <<>> THEN 0 ELSE 1)
    /\ UNCHANGED <<barrierQ, doing, held, entered, left>>

CondBroadcast(t, c) ==
    /\ MayCall(t)
    /\ LockAsync(c, Len(condQ[c]))
    /\ UNCHANGED <<barrierQ, doing, held, entered, left>>

(* A bug the code avoids: the barrier opens one thread early.               *)
BarrierOneShort(t, b) ==
    /\ MayCall(t)
    /\ entered[t][b] < MaxRounds
    /\ entered' = [entered EXCEPT ![t][b] = @ + 1]
    /\ \/ /\ Len(barrierQ[b]) >= Count - 2
          /\ barrierQ' = [barrierQ EXCEPT ![b] = <<>>]
          /\ Resume({barrierQ[b][i] : i \in DOMAIN barrierQ[b]})
          /\ left' = [left EXCEPT ![t][b] = @ + 1]
          /\ UNCHANGED doing
       \/ /\ Len(barrierQ[b]) < Count - 2
          /\ barrierQ' = [barrierQ EXCEPT ![b] = Append(@, t)]
          /\ StallAsync(t)
          /\ doing' = [doing EXCEPT ![t] = Blocking(b)]
          /\ UNCHANGED <<msg, left>>
    /\ UNCHANGED <<owner, mutexQ, condQ, held>>

(* SimBarrier::wait: the last thread resumes the others and goes on, the    *)
(* others queue and stall.                                                  *)
BarrierWait(t, b) ==
    /\ MayCall(t)
    /\ entered[t][b] < MaxRounds
    /\ entered' = [entered EXCEPT ![t][b] = @ + 1]
    /\ \/ /\ Len(barrierQ[b]) = Count - 1
          /\ barrierQ' = [barrierQ EXCEPT ![b] = <<>>]
          /\ Resume({barrierQ[b][i] : i \in DOMAIN barrierQ[b]})
          /\ left' = [left EXCEPT ![t][b] = @ + 1]
          /\ UNCHANGED doing
       \/ /\ Len(barrierQ[b]) # Count - 1
          /\ barrierQ' = [barrierQ EXCEPT ![b] = Append(@, t)]
          /\ StallAsync(t)
          /\ doing' = [doing EXCEPT ![t] = Blocking(b)]
          /\ UNCHANGED <<msg, left>>
    /\ UNCHANGED <<owner, mutexQ, condQ, held>>

StallStep(t) == StallWait(t) /\ UNCHANGED syncVars

(* Nobody is running and no timeout can wake anybody: the assertion         *)
(* "Application has deadlocked" ends the simulation.                        *)
DeadlockAbort(t) ==
    /\ MustAdvance(t)
    /\ where' = [where EXCEPT ![t] = "aborted"]
    /\ UNCHANGED <<status, msg, syncVars>>

(* stallThread returns into the call, which returns to the application.     *)
CallReturns(t) ==
    /\ StallReturns(t)
    /\ where' = [where EXCEPT ![t] = "user"]
    /\ doing' = [doing EXCEPT ![t] = Idle]
    /\ held' = IF doing[t].op = "lock"
               THEN [held EXCEPT ![t] = @ \cup {doing[t].m}] ELSE held
    /\ left' = IF doing[t].op = "barrier"
               THEN [left EXCEPT ![t][doing[t].b] = @ + 1] ELSE left
    /\ UNCHANGED <<status, msg, owner, mutexQ, condQ, barrierQ, entered>>

Finished ==
    /\ \E t \in Threads : where[t] = "aborted"
    /\ UNCHANGED vars

Next ==
    \/ \E t \in Threads :
          \/ \E m \in Mutexes :
                \/ MutexLock(t, m)
                \/ MutexTryLock(t, m)
                \/ MutexUnlock(t, m)
                \/ \E c \in Conds : CondWait(t, c, m)
          \/ \E c \in Conds : CondSignal(t, c) \/ CondBroadcast(t, c)
          \/ \E b \in Barriers : BarrierWait(t, b)
          \/ StallStep(t)
          \/ CallReturns(t)
          \/ DeadlockAbort(t)
    \/ Finished

Spec == Init /\ [][Next]_vars

(* A call that holds the lock runs to its end, and a thread that keeps      *)
(* asking for m_thread_lock gets it.  The application unlocks what it has   *)
(* locked.                                                                  *)
FairSpec ==
    /\ Spec
    /\ \A t \in Threads :
          /\ WF_vars(StallStep(t)) /\ SF_vars(CallReturns(t))
          /\ \A m \in Mutexes : SF_vars(MutexUnlock(t, m))
-----------------------------------------------------------------------------
(* The type invariant; no queue ever holds more waiters than there are      *)
(* threads.                                                                 *)
TypeOK ==
    /\ StallTypeOK
    /\ owner \in [Mutexes -> Threads \cup {NoOwner}]
    /\ mutexQ \in [Mutexes -> Seq(Threads)]
    /\ condQ \in [Conds -> Seq(Threads \X Mutexes)]
    /\ barrierQ \in [Barriers -> Seq(Threads)]
    /\ doing \in [Threads -> {Idle} \cup {Locking(m) : m \in Mutexes}
                                    \cup {Blocking(b) : b \in Barriers}]
    /\ \A m \in Mutexes : Len(mutexQ[m]) <= Count
    /\ \A b \in Barriers : Len(barrierQ[b]) < Count
    /\ held \in [Threads -> SUBSET Mutexes]
    /\ entered \in [Threads -> [Barriers -> 0..MaxRounds]]
    /\ left \in [Threads -> [Barriers -> 0..MaxRounds]]

(* Mutual exclusion: a thread that has come back from lock, or from a wait  *)
(* on a condition, is the owner the server has on record (which is also the *)
(* assertion in SimMutex::unlock), however the mutex was handed to it.      *)
HoldersOwn ==
    \A t \in Threads : \A m \in held[t] : owner[m] = t

Positions(f, t, Has(_, _)) ==
    {p \in (DOMAIN f) \X (1..Count) : p[2] \in DOMAIN f[p[1]] /\ Has(f[p[1]][p[2]], t)}

(* Nobody is forgotten: a stalled thread sits in exactly one queue, and a   *)
(* running one in none; a mutex that nobody owns has no waiters.            *)
NobodyForgotten ==
    /\ \A t \in Threads :
          Cardinality(Positions(mutexQ, t, LAMBDA x, y : x = y))
          + Cardinality(Positions(condQ, t, LAMBDA x, y : x[1] = y))
          + Cardinality(Positions(barrierQ, t, LAMBDA x, y : x = y))
            = IF status[t] = "STALLED" THEN 1 ELSE 0
    /\ \A m \in Mutexes : owner[m] = NoOwner => mutexQ[m] = <<>>

(* Nobody leaves a barrier for the k-th time before everybody has entered   *)
(* it k times, although the threads it releases may be back before the      *)
(* others have woken up.                                                    *)
BarrierHolds ==
    \A t, v \in Threads : \A b \in Barriers : left[t][b] <= entered[v][b]

Queued(t, m) == \E i \in DOMAIN mutexQ[m] : mutexQ[m][i] = t

(* The application's part: nobody goes to sleep in a lock, a condition or a *)
(* barrier with another mutex in hand.                                      *)
OwnersAwake == \A t \in Threads : status[t] = "STALLED" => held[t] = {}

(* A thread that SimMutex::lock has queued gets the mutex in the end, if    *)
(* owners stay awake and unlock, unless the owner has queued up behind      *)
(* itself.                                                                  *)
QueuedGetMutex ==
    []OwnersAwake =>
      \A t \in Threads, m \in Mutexes :
        Queued(t, m) ~> \/ m \in held[t]
                        \/ \E v \in Threads : owner[m] = v /\ Queued(v, m)

(* The invariant of the servers' tables: types, mutual exclusion, barriers. *)
(* Whoever came back from lock, or from a wait on a condition, is the owner *)
(* on record, however the mutex was handed over, and nobody leaves a        *)
(* barrier for the k-th time before everybody has entered it k times.       *)
SyncCorrect == TypeOK /\ HoldersOwn /\ BarrierHolds
=============================================================================
