------------------------------ MODULE SetLock ------------------------------
(***************************************************************************)
(* common/misc/setlock.cc: the shared/exclusive lock of one set of the     *)
(* last-level cache, and how CacheCntlr uses it (acquireLock, releaseLock, *)
(* acquireStackLock, releaseStackLock, and the lock that a network thread  *)
(* passes on to a waiting user thread).                                    *)
(*                                                                         *)
(* The lock is a vector of mutexes, one per core that shares the cache.  A *)
(* shared acquire takes the core's own mutex; an exclusive acquire takes   *)
(* all of them one by one in index order, so every step of the loops is a  *)
(* step of its own here.                                                   *)
(***************************************************************************)
EXTENDS Integers

CONSTANTS NumSharers,    \* cores below this cache: m_locks.size()
          NetThreads,    \* network threads (one per core on the host)
          NoThread       \* value of a free mutex

Users   == 0 .. NumSharers - 1        \* user thread of core m_core_offset + i
Locks   == 0 .. NumSharers - 1
Threads == Users \cup NetThreads

ASSUME SetLockAssumption ==
  /\ NumSharers \in Nat \ {0}
  /\ NetThreads \cap Int = {}
  /\ NoThread \notin Threads

VARIABLES owner,   \* owner[i]: the thread that has mutex i locked
          pc,      \* what each thread is doing with the lock
          pos      \* index of each thread's loop over m_locks

vars == <<owner, pc, pos>>

States == {"idle", "shared", "acquiring", "exclusive", "releasing",
           "releasingToWait", "downgrading", "waiting"}

\* The type invariant; in particular no loop over m_locks leaves the vector.
TypeOK == /\ owner \in [Locks -> Threads \cup {NoThread}]
          /\ pc \in [Threads -> States]
          /\ pos \in [Threads -> Locks]

Init == /\ owner = [i \in Locks |-> NoThread]
        /\ pc = [t \in Threads |-> "idle"]
        /\ pos = [t \in Threads |-> 0]

Goto(t, state, index) == /\ pc' = [pc EXCEPT ![t] = state]
                         /\ pos' = [pos EXCEPT ![t] = index]

Lock(t, i) == /\ owner[i] = NoThread
              /\ owner' = [owner EXCEPT ![i] = t]

Unlock(i) == owner' = [owner EXCEPT ![i] = NoThread]

AcquireShared(u) == /\ pc[u] = "idle"
                    /\ Lock(u, u)
                    /\ Goto(u, "shared", 0)

ReleaseShared(u) == /\ pc[u] = "shared"
                    /\ Unlock(u)
                    /\ Goto(u, "idle", 0)

\* Mutant: the upgrade keeps the core's own mutex while it takes the others.
UpgradeKeepsMutex(u) == /\ pc[u] = "shared"
                        /\ Goto(u, "acquiring", 0)
                        /\ UNCHANGED owner

\* Upgrade gives the shared mutex back before it starts on the vector.
Upgrade(u) == /\ pc[u] = "shared"
              /\ Unlock(u)
              /\ Goto(u, "acquiring", 0)

AcquireExclusive(t) == /\ pc[t] = "idle"
                       /\ Goto(t, "acquiring", 0)
                       /\ UNCHANGED owner

\* Mutant: the loop ends one mutex early.
AcquireAllButLast(t) ==
  /\ pc[t] = "acquiring"
  /\ Lock(t, pos[t])
  /\ IF pos[t] + 2 >= NumSharers THEN Goto(t, "exclusive", 0)
                                 ELSE Goto(t, "acquiring", pos[t] + 1)

\* Mutant: the loop runs one past the end of the vector.
AcquireOneTooMany(t) ==
  /\ pc[t] = "acquiring"
  /\ IF pos[t] \in Locks THEN Lock(t, pos[t]) ELSE UNCHANGED owner
  /\ IF pos[t] = NumSharers THEN Goto(t, "exclusive", 0)
                            ELSE Goto(t, "acquiring", pos[t] + 1)

AcquireNext(t) ==
  /\ pc[t] = "acquiring"
  /\ Lock(t, pos[t])
  /\ IF pos[t] + 1 = NumSharers THEN Goto(t, "exclusive", 0)
                                ELSE Goto(t, "acquiring", pos[t] + 1)

\* releaseStackLock(address); a user thread that missed in the last level
\* then waits for its network thread.
ReleaseExclusive(t) == /\ pc[t] = "exclusive"
                       /\ \/ Goto(t, "releasing", 0)
                          \/ t \in Users /\ Goto(t, "releasingToWait", 0)
                       /\ UNCHANGED owner

AfterRelease(t) == IF pc[t] = "releasing" THEN "idle" ELSE "waiting"

ReleaseNext(t) ==
  /\ pc[t] \in {"releasing", "releasingToWait"}
  /\ Unlock(pos[t])
  /\ IF pos[t] + 1 = NumSharers THEN Goto(t, AfterRelease(t), 0)
                                ELSE Goto(t, pc[t], pos[t] + 1)

Downgrade(u) == /\ pc[u] = "exclusive"
                /\ Goto(u, "downgrading", 0)
                /\ UNCHANGED owner

\* Mutant: the loop also releases the core's own mutex.
DowngradeReleasesAll(u) ==
  /\ pc[u] = "downgrading"
  /\ Unlock(pos[u])
  /\ IF pos[u] + 1 = NumSharers THEN Goto(u, "shared", 0)
                                ELSE Goto(u, "downgrading", pos[u] + 1)

\* The loop skips the core's own mutex.
DowngradeNext(u) ==
  /\ pc[u] = "downgrading"
  /\ IF pos[u] = u THEN UNCHANGED owner ELSE Unlock(pos[u])
  /\ IF pos[u] + 1 = NumSharers THEN Goto(u, "shared", 0)
                                ELSE Goto(u, "downgrading", pos[u] + 1)

\* The network thread wakes a waiting user thread and leaves all mutexes
\* locked for it; when that thread has signalled back it queues up for the
\* stack lock again.
PassLock(n, u) ==
  /\ pc[n] = "exclusive"
  /\ pc[u] = "waiting"
  /\ owner' = [i \in Locks |-> u]
  /\ pc' = [pc EXCEPT ![u] = "exclusive", ![n] = "acquiring"]
  /\ pos' = [pos EXCEPT ![n] = 0]

UserStep(u) == \/ AcquireShared(u) \/ ReleaseShared(u) \/ Upgrade(u)
               \/ Downgrade(u) \/ DowngradeNext(u)

AnyStep(t) == \/ AcquireExclusive(t) \/ AcquireNext(t)
              \/ ReleaseExclusive(t) \/ ReleaseNext(t)

Next == \/ \E u \in Users : UserStep(u)
        \/ \E t \in Threads : AnyStep(t)
        \/ \E n \in NetThreads, u \in Users : PassLock(n, u)

Spec == Init /\ [][Next]_vars
-----------------------------------------------------------------------------
\* The threads that read under the lock, and the ones that write under it.
Readers == {t \in Threads : pc[t] \in {"shared", "downgrading"}}
Writers == {t \in Threads : pc[t] = "exclusive"}

\* Whether t must hold mutex i at its point of the code.
Holds(t, i) ==
  \/ pc[t] = "shared" /\ i = t
  \/ pc[t] = "acquiring" /\ i < pos[t]
  \/ pc[t] = "exclusive"
  \/ pc[t] \in {"releasing", "releasingToWait"} /\ i >= pos[t]
  \/ pc[t] = "downgrading" /\ (i >= pos[t] \/ i = t)

\* A mutex is locked by t exactly when t's position in the code says so:
\* no thread unlocks a mutex it does not hold, and none is leaked.
MutexesMatchCode ==
  \A t \in Threads, i \in Locks : (owner[i] = t) <=> Holds(t, i)

\* Only user threads hold the lock in shared mode or wait to be handed it.
SharedModeIsUsers ==
  \A t \in Threads :
     pc[t] \in {"shared", "downgrading", "waiting", "releasingToWait"} => t \in Users

\* "Other levels, or the first level on miss, acquire the lock in exclusive
\* mode which locks out both L1-only and L2+ transactions."
StackExclusion ==
  \A t \in Writers : Readers = {} /\ Writers = {t}

\* acquire_exclusive takes the mutexes in index order, so a thread inside it
\* only ever waits for a thread that is further along: no cycle of waits.
WaitsUpward ==
  \A t, s \in Threads :
     /\ pc[t] = "acquiring" /\ pc[s] = "acquiring"
     /\ owner[pos[t]] = s
     => pos[t] < pos[s]

RW == INSTANCE ReadersWriter WITH readers <- Readers, writers <- Writers

\* The vector of mutexes implements the readers/writer lock.
ImplementsReadersWriter == RW!Spec
=============================================================================
