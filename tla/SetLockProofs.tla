--------------------------- MODULE SetLockProofs ---------------------------
(***************************************************************************)
(* Proofs about SetLock for any number of sharers and of network threads.  *)
(* The inductive invariant says, for every thread and mutex, whether the   *)
(* thread holds the mutex; exclusion between the stack lock and first-     *)
(* level accesses follows because an exclusive holder holds every mutex.   *)
(***************************************************************************)
EXTENDS SetLock, TLAPS

\* Users and the exclusive thread are different threads.
LEMMA ThreadFacts ==
  /\ Users \subseteq Threads
  /\ NetThreads \subseteq Threads
  /\ Users = Locks
  /\ Locks \subseteq Int
  /\ 0 \in Locks
  /\ NoThread \notin Threads
  /\ \A n \in NetThreads : n \notin Users
  BY SetLockAssumption DEF Users, Locks, Threads

\* The loops over m_locks stay inside the vector.
LEMMA NextIndex ==
  ASSUME NEW i \in Locks
  PROVE  i + 1 # NumSharers => i + 1 \in Locks
  BY SetLockAssumption DEF Locks

\* The order of the mutexes, as integers.
LEMMA IndexFacts ==
  ASSUME NEW i \in Locks
  PROVE  /\ i \in Int /\ 0 <= i /\ i < NumSharers
         /\ i + 1 # NumSharers => i + 1 < NumSharers
         /\ \A j \in Locks : j # i => /\ (j < i + 1 <=> j < i)
                                   /\ (j >= i + 1 <=> j >= i)
  BY SetLockAssumption DEF Locks

\* A step of the program counter keeps the counters' types.
LEMMA GotoType ==
  ASSUME TypeOK, NEW t \in Threads, NEW s \in States, NEW i \in Locks,
         Goto(t, s, i)
  PROVE  pc' \in [Threads -> States] /\ pos' \in [Threads -> Locks]
  BY DEF TypeOK, Goto

\* Taking or giving back a mutex keeps the owners' type.
LEMMA MutexType ==
  ASSUME TypeOK, NEW t \in Threads, NEW i \in Locks,
         Lock(t, i) \/ Unlock(i) \/ UNCHANGED owner
  PROVE  owner' \in [Locks -> Threads \cup {NoThread}]
  BY DEF TypeOK, Lock, Unlock

\* Every step keeps the type invariant.
LEMMA TypeStep == TypeOK /\ [Next]_vars => TypeOK'
<1> SUFFICES ASSUME TypeOK, [Next]_vars PROVE TypeOK'
  OBVIOUS
<1>0. /\ "idle" \in States /\ "shared" \in States /\ "acquiring" \in States
      /\ "exclusive" \in States /\ "releasing" \in States
      /\ "releasingToWait" \in States /\ "downgrading" \in States
      /\ "waiting" \in States
      /\ \A t \in Threads : pos[t] \in Locks /\ pc[t] \in States
  BY DEF States, TypeOK
<1> USE ThreadFacts, <1>0
<1>1. ASSUME NEW u \in Users, AcquireShared(u) PROVE TypeOK'
  BY <1>1, GotoType, MutexType DEF AcquireShared, TypeOK
<1>2. ASSUME NEW u \in Users, ReleaseShared(u) PROVE TypeOK'
  BY <1>2, GotoType, MutexType DEF ReleaseShared, TypeOK
<1>3. ASSUME NEW u \in Users, Upgrade(u) PROVE TypeOK'
  BY <1>3, GotoType, MutexType DEF Upgrade, TypeOK
<1>4. ASSUME NEW u \in Users, Downgrade(u) PROVE TypeOK'
  BY <1>4, GotoType, MutexType DEF Downgrade, TypeOK
<1>5. ASSUME NEW u \in Users, DowngradeNext(u) PROVE TypeOK'
  <2>1. pos[u] + 1 # NumSharers => pos[u] + 1 \in Locks
    BY NextIndex
  <2>2. pc' \in [Threads -> States] /\ pos' \in [Threads -> Locks]
    BY <1>5, <2>1, GotoType DEF DowngradeNext
  <2>3. owner' \in [Locks -> Threads \cup {NoThread}]
    BY <1>5, MutexType DEF DowngradeNext
  <2>4. QED
    BY <2>2, <2>3 DEF TypeOK
<1>6. ASSUME NEW t \in Threads, AcquireExclusive(t) PROVE TypeOK'
  BY <1>6, GotoType, MutexType DEF AcquireExclusive, TypeOK
<1>7. ASSUME NEW t \in Threads, AcquireNext(t) PROVE TypeOK'
  <2>1. pos[t] + 1 # NumSharers => pos[t] + 1 \in Locks
    BY NextIndex
  <2>2. pc' \in [Threads -> States] /\ pos' \in [Threads -> Locks]
    BY <1>7, <2>1, GotoType DEF AcquireNext
  <2>3. owner' \in [Locks -> Threads \cup {NoThread}]
    BY <1>7, MutexType DEF AcquireNext
  <2>4. QED
    BY <2>2, <2>3 DEF TypeOK
<1>8. ASSUME NEW t \in Threads, ReleaseExclusive(t) PROVE TypeOK'
  BY <1>8, GotoType, MutexType DEF ReleaseExclusive, TypeOK
<1>9. ASSUME NEW t \in Threads, ReleaseNext(t) PROVE TypeOK'
  <2>1. pos[t] + 1 # NumSharers => pos[t] + 1 \in Locks
    BY NextIndex
  <2>2. AfterRelease(t) \in States
    BY DEF AfterRelease
  <2>3. pc' \in [Threads -> States] /\ pos' \in [Threads -> Locks]
    BY <1>9, <2>1, <2>2, GotoType DEF ReleaseNext
  <2>4. owner' \in [Locks -> Threads \cup {NoThread}]
    BY <1>9, MutexType DEF ReleaseNext
  <2>5. QED
    BY <2>3, <2>4 DEF TypeOK
<1>10. ASSUME NEW n \in NetThreads, NEW u \in Users, PassLock(n, u) PROVE TypeOK'
  BY <1>10 DEF PassLock, TypeOK
<1>11. CASE UNCHANGED vars
  BY <1>11 DEF vars, TypeOK
<1>12. QED
  BY <1>1, <1>2, <1>3, <1>4, <1>5, <1>6, <1>7, <1>8, <1>9, <1>10, <1>11
     DEF Next, UserStep, AnyStep

\* The set lock's variables keep their types, and the loops over m_locks
\* never leave the vector.
THEOREM TypeCorrect == Spec => []TypeOK
<1>1. Init => TypeOK
  BY ThreadFacts DEF Init, TypeOK, States
<1>2. QED
  BY <1>1, TypeStep, PTL DEF Spec

-----------------------------------------------------------------------------
IInv == TypeOK /\ SharedModeIsUsers /\ MutexesMatchCode

\* What Goto changes, thread by thread.
LEMMA GotoEffect ==
  ASSUME TypeOK, NEW t \in Threads, NEW state, NEW index, Goto(t, state, index)
  PROVE  /\ pc'[t] = state /\ pos'[t] = index
         /\ \A s \in Threads \ {t} : pc'[s] = pc[s] /\ pos'[s] = pos[s]
  BY DEF TypeOK, Goto

\* What Lock changes, mutex by mutex.
LEMMA LockEffect ==
  ASSUME TypeOK, NEW t \in Threads, NEW j \in Locks, Lock(t, j)
  PROVE  /\ owner[j] = NoThread /\ owner'[j] = t
         /\ \A i \in Locks \ {j} : owner'[i] = owner[i]
  BY DEF TypeOK, Lock

\* What Unlock changes, mutex by mutex.
LEMMA UnlockEffect ==
  ASSUME TypeOK, NEW j \in Locks, Unlock(j)
  PROVE  /\ owner'[j] = NoThread
         /\ \A i \in Locks \ {j} : owner'[i] = owner[i]
  BY DEF TypeOK, Unlock

\* IInv is preserved: the mutex a step takes or gives back is the one by
\* which the step moves the thread's position.
LEMMA InvariantStep == IInv /\ [Next]_vars => IInv'
<1> SUFFICES ASSUME IInv, [Next]_vars
             PROVE  SharedModeIsUsers' /\ MutexesMatchCode'
  BY TypeStep DEF IInv
<1>0. /\ TypeOK /\ NumSharers \in Int
      /\ \A t \in Threads : pos[t] \in Locks
      /\ \A i \in Locks : i \in Int /\ 0 <= i /\ i < NumSharers
      /\ \A t \in Threads, i \in Locks : (owner[i] = t) <=> Holds(t, i)
  BY SetLockAssumption DEF IInv, TypeOK, MutexesMatchCode, Locks
<1> USE ThreadFacts, <1>0 DEF IInv
<1>1. ASSUME NEW u \in Users, AcquireShared(u)
      PROVE  SharedModeIsUsers' /\ MutexesMatchCode'
  <2>1. SharedModeIsUsers'
    BY <1>1, GotoEffect DEF AcquireShared, SharedModeIsUsers
  <2>2. ASSUME NEW s \in Threads \ {u}, NEW i \in Locks
        PROVE  (owner'[i] = s) <=> Holds(s, i)'
    BY <1>1, <2>2, GotoEffect, LockEffect DEF AcquireShared, Holds
  <2>3. ASSUME NEW i \in Locks
        PROVE  (owner'[i] = u) <=> Holds(u, i)'
    BY <1>1, <2>3, GotoEffect, LockEffect DEF AcquireShared, Holds
  <2>4. QED
    BY <2>1, <2>2, <2>3 DEF MutexesMatchCode
<1>2. ASSUME NEW u \in Users, ReleaseShared(u)
      PROVE  SharedModeIsUsers' /\ MutexesMatchCode'
  <2>1. SharedModeIsUsers'
    BY <1>2, GotoEffect DEF ReleaseShared, SharedModeIsUsers
  <2>2. ASSUME NEW s \in Threads \ {u}, NEW i \in Locks
        PROVE  (owner'[i] = s) <=> Holds(s, i)'
    BY <1>2, <2>2, GotoEffect, UnlockEffect DEF ReleaseShared, Holds
  <2>3. ASSUME NEW i \in Locks
        PROVE  (owner'[i] = u) <=> Holds(u, i)'
    BY <1>2, <2>3, GotoEffect, UnlockEffect DEF ReleaseShared, Holds
  <2>4. QED
    BY <2>1, <2>2, <2>3 DEF MutexesMatchCode
<1>3. ASSUME NEW u \in Users, Upgrade(u)
      PROVE  SharedModeIsUsers' /\ MutexesMatchCode'
  <2>1. SharedModeIsUsers'
    BY <1>3, GotoEffect DEF Upgrade, SharedModeIsUsers
  <2>2. ASSUME NEW s \in Threads \ {u}, NEW i \in Locks
        PROVE  (owner'[i] = s) <=> Holds(s, i)'
    BY <1>3, <2>2, GotoEffect, UnlockEffect DEF Upgrade, Holds
  <2>3. ASSUME NEW i \in Locks
        PROVE  (owner'[i] = u) <=> Holds(u, i)'
    BY <1>3, <2>3, GotoEffect, UnlockEffect DEF Upgrade, Holds
  <2>4. QED
    BY <2>1, <2>2, <2>3 DEF MutexesMatchCode
<1>4. ASSUME NEW u \in Users, Downgrade(u)
      PROVE  SharedModeIsUsers' /\ MutexesMatchCode'
  <2>1. SharedModeIsUsers'
    BY <1>4, GotoEffect DEF Downgrade, SharedModeIsUsers
  <2>2. ASSUME NEW s \in Threads \ {u}, NEW i \in Locks
        PROVE  (owner'[i] = s) <=> Holds(s, i)'
    BY <1>4, <2>2, GotoEffect DEF Downgrade, Holds
  <2>3. ASSUME NEW i \in Locks
        PROVE  (owner'[i] = u) <=> Holds(u, i)'
    BY <1>4, <2>3, GotoEffect DEF Downgrade, Holds
  <2>4. QED
    BY <2>1, <2>2, <2>3 DEF MutexesMatchCode
<1>5. ASSUME NEW u \in Users, DowngradeNext(u)
      PROVE  SharedModeIsUsers' /\ MutexesMatchCode'
  <2>1. SharedModeIsUsers'
    BY <1>5, GotoEffect DEF DowngradeNext, SharedModeIsUsers
  <2>0. /\ pos[u] \in Locks /\ pos[u] \in Int /\ u \in Threads
        /\ pos[u] + 1 # NumSharers => pos[u] + 1 < NumSharers
    BY IndexFacts
  <2>2. /\ \A s \in Threads \ {u} : pc'[s] = pc[s] /\ pos'[s] = pos[s]
        /\ \/ pos[u] + 1 = NumSharers /\ pc'[u] = "shared" /\ pos'[u] = 0
           \/ pos[u] + 1 < NumSharers /\ pc'[u] = pc[u] /\ pos'[u] = pos[u] + 1
    <3>1. CASE pos[u] + 1 = NumSharers
      BY <1>5, <2>0, <3>1, GotoEffect DEF DowngradeNext
    <3>2. CASE pos[u] + 1 # NumSharers
      BY <1>5, <2>0, <3>2, GotoEffect DEF DowngradeNext
    <3>3. QED
      BY <3>1, <3>2
  <2>3. /\ owner'[pos[u]] = IF pos[u] = u THEN owner[u] ELSE NoThread
        /\ \A i \in Locks \ {pos[u]} : owner'[i] = owner[i]
    BY <1>5, UnlockEffect DEF DowngradeNext
  <2>4. pc[u] = "downgrading"
    BY <1>5 DEF DowngradeNext
  <2>5. owner[pos[u]] = u
    <3>1. (owner[pos[u]] = u) <=> Holds(u, pos[u])
      BY <2>0
    <3>2. Holds(u, pos[u])
      BY <2>0, <2>4 DEF Holds
    <3>3. QED
      BY <3>1, <3>2
  <2>6. ASSUME NEW s \in Threads \ {u}, NEW i \in Locks
        PROVE  (owner'[i] = s) <=> Holds(s, i)'
    <3>1. (owner'[i] = s) <=> (owner[i] = s)
      BY <2>3, <2>5
    <3>2. Holds(s, i)' <=> Holds(s, i)
      BY <2>2 DEF Holds
    <3>3. QED
      BY <3>1, <3>2
  <2>7. ASSUME NEW i \in Locks
        PROVE  (owner'[i] = u) <=> Holds(u, i)'
    <3>1. CASE i = pos[u]
      BY <2>2, <2>3, <2>4, <2>5, <3>1 DEF Holds, AfterRelease
    <3>2. CASE i # pos[u]
      <4>1. owner'[i] = u <=> Holds(u, i)
        BY <2>3, <3>2
      <4>2. /\ i < NumSharers /\ i \in Int
            /\ (i < pos[u] + 1 <=> i < pos[u]) /\ (i >= pos[u] + 1 <=> i >= pos[u])
        BY <2>0, <3>2, IndexFacts
      <4>3. Holds(u, i)' <=> Holds(u, i)
        <5>1. CASE pos[u] + 1 = NumSharers
          BY <2>0, <2>2, <2>4, <3>2, <4>2, <5>1 DEF Holds, AfterRelease
        <5>2. CASE pos[u] + 1 # NumSharers
          BY <2>0, <2>2, <2>4, <3>2, <4>2, <5>2 DEF Holds, AfterRelease
        <5>3. QED
          BY <5>1, <5>2
      <4>4. QED
        BY <4>1, <4>3
    <3>3. QED
      BY <3>1, <3>2
  <2>8. QED
    BY <2>1, <2>6, <2>7 DEF MutexesMatchCode
<1>6. ASSUME NEW t \in Threads, AcquireExclusive(t)
      PROVE  SharedModeIsUsers' /\ MutexesMatchCode'
  <2>1. SharedModeIsUsers'
    BY <1>6, GotoEffect DEF AcquireExclusive, SharedModeIsUsers
  <2>2. ASSUME NEW s \in Threads \ {t}, NEW i \in Locks
        PROVE  (owner'[i] = s) <=> Holds(s, i)'
    BY <1>6, <2>2, GotoEffect DEF AcquireExclusive, Holds
  <2>3. ASSUME NEW i \in Locks
        PROVE  (owner'[i] = t) <=> Holds(t, i)'
    BY <1>6, <2>3, GotoEffect DEF AcquireExclusive, Holds
  <2>4. QED
    BY <2>1, <2>2, <2>3 DEF MutexesMatchCode
<1>7. ASSUME NEW t \in Threads, AcquireNext(t)
      PROVE  SharedModeIsUsers' /\ MutexesMatchCode'
  <2>1. SharedModeIsUsers'
    BY <1>7, GotoEffect DEF AcquireNext, SharedModeIsUsers
  <2>0. /\ pos[t] \in Locks /\ pos[t] \in Int /\ t \in Threads
        /\ pos[t] + 1 # NumSharers => pos[t] + 1 < NumSharers
    BY IndexFacts
  <2>2. /\ \A s \in Threads \ {t} : pc'[s] = pc[s] /\ pos'[s] = pos[s]
        /\ \/ pos[t] + 1 = NumSharers /\ pc'[t] = "exclusive" /\ pos'[t] = 0
           \/ pos[t] + 1 < NumSharers /\ pc'[t] = pc[t] /\ pos'[t] = pos[t] + 1
    <3>1. CASE pos[t] + 1 = NumSharers
      BY <1>7, <2>0, <3>1, GotoEffect DEF AcquireNext
    <3>2. CASE pos[t] + 1 # NumSharers
      BY <1>7, <2>0, <3>2, GotoEffect DEF AcquireNext
    <3>3. QED
      BY <3>1, <3>2
  <2>3. /\ owner[pos[t]] = NoThread /\ owner'[pos[t]] = t
        /\ \A i \in Locks \ {pos[t]} : owner'[i] = owner[i]
    BY <1>7, LockEffect DEF AcquireNext
  <2>4. pc[t] = "acquiring"
    BY <1>7 DEF AcquireNext
  <2>5. owner[pos[t]] = NoThread
    BY <2>3 DEF Holds
  <2>6. ASSUME NEW s \in Threads \ {t}, NEW i \in Locks
        PROVE  (owner'[i] = s) <=> Holds(s, i)'
    <3>1. (owner'[i] = s) <=> (owner[i] = s)
      BY <2>3, <2>5
    <3>2. Holds(s, i)' <=> Holds(s, i)
      BY <2>2 DEF Holds
    <3>3. QED
      BY <3>1, <3>2
  <2>7. ASSUME NEW i \in Locks
        PROVE  (owner'[i] = t) <=> Holds(t, i)'
    <3>1. CASE i = pos[t]
      BY <2>2, <2>3, <2>4, <2>5, <3>1 DEF Holds, AfterRelease
    <3>2. CASE i # pos[t]
      <4>1. owner'[i] = t <=> Holds(t, i)
        BY <2>3, <3>2
      <4>2. /\ i < NumSharers /\ i \in Int
            /\ (i < pos[t] + 1 <=> i < pos[t]) /\ (i >= pos[t] + 1 <=> i >= pos[t])
        BY <2>0, <3>2, IndexFacts
      <4>3. Holds(t, i)' <=> Holds(t, i)
        <5>1. CASE pos[t] + 1 = NumSharers
          BY <2>0, <2>2, <2>4, <3>2, <4>2, <5>1 DEF Holds, AfterRelease
        <5>2. CASE pos[t] + 1 # NumSharers
          BY <2>0, <2>2, <2>4, <3>2, <4>2, <5>2 DEF Holds, AfterRelease
        <5>3. QED
          BY <5>1, <5>2
      <4>4. QED
        BY <4>1, <4>3
    <3>3. QED
      BY <3>1, <3>2
  <2>8. QED
    BY <2>1, <2>6, <2>7 DEF MutexesMatchCode
<1>8. ASSUME NEW t \in Threads, ReleaseExclusive(t)
      PROVE  SharedModeIsUsers' /\ MutexesMatchCode'
  <2>1. SharedModeIsUsers'
    BY <1>8, GotoEffect DEF ReleaseExclusive, SharedModeIsUsers
  <2>2. ASSUME NEW s \in Threads \ {t}, NEW i \in Locks
        PROVE  (owner'[i] = s) <=> Holds(s, i)'
    BY <1>8, <2>2, GotoEffect DEF ReleaseExclusive, Holds
  <2>3. ASSUME NEW i \in Locks
        PROVE  (owner'[i] = t) <=> Holds(t, i)'
    BY <1>8, <2>3, GotoEffect DEF ReleaseExclusive, Holds
  <2>4. QED
    BY <2>1, <2>2, <2>3 DEF MutexesMatchCode
<1>9. ASSUME NEW t \in Threads, ReleaseNext(t)
      PROVE  SharedModeIsUsers' /\ MutexesMatchCode'
  <2>1. SharedModeIsUsers'
    BY <1>9, GotoEffect DEF ReleaseNext, AfterRelease, SharedModeIsUsers
  <2>0. /\ pos[t] \in Locks /\ pos[t] \in Int /\ t \in Threads
        /\ pos[t] + 1 # NumSharers => pos[t] + 1 < NumSharers
    BY IndexFacts
  <2>2. /\ \A s \in Threads \ {t} : pc'[s] = pc[s] /\ pos'[s] = pos[s]
        /\ \/ pos[t] + 1 = NumSharers /\ pc'[t] = AfterRelease(t) /\ pos'[t] = 0
           \/ pos[t] + 1 < NumSharers /\ pc'[t] = pc[t] /\ pos'[t] = pos[t] + 1
    <3>1. CASE pos[t] + 1 = NumSharers
      BY <1>9, <2>0, <3>1, GotoEffect DEF ReleaseNext
    <3>2. CASE pos[t] + 1 # NumSharers
      BY <1>9, <2>0, <3>2, GotoEffect DEF ReleaseNext
    <3>3. QED
      BY <3>1, <3>2
  <2>3. /\ owner'[pos[t]] = NoThread
        /\ \A i \in Locks \ {pos[t]} : owner'[i] = owner[i]
    BY <1>9, UnlockEffect DEF ReleaseNext
  <2>4. pc[t] \in {"releasing", "releasingToWait"}
    BY <1>9 DEF ReleaseNext
  <2>5. owner[pos[t]] = t
    <3>1. (owner[pos[t]] = t) <=> Holds(t, pos[t])
      BY <2>0
    <3>2. Holds(t, pos[t])
      BY <2>0, <2>4 DEF Holds
    <3>3. QED
      BY <3>1, <3>2
  <2>6. ASSUME NEW s \in Threads \ {t}, NEW i \in Locks
        PROVE  (owner'[i] = s) <=> Holds(s, i)'
    <3>1. (owner'[i] = s) <=> (owner[i] = s)
      BY <2>3, <2>5
    <3>2. Holds(s, i)' <=> Holds(s, i)
      BY <2>2 DEF Holds
    <3>3. QED
      BY <3>1, <3>2
  <2>7. ASSUME NEW i \in Locks
        PROVE  (owner'[i] = t) <=> Holds(t, i)'
    <3>1. CASE i = pos[t]
      BY <2>2, <2>3, <2>4, <2>5, <3>1 DEF Holds, AfterRelease
    <3>2. CASE i # pos[t]
      <4>1. owner'[i] = t <=> Holds(t, i)
        BY <2>3, <3>2
      <4>2. /\ i < NumSharers /\ i \in Int
            /\ (i < pos[t] + 1 <=> i < pos[t]) /\ (i >= pos[t] + 1 <=> i >= pos[t])
        BY <2>0, <3>2, IndexFacts
      <4>3. Holds(t, i)' <=> Holds(t, i)
        <5>1. CASE pos[t] + 1 = NumSharers
          BY <2>0, <2>2, <2>4, <3>2, <4>2, <5>1 DEF Holds, AfterRelease
        <5>2. CASE pos[t] + 1 # NumSharers
          BY <2>0, <2>2, <2>4, <3>2, <4>2, <5>2 DEF Holds, AfterRelease
        <5>3. QED
          BY <5>1, <5>2
      <4>4. QED
        BY <4>1, <4>3
    <3>3. QED
      BY <3>1, <3>2
  <2>8. QED
    BY <2>1, <2>6, <2>7 DEF MutexesMatchCode
<1>10. ASSUME NEW n \in NetThreads, NEW u \in Users, PassLock(n, u)
      PROVE  SharedModeIsUsers' /\ MutexesMatchCode'
  <2>1. SharedModeIsUsers'
    BY <1>10 DEF PassLock, TypeOK, SharedModeIsUsers
  <2>2. ASSUME NEW s \in Threads, NEW i \in Locks
        PROVE  (owner'[i] = s) <=> Holds(s, i)'
    BY <1>10, <2>2 DEF PassLock, TypeOK, Holds
  <2>3. QED
    BY <2>1, <2>2 DEF MutexesMatchCode
<1>11. CASE UNCHANGED vars
  BY <1>11 DEF vars, SharedModeIsUsers, MutexesMatchCode, Holds
<1>12. QED
  BY <1>1, <1>2, <1>3, <1>4, <1>5, <1>6, <1>7, <1>8, <1>9, <1>10, <1>11
     DEF Next, UserStep, AnyStep

\* An exclusive holder holds every mutex, so it excludes both kinds of holder.
LEMMA InvariantExcludes == IInv => StackExclusion
<1> SUFFICES ASSUME IInv, NEW t \in Writers, NEW s \in Threads, s # t
             PROVE  s \notin Readers /\ s \notin Writers
  BY ThreadFacts DEF StackExclusion, Readers, Writers
<1>1. \A i \in Locks : owner[i] = t
  BY DEF IInv, MutexesMatchCode, Writers, Holds
<1>2. \A i \in Locks : ~Holds(s, i)
  BY <1>1 DEF IInv, MutexesMatchCode
<1>3. s \notin Writers
  BY <1>2, ThreadFacts DEF Writers, Holds
<1>4. ASSUME s \in Readers PROVE FALSE
  <2>1. s \in Locks
    BY <1>4, ThreadFacts DEF Readers, IInv, SharedModeIsUsers
  <2>2. Holds(s, s)
    BY <1>4, <2>1 DEF Readers, Holds
  <2>3. QED
    BY <1>2, <2>1, <2>2
<1>5. QED
  BY <1>3, <1>4

\* No mutex is held when the lock is built.
LEMMA InitialInvariant == Init => IInv
<1> SUFFICES ASSUME Init PROVE IInv
  OBVIOUS
<1>1. TypeOK
  BY ThreadFacts DEF Init, TypeOK, States
<1>2. SharedModeIsUsers /\ MutexesMatchCode
  BY ThreadFacts DEF Init, SharedModeIsUsers, MutexesMatchCode, Holds
<1>3. QED
  BY <1>1, <1>2 DEF IInv

\* Every reachable state agrees with the code about who holds which mutex.
THEOREM MutexesCorrect == Spec => []MutexesMatchCode
<1>1. IInv => MutexesMatchCode
  BY DEF IInv
<1>2. QED
  BY <1>1, InitialInvariant, InvariantStep, PTL DEF Spec

\* The stack lock excludes first-level accesses of every core below the
\* cache and every other holder of the stack lock.
THEOREM Exclusion == Spec => []StackExclusion
  BY InitialInvariant, InvariantStep, InvariantExcludes, PTL DEF Spec

\* Threads inside acquire_exclusive only wait for threads further along.
THEOREM NoDeadlockInAcquire == Spec => []WaitsUpward
<1>1. IInv => WaitsUpward
  <2> SUFFICES ASSUME IInv, NEW t \in Threads, NEW s \in Threads,
                      pc[s] = "acquiring", owner[pos[t]] = s
               PROVE  pos[t] < pos[s]
    BY DEF WaitsUpward
  <2>1. pos[t] \in Locks
    BY DEF IInv, TypeOK
  <2>2. Holds(s, pos[t])
    BY <2>1 DEF IInv, MutexesMatchCode
  <2>3. QED
    BY <2>2 DEF Holds
<1>2. QED
  BY <1>1, InitialInvariant, InvariantStep, PTL DEF Spec
-----------------------------------------------------------------------------
\* The sets of the refinement mapping, after a step that only moves t.
LEMMA MoveEffect ==
  ASSUME TypeOK, NEW t \in Threads, NEW state, NEW index, Goto(t, state, index)
  PROVE  /\ Readers' = IF state \in {"shared", "downgrading"}
                       THEN Readers \cup {t} ELSE Readers \ {t}
         /\ Writers' = IF state = "exclusive" THEN Writers \cup {t} ELSE Writers \ {t}
<1>1. /\ pc'[t] = state
      /\ \A s \in Threads \ {t} : pc'[s] = pc[s]
  BY GotoEffect
<1>2. QED
  BY <1>1 DEF Readers, Writers

\* Every step of the vector of mutexes is a step of the lock it implements,
\* or changes nothing that lock shows.
LEMMA RefinementStep ==
  IInv /\ IInv' /\ [Next]_vars => [RW!Next]_(RW!vars)
<1> SUFFICES ASSUME IInv, IInv', [Next]_vars
             PROVE  RW!Next \/ UNCHANGED RW!vars
  OBVIOUS
<1>a. StackExclusion /\ StackExclusion'
  BY InvariantExcludes, PTL
<1>b. TypeOK /\ Readers \subseteq Threads /\ Writers \subseteq Threads
  BY DEF IInv, Readers, Writers
<1> USE ThreadFacts, <1>a, <1>b
<1>1. ASSUME NEW u \in Users, AcquireShared(u) PROVE RW!StartRead(u)
  <2>1. u \notin Readers /\ u \notin Writers
    BY <1>1 DEF AcquireShared, Readers, Writers
  <2>2. Readers' = Readers \cup {u} /\ Writers' = Writers
    BY <1>1, <2>1, MoveEffect DEF AcquireShared
  <2>3. Writers = {}
    BY <2>2 DEF StackExclusion
  <2>4. QED
    BY <2>1, <2>2, <2>3 DEF RW!StartRead
<1>2. ASSUME NEW u \in Users, ReleaseShared(u) \/ Upgrade(u) PROVE RW!EndRead(u)
  <2>1. u \in Readers /\ u \notin Writers
    BY <1>2 DEF ReleaseShared, Upgrade, Readers, Writers
  <2>2. Readers' = Readers \ {u} /\ Writers' = Writers
    BY <1>2, <2>1, MoveEffect DEF ReleaseShared, Upgrade
  <2>3. QED
    BY <2>1, <2>2 DEF RW!EndRead
<1>3. ASSUME NEW u \in Users, Downgrade(u) PROVE RW!Downgrade(u)
  <2>1. u \in Writers
    BY <1>3 DEF Downgrade, Writers
  <2>2. Readers = {} /\ Writers = {u}
    BY <2>1 DEF StackExclusion
  <2>3. Readers' = Readers \cup {u} /\ Writers' = Writers \ {u}
    BY <1>3, MoveEffect DEF Downgrade
  <2>4. QED
    BY <2>2, <2>3 DEF RW!Downgrade
<1>4. ASSUME NEW u \in Users, DowngradeNext(u) PROVE UNCHANGED RW!vars
  <2>1. u \in Readers /\ u \notin Writers
    BY <1>4 DEF DowngradeNext, Readers, Writers
  <2>2. Readers' = Readers \cup {u} /\ Writers' = Writers \ {u}
    BY <1>4, MoveEffect DEF DowngradeNext
  <2>3. QED
    BY <2>1, <2>2 DEF RW!vars
<1>5. ASSUME NEW t \in Threads, AcquireExclusive(t) \/ ReleaseNext(t)
      PROVE  UNCHANGED RW!vars
  <2>1. t \notin Readers /\ t \notin Writers
    BY <1>5 DEF AcquireExclusive, ReleaseNext, Readers, Writers
  <2>2. Readers' = Readers \ {t} /\ Writers' = Writers \ {t}
    BY <1>5, MoveEffect DEF AcquireExclusive, ReleaseNext, AfterRelease
  <2>3. QED
    BY <2>1, <2>2 DEF RW!vars
<1>6. ASSUME NEW t \in Threads, AcquireNext(t)
      PROVE  RW!StartWrite(t) \/ UNCHANGED RW!vars
  <2>1. t \notin Readers /\ t \notin Writers
    BY <1>6 DEF AcquireNext, Readers, Writers
  <2>2. CASE pos[t] + 1 = NumSharers
    <3>1. Readers' = Readers /\ Writers' = Writers \cup {t}
      BY <1>6, <2>1, <2>2, MoveEffect DEF AcquireNext
    <3>2. Readers' = {} /\ Writers' = {t}
      BY <3>1 DEF StackExclusion
    <3>3. QED
      BY <2>1, <3>1, <3>2 DEF RW!StartWrite
  <2>3. CASE pos[t] + 1 # NumSharers
    <3>1. Readers' = Readers \ {t} /\ Writers' = Writers \ {t}
      BY <1>6, <2>3, MoveEffect DEF AcquireNext
    <3>2. QED
      BY <2>1, <3>1 DEF RW!vars
  <2>4. QED
    BY <2>2, <2>3
<1>7. ASSUME NEW t \in Threads, ReleaseExclusive(t) PROVE RW!EndWrite(t)
  <2>1. t \in Writers
    BY <1>7 DEF ReleaseExclusive, Writers
  <2>2. Readers = {} /\ Writers = {t}
    BY <2>1 DEF StackExclusion
  <2>3. Readers' = Readers \ {t} /\ Writers' = Writers \ {t}
    BY <1>7, MoveEffect DEF ReleaseExclusive
  <2>4. QED
    BY <2>2, <2>3 DEF RW!EndWrite
<1>8. ASSUME NEW n \in NetThreads, NEW u \in Users, PassLock(n, u)
      PROVE  RW!Pass(n, u)
  <2>1. n \in Writers
    BY <1>8 DEF PassLock, Writers
  <2>2. Readers = {} /\ Writers = {n}
    BY <2>1 DEF StackExclusion
  <2>3. u \in Writers'
    BY <1>8 DEF PassLock, TypeOK, Writers
  <2>4. Readers' = {} /\ Writers' = {u}
    BY <2>3 DEF StackExclusion
  <2>5. QED
    BY <2>2, <2>4 DEF RW!Pass
<1>9. CASE UNCHANGED vars
  BY <1>9 DEF vars, RW!vars, Readers, Writers
<1>10. QED
  BY <1>1, <1>2, <1>3, <1>4, <1>5, <1>6, <1>7, <1>8, <1>9
     DEF Next, UserStep, AnyStep, RW!Next

\* The vector of mutexes implements the readers/writer lock the cache
\* controllers rely on, for any number of cores.
THEOREM Refinement == Spec => ImplementsReadersWriter
<1>1. Init => RW!Init
  BY DEF Init, RW!Init, Readers, Writers
<1>2. QED
  BY <1>1, InitialInvariant, InvariantStep, RefinementStep, PTL
     DEF Spec, ImplementsReadersWriter, RW!Spec
=============================================================================
