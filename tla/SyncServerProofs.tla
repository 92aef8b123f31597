-------------------------- MODULE SyncServerProofs --------------------------
(***************************************************************************)
(* Proofs about SyncServer for any threads, mutexes, conditions and        *)
(* barriers.  SyncInv says where every thread is: which queue a stalled    *)
(* thread waits in, what a thread that was resumed but has not returned    *)
(* yet has been given, and how many rounds of a barrier each thread has    *)
(* been through.                                                           *)
(***************************************************************************)
EXTENDS SyncServer, ThreadStallProofs

\* Whoever is in a queue is stalled in the call that put it there, and
\* whoever is stalled is in a queue.
Located ==
    /\ \A t \in Threads, m \in Mutexes : In(mutexQ[m], t) =>
          status[t] = "STALLED" /\ doing[t] = Locking(m)
    /\ \A t \in Threads, m \in Mutexes, c \in Conds : In(condQ[c], <<t, m>>) =>
          status[t] = "STALLED" /\ doing[t] = Locking(m)
    /\ \A t \in Threads, b \in Barriers : In(barrierQ[b], t) =>
          status[t] = "STALLED" /\ doing[t] = Blocking(b)
    /\ \A t \in Threads : status[t] = "STALLED" =>
          \/ \E m \in Mutexes : In(mutexQ[m], t)
          \/ \E c \in Conds, m \in Mutexes : In(condQ[c], <<t, m>>)
          \/ \E b \in Barriers : In(barrierQ[b], t)

\* Nobody is queued twice.
Apart ==
    /\ \A m \in Mutexes : Distinct(mutexQ[m])
    /\ \A c \in Conds : Distinct(condQ[c])
    /\ \A b \in Barriers : Distinct(barrierQ[b])
    /\ \A t \in Threads, m, n \in Mutexes, c, d \in Conds :
          In(condQ[c], <<t, m>>) /\ In(condQ[d], <<t, n>>) => c = d
    /\ \A t \in Threads, m \in Mutexes, c \in Conds :
          ~(In(mutexQ[m], t) /\ In(condQ[c], <<t, m>>))

\* A thread is in a call from the moment it stalls until the call returns,
\* and out of wait() only when it has been resumed.
Placed ==
    \A t \in Threads :
        /\ status[t] = "RUNNING" <=> where[t] \in {"user", "woken"}
        /\ doing[t] = Idle <=> where[t] = "user"
        /\ where[t] # "server"

\* A thread that is resumed while it locks a mutex has been given it, and a
\* mutex without an owner has no waiters.
Owned ==
    /\ \A t \in Threads : \A m \in held[t] : owner[m] = t
    /\ \A t \in Threads, m \in Mutexes :
          status[t] = "RUNNING" /\ doing[t] = Locking(m) => owner[m] = t
    /\ \A m \in Mutexes : owner[m] = NoOwner => mutexQ[m] = <<>>

\* The rounds of b that t has been let through, whether it knows or not.
Passed(t, b) == IF In(barrierQ[b], t) THEN entered[t][b] - 1 ELSE entered[t][b]

Rounds ==
    \A b \in Barriers :
        /\ \A t \in Threads :
              entered[t][b] = IF doing[t] = Blocking(b) THEN left[t][b] + 1
                                                        ELSE left[t][b]
        /\ \A t, v \in Threads : Passed(t, b) = Passed(v, b)

SyncInv == TypeOK /\ Located /\ Apart /\ Placed /\ Owned /\ Rounds

Calls == {Idle} \cup {Locking(m) : m \in Mutexes} \cup {Blocking(b) : b \in Barriers}

\* The calls a thread can be in are told apart.
LEMMA CallFacts ==
  /\ \A m, n : Locking(m) = Locking(n) => m = n
  /\ \A b, d : Blocking(b) = Blocking(d) => b = d
  /\ \A m, b : Locking(m) # Blocking(b)
  /\ \A m : Locking(m) # Idle
  /\ \A b : Blocking(b) # Idle
  /\ \A m : Locking(m).op = "lock" /\ Locking(m).m = m
  /\ \A b : Blocking(b).op = "barrier" /\ Blocking(b).b = b
  /\ Idle.op = "none"
<1>1. \A m : Locking(m).op = "lock" /\ Locking(m).m = m
  BY DEF Locking
<1>2. \A b : Blocking(b).op = "barrier" /\ Blocking(b).b = b
  BY DEF Blocking
<1>3. Idle.op = "none"
  BY DEF Idle
<1>4. \A m, n : Locking(m) = Locking(n) => m = n
  BY <1>1
<1>5. \A b, d : Blocking(b) = Blocking(d) => b = d
  BY <1>2
<1>6. \A m, b : Locking(m) # Blocking(b)
  BY <1>1, <1>2
<1>7. (\A m : Locking(m) # Idle) /\ (\A b : Blocking(b) # Idle)
  BY <1>1, <1>2, <1>3
<1>8. QED
  BY <1>1, <1>2, <1>3, <1>4, <1>5, <1>6, <1>7, Zenon

\* Every value of doing is one of the calls.
LEMMA CallTypes ==
  /\ Idle \in Calls
  /\ \A m \in Mutexes : Locking(m) \in Calls
  /\ \A b \in Barriers : Blocking(b) \in Calls
  /\ \A x \in Calls : x.op = "lock" => \E m \in Mutexes : x = Locking(m)
  /\ \A x \in Calls : x.op = "barrier" => \E b \in Barriers : x = Blocking(b)
  BY CallFacts, Zenon DEF Calls

\* There is at least one thread and nobody is not a thread.
LEMMA CountFacts == Count \in Nat /\ Count >= 1 /\ NoOwner \notin Threads
<1>1. Count \in Nat
  BY SyncAssumption, FS_CardinalityType DEF Count
<1>2. Count # 0
  BY SyncAssumption, FS_EmptySet DEF Count
<1>3. QED
  BY <1>1, <1>2, SyncAssumption

\* The parts of the type invariant.
LEMMA TypeFacts ==
  ASSUME TypeOK
  PROVE  /\ status \in [Threads -> {"RUNNING", "STALLED"}]
         /\ where \in [Threads -> Places]
         /\ msg \in [Threads -> BOOLEAN]
         /\ owner \in [Mutexes -> Threads \cup {NoOwner}]
         /\ mutexQ \in [Mutexes -> Seq(Threads)]
         /\ condQ \in [Conds -> Seq(Threads \X Mutexes)]
         /\ barrierQ \in [Barriers -> Seq(Threads)]
         /\ doing \in [Threads -> Calls]
         /\ \A m \in Mutexes : Len(mutexQ[m]) <= Count
         /\ \A b \in Barriers : Len(barrierQ[b]) < Count
         /\ held \in [Threads -> SUBSET Mutexes]
         /\ entered \in [Threads -> [Barriers -> 0..MaxRounds]]
         /\ left \in [Threads -> [Barriers -> 0..MaxRounds]]
  BY DEF TypeOK, StallTypeOK, Calls

\* The caller of an operation is in no queue, and everybody who is stalled
\* has reached wait().
LEMMA CallerFacts ==
  ASSUME SyncInv, NEW t \in Threads, MayCall(t)
  PROVE  /\ status[t] = "RUNNING" /\ doing[t] = Idle /\ where[t] = "user"
         /\ \A m \in Mutexes : ~In(mutexQ[m], t)
         /\ \A m \in Mutexes, c \in Conds : ~In(condQ[c], <<t, m>>)
         /\ \A b \in Barriers : ~In(barrierQ[b], t)
         /\ \A v \in Threads : status[v] = "STALLED" => where[v] = "wait"
<1>1. status[t] = "RUNNING" /\ doing[t] = Idle /\ where[t] = "user"
  BY DEF SyncInv, Placed, MayCall
<1>2. \A v \in Threads : status[v] = "STALLED" => where[v] = "wait"
  BY DEF SyncInv, Placed, MayCall, LockFree, TypeOK, StallTypeOK, Places
<1>3. QED
  BY <1>1, <1>2 DEF SyncInv, Located


\* Where the invariant does not look, nothing changes.
LEMMA LocatedSame ==
  ASSUME Located, UNCHANGED <<status, doing, mutexQ, condQ, barrierQ>>
  PROVE  Located'
  BY DEF Located

\* Nobody is queued twice after a step that leaves the queues alone.
LEMMA ApartSame ==
  ASSUME Apart, UNCHANGED <<mutexQ, condQ, barrierQ>>
  PROVE  Apart'
  BY DEF Apart

\* Nor does such a step disturb the barriers' rounds, when it leaves the
\* calls alone too.
LEMMA RoundsSame ==
  ASSUME Rounds, UNCHANGED <<barrierQ, entered, left>>,
         \A t \in Threads, b \in Barriers :
            doing'[t] = Blocking(b) <=> doing[t] = Blocking(b)
  PROVE  Rounds'
  BY DEF Rounds, Passed

\* lock() takes a free mutex.
LEMMA LockTakes ==
  ASSUME SyncInv, NEW t \in Threads, NEW m \in Mutexes, MayCall(t),
         owner[m] = NoOwner,
         owner' = [owner EXCEPT ![m] = t],
         held' = [held EXCEPT ![t] = @ \cup {m}],
         UNCHANGED <<status, where, msg, mutexQ, condQ, barrierQ, doing,
                     entered, left>>
  PROVE  SyncInv'
<1>a. /\ owner \in [Mutexes -> Threads \cup {NoOwner}]
      /\ held \in [Threads -> SUBSET Mutexes]
  BY TypeFacts DEF SyncInv
<1>1. TypeOK'
  BY <1>a DEF SyncInv, TypeOK, StallTypeOK
<1>2. Located' /\ Apart' /\ Placed'
  BY LocatedSame, ApartSame DEF SyncInv, Placed
<1>3. Owned'
  <2>1. \A v \in Threads : \A n \in held'[v] : owner'[n] = v
    BY <1>a, CountFacts DEF SyncInv, Owned
  <2>2. \A v \in Threads, n \in Mutexes :
          status[v] = "RUNNING" /\ doing[v] = Locking(n) => owner'[n] = v
    BY <1>a, CountFacts DEF SyncInv, Owned
  <2>3. \A n \in Mutexes : owner'[n] = NoOwner => mutexQ[n] = <<>>
    BY <1>a, CountFacts DEF SyncInv, Owned
  <2>4. QED
    BY <2>1, <2>2, <2>3 DEF Owned
<1>4. Rounds'
  BY RoundsSame DEF SyncInv
<1>5. QED
  BY <1>1, <1>2, <1>3, <1>4 DEF SyncInv

\* lock() finds the mutex taken: the caller queues up and stalls.
LEMMA LockQueues ==
  ASSUME SyncInv, NEW t \in Threads, NEW m \in Mutexes, MayCall(t),
         owner[m] # NoOwner,
         mutexQ' = [mutexQ EXCEPT ![m] = Append(@, t)],
         doing' = [doing EXCEPT ![t] = Locking(m)],
         StallAsync(t),
         UNCHANGED <<msg, owner, condQ, barrierQ, held, entered, left>>
  PROVE  SyncInv'
<1>a. /\ status \in [Threads -> {"RUNNING", "STALLED"}]
      /\ where \in [Threads -> Places]
      /\ mutexQ \in [Mutexes -> Seq(Threads)]
      /\ doing \in [Threads -> Calls]
  BY TypeFacts DEF SyncInv
<1>b. /\ status[t] = "RUNNING" /\ doing[t] = Idle /\ where[t] = "user"
      /\ \A n \in Mutexes : ~In(mutexQ[n], t)
      /\ \A n \in Mutexes, c \in Conds : ~In(condQ[c], <<t, n>>)
      /\ \A b \in Barriers : ~In(barrierQ[b], t)
  BY CallerFacts
<1>1. /\ mutexQ' \in [Mutexes -> Seq(Threads)]
      /\ \A n \in Mutexes, v \in Threads :
            In(mutexQ'[n], v) <=> In(mutexQ[n], v) \/ (n = m /\ v = t)
      /\ \A n \in Mutexes : Distinct(mutexQ'[n])
  <2>1. /\ Append(mutexQ[m], t) \in Seq(Threads)
        /\ \A x : In(Append(mutexQ[m], t), x) <=> In(mutexQ[m], x) \/ x = t
        /\ Distinct(Append(mutexQ[m], t))
    BY <1>a, <1>b, JoinQueue DEF SyncInv, Apart
  <2>2. mutexQ'[m] = Append(mutexQ[m], t)
    BY <1>a
  <2>3. \A n \in Mutexes : n # m => mutexQ'[n] = mutexQ[n]
    BY <1>a
  <2>4. mutexQ' \in [Mutexes -> Seq(Threads)]
    BY <1>a, <2>1
  <2>5. QED
    BY <2>1, <2>2, <2>3, <2>4 DEF SyncInv, Apart
<1>2. /\ status' = [status EXCEPT ![t] = "STALLED"]
      /\ where' = [where EXCEPT ![t] = "stalling"]
  BY DEF StallAsync
<1>3. TypeOK'
  <2>1. StallTypeOK'
    BY <1>2 DEF SyncInv, TypeOK, StallTypeOK, Places
  <2>2. doing' \in [Threads -> Calls]
    BY <1>a, CallTypes
  <2>3. \A n \in Mutexes : Len(mutexQ'[n]) <= Count
    BY <1>1, QueueBound, SyncAssumption DEF Count
  <2>4. QED
    BY <1>1, <2>1, <2>2, <2>3 DEF SyncInv, TypeOK, Calls
<1>4. Located'
  <2>0. /\ \A v \in Threads : v # t => status'[v] = status[v] /\ doing'[v] = doing[v]
        /\ status'[t] = "STALLED" /\ doing'[t] = Locking(m)
    BY <1>a, <1>2
  <2>1. \A v \in Threads, n \in Mutexes : In(mutexQ'[n], v) =>
          status'[v] = "STALLED" /\ doing'[v] = Locking(n)
    BY <1>1, <1>b, <2>0 DEF SyncInv, Located
  <2>2. \A v \in Threads, n \in Mutexes, c \in Conds : In(condQ[c], <<v, n>>) =>
          status'[v] = "STALLED" /\ doing'[v] = Locking(n)
    BY <1>b, <2>0 DEF SyncInv, Located
  <2>3. \A v \in Threads, b \in Barriers : In(barrierQ[b], v) =>
          status'[v] = "STALLED" /\ doing'[v] = Blocking(b)
    BY <1>b, <2>0 DEF SyncInv, Located
  <2>4. \A v \in Threads : status'[v] = "STALLED" =>
          \/ \E n \in Mutexes : In(mutexQ'[n], v)
          \/ \E c \in Conds, n \in Mutexes : In(condQ[c], <<v, n>>)
          \/ \E b \in Barriers : In(barrierQ[b], v)
    BY <1>1, <2>0 DEF SyncInv, Located
  <2>5. QED
    BY <2>1, <2>2, <2>3, <2>4 DEF Located
<1>5. Apart'
  BY <1>1, <1>b DEF SyncInv, Apart
<1>6. Placed'
  BY <1>a, <1>2, CallFacts DEF SyncInv, Placed, Places
<1>7. Owned'
  <2>1. \A n \in Mutexes : owner[n] = NoOwner => mutexQ'[n] = <<>>
    BY <1>a DEF SyncInv, Owned
  <2>2. \A v \in Threads, n \in Mutexes :
          status'[v] = "RUNNING" /\ doing'[v] = Locking(n) => owner[n] = v
    BY <1>a, <1>2 DEF SyncInv, Owned
  <2>3. QED
    BY <2>1, <2>2 DEF SyncInv, Owned
<1>8. Rounds'
  BY <1>a, <1>b, CallFacts, RoundsSame DEF SyncInv
<1>9. QED
  BY <1>3, <1>4, <1>5, <1>6, <1>7, <1>8 DEF SyncInv

\* resumeThread for threads that are stalled, by a caller that holds the
\* lock: all of them are in wait(), so every one of them is woken.
LEMMA ResumeFacts ==
  ASSUME SyncInv, NEW t \in Threads, MayCall(t),
         NEW W \in SUBSET Threads, \A v \in W : status[v] = "STALLED",
         Resume(W)
  PROVE  /\ StallTypeOK'
         /\ \A v \in W : status'[v] = "RUNNING" /\ where'[v] = "woken"
         /\ \A v \in Threads \ W : status'[v] = status[v] /\ where'[v] = where[v]
<1>1. /\ status \in [Threads -> {"RUNNING", "STALLED"}]
      /\ where \in [Threads -> Places]
      /\ msg \in [Threads -> BOOLEAN]
  BY TypeFacts DEF SyncInv
<1>2. \A v \in W : where[v] = "wait"
  BY CallerFacts
<1>3. StallTypeOK'
  BY <1>1 DEF StallTypeOK, Resume, Resumed, Signalled, Messages, Places
<1>4. QED
  BY <1>2, <1>3 DEF Resume, Resumed, Signalled

\* unlock() of m: what it does to the mutex, and what that means for the
\* thread W it is given to, if any.
Hands(m, W) ==
    /\ owner' = [owner EXCEPT ![m] =
                   IF mutexQ[m] = <<>> THEN NoOwner ELSE Head(mutexQ[m])]
    /\ mutexQ' = [mutexQ EXCEPT ![m] = IF @ = <<>> THEN @ ELSE Tail(@)]
    /\ W = IF mutexQ[m] = <<>> THEN {} ELSE {Head(mutexQ[m])}

Handed(t, m, W) ==
    /\ owner' \in [Mutexes -> Threads \cup {NoOwner}]
    /\ mutexQ' \in [Mutexes -> Seq(Threads)]
    /\ \A n \in Mutexes : Len(mutexQ'[n]) <= Count
    /\ \A n \in Mutexes : Distinct(mutexQ'[n])
    /\ W \in SUBSET Threads /\ t \notin W
    /\ \A n \in Mutexes, v \in Threads :
          In(mutexQ'[n], v) <=> In(mutexQ[n], v) /\ ~(n = m /\ v \in W)
    /\ \A v \in W : /\ In(mutexQ[m], v) /\ owner'[m] = v
                    /\ status[v] = "STALLED" /\ doing[v] = Locking(m)
    /\ \A n \in Mutexes : n # m => owner'[n] = owner[n] /\ mutexQ'[n] = mutexQ[n]
    /\ owner'[m] = NoOwner => mutexQ'[m] = <<>>
    /\ owner[m] = t

\* unlock() by the owner: the first waiter becomes the owner and leaves the
\* queue.
LEMMA HandOver ==
  ASSUME SyncInv, NEW t \in Threads, NEW m \in Mutexes, MayCall(t), m \in held[t],
         NEW W, Hands(m, W)
  PROVE  Handed(t, m, W)
<1> DEFINE q == mutexQ[m]
<1>h. /\ owner' = [owner EXCEPT ![m] = IF q = <<>> THEN NoOwner ELSE Head(q)]
      /\ mutexQ' = [mutexQ EXCEPT ![m] = IF @ = <<>> THEN @ ELSE Tail(@)]
      /\ W = IF q = <<>> THEN {} ELSE {Head(q)}
  BY DEF Hands
<1>a. /\ owner \in [Mutexes -> Threads \cup {NoOwner}]
      /\ mutexQ \in [Mutexes -> Seq(Threads)]
      /\ \A n \in Mutexes : Len(mutexQ[n]) <= Count
      /\ held \in [Threads -> SUBSET Mutexes]
  BY TypeFacts DEF SyncInv
<1>b. ~In(q, t) /\ Distinct(q) /\ q \in Seq(Threads)
  BY <1>a, CallerFacts DEF SyncInv, Apart
<1>1. owner[m] = t
  BY DEF SyncInv, Owned
<1>2. /\ owner'[m] = IF q = <<>> THEN NoOwner ELSE Head(q)
      /\ mutexQ'[m] = IF q = <<>> THEN q ELSE Tail(q)
      /\ \A n \in Mutexes : n # m => owner'[n] = owner[n] /\ mutexQ'[n] = mutexQ[n]
  BY <1>a, <1>h
<1>3. ASSUME q # <<>>
      PROVE  /\ Head(q) \in Threads /\ In(q, Head(q)) /\ Head(q) # t
             /\ Tail(q) \in Seq(Threads) /\ Distinct(Tail(q))
             /\ \A x : In(Tail(q), x) <=> In(q, x) /\ x # Head(q)
  BY <1>b, <1>3, LeaveQueue
<1>4. W \in SUBSET Threads /\ t \notin W /\ (\A v \in W : In(q, v) /\ owner'[m] = v)
  BY <1>2, <1>3, <1>h
<1>5. mutexQ'[m] \in Seq(Threads) /\ Distinct(mutexQ'[m])
  BY <1>2, <1>3, <1>b
<1>6. /\ mutexQ' \in [Mutexes -> Seq(Threads)]
      /\ owner' \in [Mutexes -> Threads \cup {NoOwner}]
  <2>1. mutexQ' \in [Mutexes -> Seq(Threads)]
    BY <1>a, <1>h, <1>2, <1>5
  <2>2. owner' \in [Mutexes -> Threads \cup {NoOwner}]
    BY <1>a, <1>h, <1>2, <1>3
  <2>3. QED
    BY <2>1, <2>2
<1>7. \A n \in Mutexes : Distinct(mutexQ'[n])
  BY <1>2, <1>5 DEF SyncInv, Apart
<1>8. \A n \in Mutexes : Len(mutexQ'[n]) <= Count
  BY <1>6, <1>7, QueueBound, SyncAssumption DEF Count
<1>9. \A v \in Threads : In(mutexQ'[m], v) <=> In(q, v) /\ v \notin W
  <2>1. CASE q = <<>>
    BY <1>2, <2>1, EmptyQueue
  <2>2. CASE q # <<>>
    BY <1>2, <1>3, <1>h, <2>2
  <2>3. QED
    BY <2>1, <2>2
<1>10. owner'[m] = NoOwner => mutexQ'[m] = <<>>
  BY <1>2, <1>3, CountFacts
<1>11. \A v \in W : status[v] = "STALLED" /\ doing[v] = Locking(m)
  BY <1>4 DEF SyncInv, Located
<1>12. QED
  BY <1>1, <1>2, <1>4, <1>6, <1>7, <1>8, <1>9, <1>10, <1>11 DEF Handed

\* pthread_mutex_unlock
LEMMA UnlockStep ==
  ASSUME SyncInv, NEW t \in Threads, NEW m \in Mutexes, MutexUnlock(t, m)
  PROVE  SyncInv'
<1> DEFINE W == IF mutexQ[m] = <<>> THEN {} ELSE {Head(mutexQ[m])}
<1>0. /\ MayCall(t) /\ m \in held[t] /\ Resume(W)
      /\ held' = [held EXCEPT ![t] = @ \ {m}]
      /\ UNCHANGED <<condQ, barrierQ, doing, entered, left>>
      /\ Hands(m, W)
  BY DEF MutexUnlock, Unlock, Hands
<1> HIDE DEF W
<1>1. /\ owner' \in [Mutexes -> Threads \cup {NoOwner}]
      /\ mutexQ' \in [Mutexes -> Seq(Threads)]
      /\ \A n \in Mutexes : Len(mutexQ'[n]) <= Count
      /\ \A n \in Mutexes : Distinct(mutexQ'[n])
      /\ W \in SUBSET Threads /\ t \notin W
      /\ \A n \in Mutexes, v \in Threads :
            In(mutexQ'[n], v) <=> In(mutexQ[n], v) /\ ~(n = m /\ v \in W)
      /\ \A v \in W : /\ In(mutexQ[m], v) /\ owner'[m] = v
                      /\ status[v] = "STALLED" /\ doing[v] = Locking(m)
      /\ \A n \in Mutexes : n # m => owner'[n] = owner[n] /\ mutexQ'[n] = mutexQ[n]
      /\ owner'[m] = NoOwner => mutexQ'[m] = <<>>
      /\ owner[m] = t
  BY <1>0, HandOver DEF Handed
<1>2. /\ StallTypeOK'
      /\ \A v \in W : status'[v] = "RUNNING" /\ where'[v] = "woken"
      /\ \A v \in Threads \ W : status'[v] = status[v] /\ where'[v] = where[v]
  BY <1>0, <1>1, ResumeFacts
<1>a. /\ status \in [Threads -> {"RUNNING", "STALLED"}]
      /\ held \in [Threads -> SUBSET Mutexes]
  BY TypeFacts DEF SyncInv
<1>b. status[t] = "RUNNING" /\ doing[t] = Idle /\ where[t] = "user"
  BY <1>0, CallerFacts
<1>3. TypeOK'
  BY <1>0, <1>1, <1>2, <1>a DEF SyncInv, TypeOK
<1>4. Located'
  <2>1. \A v \in Threads, n \in Mutexes : In(mutexQ'[n], v) =>
          status'[v] = "STALLED" /\ doing[v] = Locking(n)
    BY <1>1, <1>2, CallFacts DEF SyncInv, Located
  <2>2. \A v \in Threads, n \in Mutexes, c \in Conds : In(condQ[c], <<v, n>>) =>
          status'[v] = "STALLED" /\ doing[v] = Locking(n)
    <3> SUFFICES ASSUME NEW v \in Threads, NEW n \in Mutexes, NEW c \in Conds,
                        In(condQ[c], <<v, n>>)
                 PROVE  status'[v] = "STALLED" /\ doing[v] = Locking(n)
      OBVIOUS
    <3>1. status[v] = "STALLED" /\ doing[v] = Locking(n)
      BY DEF SyncInv, Located
    <3>2. v \notin W
      BY <1>1, <3>1, CallFacts DEF SyncInv, Apart
    <3>3. QED
      BY <1>2, <3>1, <3>2
  <2>3. \A v \in Threads, b \in Barriers : In(barrierQ[b], v) =>
          status'[v] = "STALLED" /\ doing[v] = Blocking(b)
    BY <1>1, <1>2, CallFacts DEF SyncInv, Located
  <2>4. \A v \in Threads : status'[v] = "STALLED" =>
          \/ \E n \in Mutexes : In(mutexQ'[n], v)
          \/ \E c \in Conds, n \in Mutexes : In(condQ[c], <<v, n>>)
          \/ \E b \in Barriers : In(barrierQ[b], v)
    BY <1>1, <1>2 DEF SyncInv, Located
  <2>5. QED
    BY <1>0, <2>1, <2>2, <2>3, <2>4 DEF Located
<1>5. Apart'
  BY <1>0, <1>1 DEF SyncInv, Apart
<1>6. Placed'
  BY <1>0, <1>1, <1>2, CallFacts DEF SyncInv, Placed
<1>7. Owned'
  <2>1. \A v \in Threads : \A n \in held'[v] : owner'[n] = v
    BY <1>0, <1>1, <1>a DEF SyncInv, Owned
  <2>2. \A v \in Threads, n \in Mutexes :
          status'[v] = "RUNNING" /\ doing[v] = Locking(n) => owner'[n] = v
    <3> SUFFICES ASSUME NEW v \in Threads, NEW n \in Mutexes,
                        status'[v] = "RUNNING", doing[v] = Locking(n)
                 PROVE  owner'[n] = v
      OBVIOUS
    <3>1. CASE v \in W
      BY <1>1, <3>1, CallFacts
    <3>2. CASE v \notin W
      <4>1. owner[n] = v /\ v # t
        BY <1>2, <1>b, <3>2, CallFacts DEF SyncInv, Owned
      <4>2. QED
        BY <1>1, <4>1
    <3>3. QED
      BY <3>1, <3>2
  <2>3. \A n \in Mutexes : owner'[n] = NoOwner => mutexQ'[n] = <<>>
    BY <1>1 DEF SyncInv, Owned
  <2>4. QED
    BY <1>0, <2>1, <2>2, <2>3 DEF Owned
<1>8. Rounds'
  BY <1>0, RoundsSame DEF SyncInv
<1>9. QED
  BY <1>3, <1>4, <1>5, <1>6, <1>7, <1>8 DEF SyncInv

\* pthread_cond_wait: the mutex is handed over, and the caller queues up.
LEMMA CondWaitStep ==
  ASSUME SyncInv, NEW t \in Threads, NEW c \in Conds, NEW m \in Mutexes,
         CondWait(t, c, m)
  PROVE  SyncInv'
<1> DEFINE W == IF mutexQ[m] = <<>> THEN {} ELSE {Head(mutexQ[m])}
<1>0. /\ MayCall(t) /\ m \in held[t]
      /\ status' = [Resumed(W) EXCEPT ![t] = "STALLED"]
      /\ where' = [Signalled(W, where) EXCEPT ![t] = "stalling"]
      /\ msg' = Messages(W, FALSE)
      /\ condQ' = [condQ EXCEPT ![c] = Append(@, <<t, m>>)]
      /\ held' = [held EXCEPT ![t] = @ \ {m}]
      /\ doing' = [doing EXCEPT ![t] = Locking(m)]
      /\ UNCHANGED <<barrierQ, entered, left>>
      /\ Hands(m, W)
  BY DEF CondWait, Hands
<1> HIDE DEF W
<1>1. /\ owner' \in [Mutexes -> Threads \cup {NoOwner}]
      /\ mutexQ' \in [Mutexes -> Seq(Threads)]
      /\ \A n \in Mutexes : Len(mutexQ'[n]) <= Count
      /\ \A n \in Mutexes : Distinct(mutexQ'[n])
      /\ W \in SUBSET Threads /\ t \notin W
      /\ \A n \in Mutexes, v \in Threads :
            In(mutexQ'[n], v) <=> In(mutexQ[n], v) /\ ~(n = m /\ v \in W)
      /\ \A v \in W : /\ In(mutexQ[m], v) /\ owner'[m] = v
                      /\ status[v] = "STALLED" /\ doing[v] = Locking(m)
      /\ \A n \in Mutexes : n # m => owner'[n] = owner[n] /\ mutexQ'[n] = mutexQ[n]
      /\ owner'[m] = NoOwner => mutexQ'[m] = <<>>
      /\ owner[m] = t
  BY <1>0, HandOver DEF Handed
<1>a. /\ status \in [Threads -> {"RUNNING", "STALLED"}]
      /\ where \in [Threads -> Places]
      /\ msg \in [Threads -> BOOLEAN]
      /\ condQ \in [Conds -> Seq(Threads \X Mutexes)]
      /\ held \in [Threads -> SUBSET Mutexes]
      /\ doing \in [Threads -> Calls]
  BY TypeFacts DEF SyncInv
<1>b. /\ status[t] = "RUNNING" /\ doing[t] = Idle /\ where[t] = "user"
      /\ \A n \in Mutexes : ~In(mutexQ[n], t)
      /\ \A n \in Mutexes, d \in Conds : ~In(condQ[d], <<t, n>>)
      /\ \A b \in Barriers : ~In(barrierQ[b], t)
      /\ \A v \in Threads : status[v] = "STALLED" => where[v] = "wait"
  BY <1>0, CallerFacts
<1>2. /\ StallTypeOK'
      /\ status'[t] = "STALLED" /\ where'[t] = "stalling" /\ doing'[t] = Locking(m)
      /\ \A v \in W : /\ status'[v] = "RUNNING" /\ where'[v] = "woken"
                      /\ doing'[v] = doing[v]
      /\ \A v \in Threads : v \notin W /\ v # t =>
            /\ status'[v] = status[v] /\ where'[v] = where[v]
            /\ doing'[v] = doing[v]
  <2>1. StallTypeOK'
    BY <1>0, <1>a DEF StallTypeOK, Resumed, Signalled, Messages, Places
  <2>2. QED
    BY <1>0, <1>1, <1>a, <1>b, <2>1 DEF Resumed, Signalled
<1>3. /\ condQ' \in [Conds -> Seq(Threads \X Mutexes)]
      /\ \A d \in Conds, v \in Threads, n \in Mutexes :
            In(condQ'[d], <<v, n>>) <=>
              In(condQ[d], <<v, n>>) \/ (d = c /\ v = t /\ n = m)
      /\ \A d \in Conds : Distinct(condQ'[d])
  <2>1. <<t, m>> \in Threads \X Mutexes
    OBVIOUS
  <2>2. /\ Append(condQ[c], <<t, m>>) \in Seq(Threads \X Mutexes)
        /\ \A x : In(Append(condQ[c], <<t, m>>), x) <=> In(condQ[c], x) \/ x = <<t, m>>
        /\ Distinct(Append(condQ[c], <<t, m>>))
    <3>1. condQ[c] \in Seq(Threads \X Mutexes)
      BY <1>a
    <3>2. Distinct(condQ[c]) /\ ~In(condQ[c], <<t, m>>)
      BY <1>b DEF SyncInv, Apart
    <3>3. QED
      BY <2>1, <3>1, <3>2, JoinQueue, Zenon
  <2>3. /\ condQ'[c] = Append(condQ[c], <<t, m>>)
        /\ \A d \in Conds : d # c => condQ'[d] = condQ[d]
    BY <1>0, <1>a
  <2>4. condQ' \in [Conds -> Seq(Threads \X Mutexes)]
    BY <1>0, <1>a, <2>2
  <2>5. \A d \in Conds : Distinct(condQ'[d])
    BY <2>2, <2>3 DEF SyncInv, Apart
  <2>6. \A v \in Threads, n \in Mutexes :
          In(condQ'[c], <<v, n>>) <=> In(condQ[c], <<v, n>>) \/ (v = t /\ n = m)
    BY <2>2, <2>3
  <2>7. QED
    BY <2>3, <2>4, <2>5, <2>6
<1>4. TypeOK'
  <2>1. doing' \in [Threads -> Calls]
    BY <1>0, <1>a, CallTypes
  <2>2. held' \in [Threads -> SUBSET Mutexes]
    BY <1>0, <1>a
  <2>3. QED
    BY <1>0, <1>1, <1>2, <1>3, <2>1, <2>2 DEF SyncInv, TypeOK, Calls
<1>5. Located'
  <2>1. \A v \in Threads, n \in Mutexes : In(mutexQ'[n], v) =>
          status'[v] = "STALLED" /\ doing'[v] = Locking(n)
    <3> SUFFICES ASSUME NEW v \in Threads, NEW n \in Mutexes, In(mutexQ'[n], v)
                 PROVE  status'[v] = "STALLED" /\ doing'[v] = Locking(n)
      OBVIOUS
    <3>1. In(mutexQ[n], v) /\ ~(n = m /\ v \in W)
      BY <1>1
    <3>2. status[v] = "STALLED" /\ doing[v] = Locking(n)
      BY <3>1 DEF SyncInv, Located
    <3>3. v \notin W /\ v # t
      BY <1>1, <1>b, <3>1, <3>2, CallFacts
    <3>4. QED
      BY <1>2, <3>2, <3>3
  <2>2. \A v \in Threads, n \in Mutexes, d \in Conds : In(condQ'[d], <<v, n>>) =>
          status'[v] = "STALLED" /\ doing'[v] = Locking(n)
    <3> SUFFICES ASSUME NEW v \in Threads, NEW n \in Mutexes, NEW d \in Conds,
                        In(condQ[d], <<v, n>>)
                 PROVE  status'[v] = "STALLED" /\ doing'[v] = Locking(n)
      BY <1>2, <1>3
    <3>1. status[v] = "STALLED" /\ doing[v] = Locking(n)
      BY DEF SyncInv, Located
    <3>2. v \notin W
      BY <1>1, <3>1, CallFacts DEF SyncInv, Apart
    <3>3. QED
      BY <1>2, <1>b, <3>1, <3>2
  <2>3. \A v \in Threads, b \in Barriers : In(barrierQ[b], v) =>
          status'[v] = "STALLED" /\ doing'[v] = Blocking(b)
    BY <1>1, <1>2, <1>b, CallFacts DEF SyncInv, Located
  <2>4. \A v \in Threads : status'[v] = "STALLED" =>
          \/ \E n \in Mutexes : In(mutexQ'[n], v)
          \/ \E d \in Conds, n \in Mutexes : In(condQ'[d], <<v, n>>)
          \/ \E b \in Barriers : In(barrierQ[b], v)
    <3> SUFFICES ASSUME NEW v \in Threads, status'[v] = "STALLED"
                 PROVE  \/ \E n \in Mutexes : In(mutexQ'[n], v)
                        \/ \E d \in Conds, n \in Mutexes : In(condQ'[d], <<v, n>>)
                        \/ \E b \in Barriers : In(barrierQ[b], v)
      OBVIOUS
    <3>1. CASE v = t
      BY <1>3, <3>1
    <3>2. CASE v # t
      <4>1. v \notin W /\ status[v] = "STALLED"
        BY <1>2, <3>2
      <4>2. QED
        BY <1>1, <1>3, <4>1 DEF SyncInv, Located
    <3>3. QED
      BY <3>1, <3>2
  <2>5. QED
    BY <1>0, <2>1, <2>2, <2>3, <2>4 DEF Located
<1>6. Apart'
  <2>1. \A v \in Threads, n, k \in Mutexes, d, e \in Conds :
          In(condQ'[d], <<v, n>>) /\ In(condQ'[e], <<v, k>>) => d = e
    BY <1>3, <1>b DEF SyncInv, Apart
  <2>2. \A v \in Threads, n \in Mutexes, d \in Conds :
          ~(In(mutexQ'[n], v) /\ In(condQ'[d], <<v, n>>))
    <3>1. \A v \in Threads, n \in Mutexes : In(mutexQ'[n], v) => In(mutexQ[n], v) /\ v # t
      BY <1>1, <1>b
    <3>2. \A v \in Threads, n \in Mutexes, d \in Conds :
            In(condQ'[d], <<v, n>>) => In(condQ[d], <<v, n>>) \/ v = t
      BY <1>3, Zenon
    <3>3. QED
      BY <3>1, <3>2, Zenon DEF SyncInv, Apart
  <2>3. QED
    BY <1>0, <1>1, <1>3, <2>1, <2>2 DEF SyncInv, Apart
<1>7. Placed'
  BY <1>1, <1>2, CallFacts DEF SyncInv, Placed
<1>8. Owned'
  <2>1. ASSUME NEW v \in Threads, NEW n \in held'[v] PROVE owner'[n] = v
    <3>1. n \in held[v] /\ n \in Mutexes /\ ~(v = t /\ n = m)
      BY <1>0, <1>a
    <3>2. owner[n] = v
      BY <3>1 DEF SyncInv, Owned
    <3>3. n # m
      BY <1>1, <3>1, <3>2
    <3>4. QED
      BY <1>1, <3>1, <3>2, <3>3
  <2>2. \A v \in Threads, n \in Mutexes :
          status'[v] = "RUNNING" /\ doing'[v] = Locking(n) => owner'[n] = v
    <3> SUFFICES ASSUME NEW v \in Threads, NEW n \in Mutexes,
                        status'[v] = "RUNNING", doing'[v] = Locking(n)
                 PROVE  owner'[n] = v
      OBVIOUS
    <3>1. CASE v \in W
      BY <1>1, <1>2, <3>1, CallFacts
    <3>2. CASE v \notin W
      <4>1. owner[n] = v /\ v # t
        BY <1>2, <3>2 DEF SyncInv, Owned
      <4>2. QED
        BY <1>1, <4>1
    <3>3. QED
      BY <3>1, <3>2
  <2>3. \A n \in Mutexes : owner'[n] = NoOwner => mutexQ'[n] = <<>>
    BY <1>1 DEF SyncInv, Owned
  <2>4. QED
    BY <1>0, <2>1, <2>2, <2>3 DEF Owned
<1>9. Rounds'
  <2>1. \A v \in Threads, b \in Barriers :
          doing'[v] = Blocking(b) <=> doing[v] = Blocking(b)
    BY <1>1, <1>2, <1>b, CallFacts
  <2>2. QED
    BY <1>0, <2>1, RoundsSame DEF SyncInv
<1>10. QED
  BY <1>4, <1>5, <1>6, <1>7, <1>8, <1>9 DEF SyncInv

\* lock_async for the first n waiters of a condition: the first one of each
\* free mutex gets it, the others queue up for theirs.
LEMMA LockAsyncStep ==
  ASSUME SyncInv, NEW t \in Threads, NEW c \in Conds, MayCall(t),
         NEW n \in 0..Len(condQ[c]), LockAsync(c, n),
         UNCHANGED <<barrierQ, doing, held, entered, left>>
  PROVE  SyncInv'
<1> DEFINE q == condQ[c]
           G == Granted(c, n)
           Q(m) == {i \in 1..n : q[i][2] = m /\ i \notin G}
           threads == [i \in DOMAIN q |-> q[i][1]]
           W == {q[i][1] : i \in G}
<1>0. /\ owner' = [m \in Mutexes |->
            IF \E i \in G : q[i][2] = m
            THEN q[CHOOSE i \in G : q[i][2] = m][1] ELSE owner[m]]
      /\ mutexQ' = [m \in Mutexes |-> mutexQ[m] \o InOrder(threads, Q(m))]
      /\ Resume(W)
      /\ condQ' = [condQ EXCEPT ![c] = SubSeq(@, n + 1, Len(@))]
  BY DEF LockAsync
<1>a. /\ status \in [Threads -> {"RUNNING", "STALLED"}]
      /\ owner \in [Mutexes -> Threads \cup {NoOwner}]
      /\ mutexQ \in [Mutexes -> Seq(Threads)]
      /\ condQ \in [Conds -> Seq(Threads \X Mutexes)]
  BY TypeFacts DEF SyncInv
<1>g. G = {i \in 1..n : /\ owner[q[i][2]] = NoOwner
                        /\ \A j \in 1..(i - 1) : q[j][2] # q[i][2]}
  BY DEF Granted
<1>1. /\ q \in Seq(Threads \X Mutexes)
      /\ Len(q) \in Nat /\ DOMAIN q = 1..Len(q) /\ n \in Nat
      /\ \A i \in DOMAIN q : /\ q[i][1] \in Threads /\ q[i][2] \in Mutexes
                             /\ q[i] = <<q[i][1], q[i][2]>>
  <2>1. q \in Seq(Threads \X Mutexes)
    BY <1>a
  <2>2. Len(q) \in Nat /\ DOMAIN q = 1..Len(q)
    BY <2>1, LenProperties
  <2>3. \A i \in DOMAIN q : q[i] \in Threads \X Mutexes
    BY <2>1, <2>2, ElementOfSeq
  <2>4. n \in Nat
    BY <2>2
  <2>5. QED
    BY <2>1, <2>2, <2>3, <2>4
<1> HIDE DEF G
<1>2. \A i \in DOMAIN q : /\ In(q, <<q[i][1], q[i][2]>>)
                          /\ status[q[i][1]] = "STALLED"
                          /\ doing[q[i][1]] = Locking(q[i][2])
  <2> TAKE i \in DOMAIN q
  <2>1. In(q, <<q[i][1], q[i][2]>>)
    <3>1. In(q, q[i])
      BY DEF In
    <3>2. q[i] = <<q[i][1], q[i][2]>>
      BY <1>1
    <3>3. QED
      BY <3>1, <3>2
  <2>2. q[i][1] \in Threads /\ q[i][2] \in Mutexes
    BY <1>1
  <2>3. QED
    BY <2>1, <2>2 DEF SyncInv, Located
<1>3. \A i, j \in DOMAIN q : q[i][1] = q[j][1] => i = j
  <2> SUFFICES ASSUME NEW i \in DOMAIN q, NEW j \in DOMAIN q, q[i][1] = q[j][1]
               PROVE  i = j
    OBVIOUS
  <2>1. q[i][2] = q[j][2]
    <3>1. Locking(q[i][2]) = Locking(q[j][2])
      <4>1. doing[q[i][1]] = Locking(q[i][2]) /\ doing[q[j][1]] = Locking(q[j][2])
        BY <1>2
      <4>2. doing[q[i][1]] = doing[q[j][1]]
        OBVIOUS
      <4>3. QED
        BY <4>1, <4>2, Zenon
    <3>2. QED
      BY <3>1, CallFacts, Zenon
  <2>2. q[i] = q[j]
    BY <1>1, <2>1
  <2>3. QED
    BY <2>2 DEF SyncInv, Apart, Distinct
<1>4. /\ \A i \in 1..n : i \in DOMAIN q /\ i \in Int
      /\ \A i \in G : i \in 1..n /\ owner[q[i][2]] = NoOwner
      /\ \A i, j \in G : q[i][2] = q[j][2] => i = j
  <2>1. \A i \in 1..n : i \in DOMAIN q /\ i \in Int
    BY <1>1
  <2>2. \A i \in G : i \in 1..n /\ owner[q[i][2]] = NoOwner
    BY <1>g
  <2>3. ASSUME NEW i \in G, NEW j \in G, i < j PROVE q[i][2] # q[j][2]
    <3>1. i \in 1..n /\ j \in 1..n
      BY <2>2
    <3>2. i \in 1..(j - 1)
      BY <2>3, <3>1, <1>1
    <3>3. QED
      BY <1>g, <3>2
  <2>4. ASSUME NEW i \in G, NEW j \in G, i # j PROVE q[i][2] # q[j][2]
    <3>1. i < j \/ j < i
      BY <2>1, <2>2, <2>4
    <3>2. QED
      BY <2>3, <3>1
  <2>5. QED
    BY <2>1, <2>2, <2>4
<1>5. /\ \A i \in G : owner'[q[i][2]] = q[i][1]
      /\ \A m \in Mutexes : (\A i \in G : q[i][2] # m) => owner'[m] = owner[m]
      /\ owner' \in [Mutexes -> Threads \cup {NoOwner}]
  <2>1. ASSUME NEW m \in Mutexes, NEW i \in G, q[i][2] = m
        PROVE  owner'[m] = q[i][1]
    <3>1. (CHOOSE k \in G : q[k][2] = m) = i
      BY <1>4, <2>1
    <3>2. QED
      BY <1>0, <2>1, <3>1
  <2>2. \A i \in G : q[i][2] \in Mutexes /\ q[i][1] \in Threads
    BY <1>1, <1>4
  <2>3. \A i \in G : owner'[q[i][2]] = q[i][1]
    BY <2>1, <2>2
  <2>4. \A m \in Mutexes : (\A i \in G : q[i][2] # m) => owner'[m] = owner[m]
    BY <1>0
  <2>5. ASSUME NEW m \in Mutexes PROVE owner'[m] \in Threads \cup {NoOwner}
    <3>1. CASE \E i \in G : q[i][2] = m
      <4>1. PICK i \in G : q[i][2] = m
        BY <3>1
      <4>2. owner'[m] = q[i][1]
        BY <2>1, <4>1
      <4>3. QED
        BY <2>2, <4>2
    <3>2. CASE \A i \in G : q[i][2] # m
      <4>1. owner'[m] = owner[m]
        BY <2>4, <3>2
      <4>2. owner[m] \in Threads \cup {NoOwner}
        BY <1>a
      <4>3. QED
        BY <4>1, <4>2
    <3>3. QED
      BY <3>1, <3>2
  <2>6. QED
    BY <1>0, <2>3, <2>4, <2>5
<1>6. \A i \in 1..n : owner'[q[i][2]] # NoOwner
  <2> SUFFICES ASSUME NEW i \in 1..n PROVE owner'[q[i][2]] # NoOwner
    OBVIOUS
  <2> DEFINE m == q[i][2]
             P == {j \in 1..n : q[j][2] = m}
  <2>0. m \in Mutexes
    BY <1>1, <1>4
  <2>1. CASE \E k \in G : q[k][2] = m
    <3>1. PICK k \in G : q[k][2] = m
      BY <2>1
    <3>2. owner'[m] = q[k][1] /\ q[k][1] \in Threads
      BY <1>1, <1>4, <1>5, <3>1
    <3>3. QED
      BY <3>2, CountFacts
  <2>2. CASE \A k \in G : q[k][2] # m
    <3>1. owner'[m] = owner[m]
      BY <1>5, <2>0, <2>2
    <3>2. ASSUME owner[m] = NoOwner PROVE FALSE
      <4>1. P \in SUBSET (1..n) /\ i \in P
        OBVIOUS
      <4>2. PICK k \in P : \A j \in P : k <= j
        BY <1>1, <4>1, FirstPosition
      <4>3. k \in 1..n /\ q[k][2] = m
        OBVIOUS
      <4>4. \A j \in 1..(k - 1) : q[j][2] # m
        <5> SUFFICES ASSUME NEW j \in 1..(k - 1), q[j][2] = m PROVE FALSE
          OBVIOUS
        <5>1. j \in 1..n /\ j < k
          BY <4>3, <1>1
        <5>2. j \in P
          BY <5>1
        <5>3. QED
          BY <4>2, <4>3, <5>1, <5>2, <1>1
      <4>5. k \in G
        BY <1>g, <3>2, <4>3, <4>4
      <4>6. QED
        BY <2>2, <4>3, <4>5
    <3>3. QED
      BY <3>1, <3>2
  <2>3. QED
    BY <2>1, <2>2
<1>7. threads \in Seq(Threads) /\ Distinct(threads) /\ DOMAIN threads = DOMAIN q
  <2>1. threads \in [1..Len(q) -> Threads]
    BY <1>1
  <2>2. threads \in Seq(Threads)
    BY <1>1, <2>1, SeqDef
  <2>3. \A i \in DOMAIN q : threads[i] = q[i][1]
    OBVIOUS
  <2>4. DOMAIN threads = DOMAIN q
    OBVIOUS
  <2>5. Distinct(threads)
    BY <1>3, <2>3, <2>4 DEF Distinct
  <2>6. QED
    BY <2>2, <2>4, <2>5
<1>8. \A m \in Mutexes :
         /\ InOrder(threads, Q(m)) \in Seq(Threads)
         /\ Distinct(InOrder(threads, Q(m)))
         /\ \A x : In(InOrder(threads, Q(m)), x) <=> \E i \in Q(m) : q[i][1] = x
  <2> TAKE m \in Mutexes
  <2>1. Q(m) \in SUBSET (DOMAIN threads) /\ \A i \in Q(m) : threads[i] = q[i][1]
    BY <1>4, <1>7
  <2>2. InOrder(threads, Q(m)) \in Seq(Threads)
    BY <1>7, <2>1, InOrderFacts
  <2>3. /\ Distinct(InOrder(threads, Q(m)))
        /\ \A x : In(InOrder(threads, Q(m)), x) <=> \E i \in Q(m) : threads[i] = x
    BY <1>7, <2>1, InInOrder
  <2>4. QED
    BY <2>1, <2>2, <2>3
<1>9. /\ mutexQ' \in [Mutexes -> Seq(Threads)]
      /\ \A m \in Mutexes : Distinct(mutexQ'[m])
      /\ \A m \in Mutexes, v \in Threads :
            In(mutexQ'[m], v) <=> \/ In(mutexQ[m], v)
                                  \/ \E i \in Q(m) : q[i][1] = v
  <2> DEFINE r(m) == InOrder(threads, Q(m))
  <2>1. \A m \in Mutexes : mutexQ'[m] = mutexQ[m] \o r(m)
    BY <1>0
  <2>2. \A m \in Mutexes : /\ r(m) \in Seq(Threads) /\ Distinct(r(m))
                           /\ \A x : In(r(m), x) <=> \E i \in Q(m) : q[i][1] = x
    BY <1>8
  <2>3. \A m \in Mutexes : \A i \in Q(m) : /\ In(condQ[c], <<q[i][1], m>>)
                                           /\ q[i][1] \in Threads
    BY <1>1, <1>2, <1>4
  <2> HIDE DEF Q, r, q
  <2>4. \A m \in Mutexes : \A x : ~(In(mutexQ[m], x) /\ In(r(m), x))
    <3> SUFFICES ASSUME NEW m \in Mutexes, NEW x, In(mutexQ[m], x), In(r(m), x)
                 PROVE  FALSE
      OBVIOUS
    <3>1. x \in Threads /\ In(condQ[c], <<x, m>>)
      BY <2>2, <2>3
    <3>2. QED
      BY <3>1 DEF SyncInv, Apart
  <2>5. ASSUME NEW m \in Mutexes
        PROVE  /\ mutexQ'[m] \in Seq(Threads)
               /\ Distinct(mutexQ'[m])
               /\ \A v : In(mutexQ'[m], v) <=> In(mutexQ[m], v) \/ In(r(m), v)
    <3>1. mutexQ[m] \in Seq(Threads) /\ r(m) \in Seq(Threads)
      BY <1>a, <2>2
    <3>2. Distinct(mutexQ[m]) /\ Distinct(r(m))
      BY <2>2 DEF SyncInv, Apart
    <3>3. /\ mutexQ[m] \o r(m) \in Seq(Threads)
          /\ Distinct(mutexQ[m] \o r(m))
          /\ \A v : In(mutexQ[m] \o r(m), v) <=> In(mutexQ[m], v) \/ In(r(m), v)
      BY <2>4, <3>1, <3>2, JoinQueues
    <3>4. QED
      BY <2>1, <3>3
  <2>6. mutexQ' \in [Mutexes -> Seq(Threads)]
    <3>1. mutexQ' = [m \in Mutexes |-> mutexQ[m] \o r(m)]
      BY <1>0 DEF Q, r, q
    <3>2. QED
      BY <2>5, <3>1
  <2>7. QED
    BY <2>2, <2>5, <2>6
<1>10. /\ condQ' \in [Conds -> Seq(Threads \X Mutexes)]
       /\ \A d \in Conds : Distinct(condQ'[d])
       /\ \A x : In(condQ'[c], x) <=> \E i \in (n + 1)..Len(q) : q[i] = x
       /\ \A d \in Conds : d # c => condQ'[d] = condQ[d]
  <2> DEFINE s == SubSeq(q, n + 1, Len(q))
  <2>1. condQ'[c] = s /\ \A d \in Conds : d # c => condQ'[d] = condQ[d]
    BY <1>0, <1>a
  <2>2. Distinct(q)
    BY DEF SyncInv, Apart
  <2>3. /\ s \in Seq(Threads \X Mutexes) /\ Distinct(s)
        /\ \A x : In(s, x) <=> \E i \in (n + 1)..Len(q) : q[i] = x
    BY <1>1, <2>2, DropQueue
  <2> HIDE DEF s
  <2>4. condQ' \in [Conds -> Seq(Threads \X Mutexes)]
    BY <1>0, <1>a, <2>3 DEF s
  <2>5. QED
    BY <2>1, <2>3, <2>4 DEF SyncInv, Apart
<1>11. /\ \A m \in Mutexes, d \in Conds, v \in Threads :
             In(condQ'[d], <<v, m>>) => In(condQ[d], <<v, m>>)
       /\ \A m \in Mutexes, v \in Threads, i \in DOMAIN q :
             In(condQ'[c], <<v, m>>) /\ q[i][1] = v => i \notin 1..n
  <2>1. \A i \in (n + 1)..Len(q) : i \in DOMAIN q /\ i \notin 1..n
    BY <1>1
  <2>2. ASSUME NEW m \in Mutexes, NEW v \in Threads, In(condQ'[c], <<v, m>>)
        PROVE  /\ In(condQ[c], <<v, m>>)
               /\ \A i \in DOMAIN q : q[i][1] = v => i \notin 1..n
    <3>1. PICK k \in (n + 1)..Len(q) : q[k] = <<v, m>>
      BY <1>10, <2>2
    <3>2. k \in DOMAIN q /\ k \notin 1..n /\ q[k][1] = v
      BY <2>1, <3>1
    <3>3. In(condQ[c], <<v, m>>)
      BY <3>1, <3>2 DEF In
    <3>4. QED
      BY <1>3, <3>2, <3>3
  <2>3. QED
    BY <1>10, <2>2
<1>12. /\ StallTypeOK'
       /\ \A v \in W : status'[v] = "RUNNING" /\ where'[v] = "woken"
       /\ \A v \in Threads \ W : status'[v] = status[v] /\ where'[v] = where[v]
  <2>1. W \in SUBSET Threads /\ \A v \in W : status[v] = "STALLED"
    BY <1>1, <1>2, <1>4
  <2>2. QED
    BY <1>0, <2>1, ResumeFacts
<1>13. \A v \in W : /\ v \in Threads /\ status[v] = "STALLED"
                    /\ \E i \in G : v = q[i][1] /\ doing[v] = Locking(q[i][2])
  BY <1>1, <1>2, <1>4
<1>14. /\ \A v \in W, m \in Mutexes : ~In(mutexQ'[m], v)
       /\ \A v \in W, m \in Mutexes, d \in Conds : ~In(condQ'[d], <<v, m>>)
  <2> SUFFICES ASSUME NEW v \in W, NEW m \in Mutexes
               PROVE  ~In(mutexQ'[m], v) /\ \A d \in Conds : ~In(condQ'[d], <<v, m>>)
    OBVIOUS
  <2>1. PICK i \in G : v = q[i][1] /\ doing[v] = Locking(q[i][2])
    BY <1>13
  <2>2. /\ i \in 1..n /\ i \in DOMAIN q /\ v \in Threads /\ q[i][2] \in Mutexes
        /\ In(condQ[c], <<v, q[i][2]>>)
    BY <1>1, <1>2, <1>4, <2>1
  <2>3. ~In(mutexQ'[m], v)
    <3>1. ~In(mutexQ[m], v)
      BY <2>1, <2>2, CallFacts DEF SyncInv, Located, Apart
    <3>2. \A k \in Q(m) : q[k][1] # v
      BY <1>3, <1>4, <2>1, <2>2
    <3>3. QED
      BY <1>9, <2>2, <3>1, <3>2
  <2>4. ASSUME NEW d \in Conds PROVE ~In(condQ'[d], <<v, m>>)
    <3>1. CASE d = c
      BY <1>11, <2>1, <2>2, <3>1
    <3>2. CASE d # c
      BY <1>11, <2>2, <3>2 DEF SyncInv, Apart
    <3>3. QED
      BY <3>1, <3>2
  <2>5. QED
    BY <2>3, <2>4
<1>15. \A m \in Mutexes, v \in Threads :
          In(mutexQ'[m], v) => status[v] = "STALLED" /\ doing[v] = Locking(m)
  <2> SUFFICES ASSUME NEW m \in Mutexes, NEW v \in Threads, In(mutexQ'[m], v)
               PROVE  status[v] = "STALLED" /\ doing[v] = Locking(m)
    OBVIOUS
  <2>1. CASE In(mutexQ[m], v)
    BY <2>1 DEF SyncInv, Located
  <2>2. CASE \E i \in Q(m) : q[i][1] = v
    BY <1>2, <1>4, <2>2
  <2>3. QED
    BY <1>9, <2>1, <2>2
<1> HIDE DEF W
<1>16. TypeOK'
  <2>1. \A m \in Mutexes : Len(mutexQ'[m]) <= Count
    BY <1>9, QueueBound, SyncAssumption DEF Count
  <2>2. QED
    BY <1>5, <1>9, <1>10, <1>12, <2>1 DEF SyncInv, TypeOK
<1>17. Located'
  <2>1. \A v \in Threads, m \in Mutexes : In(mutexQ'[m], v) =>
          status'[v] = "STALLED" /\ doing[v] = Locking(m)
    BY <1>12, <1>14, <1>15
  <2>2. \A v \in Threads, m \in Mutexes, d \in Conds : In(condQ'[d], <<v, m>>) =>
          status'[v] = "STALLED" /\ doing[v] = Locking(m)
    <3> SUFFICES ASSUME NEW v \in Threads, NEW m \in Mutexes, NEW d \in Conds,
                        In(condQ'[d], <<v, m>>)
                 PROVE  status'[v] = "STALLED" /\ doing[v] = Locking(m)
      OBVIOUS
    <3>1. status[v] = "STALLED" /\ doing[v] = Locking(m)
      BY <1>11 DEF SyncInv, Located
    <3>2. v \notin W
      BY <1>14
    <3>3. QED
      BY <1>12, <3>1, <3>2
  <2>3. \A v \in Threads, b \in Barriers : In(barrierQ[b], v) =>
          status'[v] = "STALLED" /\ doing[v] = Blocking(b)
    <3> SUFFICES ASSUME NEW v \in Threads, NEW b \in Barriers, In(barrierQ[b], v)
                 PROVE  status'[v] = "STALLED" /\ doing[v] = Blocking(b)
      OBVIOUS
    <3>1. status[v] = "STALLED" /\ doing[v] = Blocking(b)
      BY DEF SyncInv, Located
    <3>2. v \notin W
      BY <1>13, <3>1, CallFacts
    <3>3. QED
      BY <1>12, <3>1, <3>2
  <2>4. ASSUME NEW v \in Threads, status'[v] = "STALLED"
        PROVE  \/ \E m \in Mutexes : In(mutexQ'[m], v)
               \/ \E d \in Conds, m \in Mutexes : In(condQ'[d], <<v, m>>)
               \/ \E b \in Barriers : In(barrierQ[b], v)
    <3>1. v \notin W /\ status[v] = "STALLED"
      BY <1>12, <2>4
    <3>2. CASE \E m \in Mutexes : In(mutexQ[m], v)
      BY <1>9, <3>2
    <3>3. CASE \E b \in Barriers : In(barrierQ[b], v)
      BY <3>3
    <3>4. CASE \E d \in Conds, m \in Mutexes : In(condQ[d], <<v, m>>)
      <4>1. PICK d \in Conds, m \in Mutexes : In(condQ[d], <<v, m>>)
        BY <3>4
      <4>2. CASE d # c
        BY <1>10, <4>1, <4>2
      <4>3. CASE d = c
        <5>1. PICK i \in DOMAIN q : q[i] = <<v, m>>
          BY <4>1, <4>3 DEF In
        <5>2. q[i][1] = v /\ q[i][2] = m
          BY <5>1
        <5>3. i \notin G
          BY <3>1, <5>2 DEF W
        <5>4. i \in 1..n \/ i \in (n + 1)..Len(q)
          BY <1>1
        <5>5. CASE i \in 1..n
          <6>1. i \in Q(m)
            BY <5>2, <5>3, <5>5
          <6>2. QED
            BY <1>9, <5>2, <6>1
        <5>6. CASE i \in (n + 1)..Len(q)
          BY <1>10, <5>1, <5>6
        <5>7. QED
          BY <5>4, <5>5, <5>6
      <4>4. QED
        BY <4>2, <4>3
    <3>5. QED
      BY <3>1, <3>2, <3>3, <3>4 DEF SyncInv, Located
  <2>5. QED
    BY <2>1, <2>2, <2>3, <2>4 DEF Located
<1>18. Apart'
  <2>1. \A v \in Threads, m, k \in Mutexes, d, e \in Conds :
          In(condQ'[d], <<v, m>>) /\ In(condQ'[e], <<v, k>>) => d = e
    BY <1>11 DEF SyncInv, Apart
  <2>2. ASSUME NEW v \in Threads, NEW m \in Mutexes, NEW d \in Conds,
               In(mutexQ'[m], v), In(condQ'[d], <<v, m>>)
        PROVE  FALSE
    <3>1. In(condQ[d], <<v, m>>)
      BY <1>11, <2>2
    <3>2. ~In(mutexQ[m], v)
      BY <3>1 DEF SyncInv, Apart
    <3>3. PICK i \in Q(m) : q[i][1] = v
      BY <1>9, <2>2, <3>2
    <3>4. i \in 1..n /\ i \in DOMAIN q /\ q[i][2] = m
      BY <1>4
    <3>5. In(condQ[c], <<v, m>>)
      BY <1>2, <3>3, <3>4
    <3>6. d = c
      BY <3>1, <3>5 DEF SyncInv, Apart
    <3>7. QED
      BY <1>11, <2>2, <3>3, <3>4, <3>6
  <2>3. QED
    BY <1>9, <1>10, <2>1, <2>2 DEF SyncInv, Apart
<1>19. Placed'
  <2> SUFFICES ASSUME NEW v \in Threads
               PROVE  /\ status'[v] = "RUNNING" <=> where'[v] \in {"user", "woken"}
                      /\ doing[v] = Idle <=> where'[v] = "user"
                      /\ where'[v] # "server"
    BY DEF Placed
  <2>1. CASE v \in W
    BY <1>12, <1>13, <2>1, CallFacts
  <2>2. CASE v \notin W
    BY <1>12, <2>2 DEF SyncInv, Placed
  <2>3. QED
    BY <2>1, <2>2
<1>20. Owned'
  <2>1. \A m \in Mutexes : owner[m] # NoOwner => owner'[m] = owner[m]
    BY <1>4, <1>5
  <2>2. \A v \in Threads : \A m \in held[v] : owner'[m] = v
    <3>1. \A v \in Threads : held[v] \in SUBSET Mutexes
      BY TypeFacts DEF SyncInv
    <3>2. QED
      BY <2>1, <3>1, CountFacts DEF SyncInv, Owned
  <2>3. ASSUME NEW v \in Threads, NEW m \in Mutexes,
               status'[v] = "RUNNING", doing[v] = Locking(m)
        PROVE  owner'[m] = v
    <3>1. CASE v \in W
      <4>1. PICK i \in G : v = q[i][1] /\ doing[v] = Locking(q[i][2])
        BY <1>13, <3>1
      <4>2. q[i][2] = m
        BY <2>3, <4>1, CallFacts
      <4>3. QED
        BY <1>5, <4>1, <4>2
    <3>2. CASE v \notin W
      <4>1. owner[m] = v
        BY <1>12, <2>3, <3>2 DEF SyncInv, Owned
      <4>2. QED
        BY <2>1, <4>1, CountFacts
    <3>3. QED
      BY <3>1, <3>2
  <2>4. ASSUME NEW m \in Mutexes, owner'[m] = NoOwner
        PROVE  mutexQ'[m] = <<>>
    <3>1. owner[m] = NoOwner
      BY <2>1, <2>4
    <3>2. mutexQ[m] = <<>>
      BY <3>1 DEF SyncInv, Owned
    <3>3. \A i \in Q(m) : FALSE
      BY <1>6, <2>4
    <3>4. \A v \in Threads : ~In(mutexQ'[m], v)
      BY <1>9, <3>2, <3>3, EmptyQueue
    <3>5. mutexQ'[m] \in Seq(Threads)
      BY <1>9
    <3>6. QED
      BY <3>4, <3>5, NobodyIn
  <2>5. QED
    BY <2>2, <2>3, <2>4 DEF Owned
<1>21. Rounds'
  BY RoundsSame DEF SyncInv
<1>22. QED
  BY <1>16, <1>17, <1>18, <1>19, <1>20, <1>21 DEF SyncInv

\* The last thread enters a barrier: everybody else is waiting in it.
LEMMA BarrierOpens ==
  ASSUME SyncInv, NEW t \in Threads, NEW b \in Barriers, MayCall(t),
         entered[t][b] < MaxRounds,
         entered' = [entered EXCEPT ![t][b] = @ + 1],
         Len(barrierQ[b]) = Count - 1,
         barrierQ' = [barrierQ EXCEPT ![b] = <<>>],
         Resume({barrierQ[b][i] : i \in DOMAIN barrierQ[b]}),
         left' = [left EXCEPT ![t][b] = @ + 1],
         UNCHANGED <<owner, mutexQ, condQ, doing, held>>
  PROVE  SyncInv'
<1> DEFINE W == {barrierQ[b][i] : i \in DOMAIN barrierQ[b]}
<1>a. /\ status \in [Threads -> {"RUNNING", "STALLED"}]
      /\ barrierQ \in [Barriers -> Seq(Threads)]
      /\ \A d \in Barriers : Len(barrierQ[d]) < Count
      /\ held \in [Threads -> SUBSET Mutexes]
      /\ entered \in [Threads -> [Barriers -> 0..MaxRounds]]
      /\ left \in [Threads -> [Barriers -> 0..MaxRounds]]
      /\ MaxRounds \in Nat
  BY TypeFacts, SyncAssumption DEF SyncInv
<1>b. /\ status[t] = "RUNNING" /\ doing[t] = Idle /\ where[t] = "user"
      /\ ~In(barrierQ[b], t)
  BY CallerFacts
<1>1. /\ \A v : v \in W <=> In(barrierQ[b], v)
      /\ W \in SUBSET Threads
      /\ \A v \in Threads \ {t} : v \in W
      /\ t \notin W
  <2>1. \A v : v \in W <=> In(barrierQ[b], v)
    BY DEF In
  <2>2. barrierQ[b] \in Seq(Threads) /\ Distinct(barrierQ[b])
    BY <1>a DEF SyncInv, Apart
  <2>3. W \in SUBSET Threads
    BY <2>2, LenProperties, ElementOfSeq
  <2>4. \A v \in Threads \ {t} : In(barrierQ[b], v)
    BY <1>b, <2>2, QueueBound, SyncAssumption DEF Count
  <2>5. QED
    BY <1>b, <2>1, <2>3, <2>4
<1>2. \A v \in W : status[v] = "STALLED" /\ doing[v] = Blocking(b)
  BY <1>1 DEF SyncInv, Located
<1> HIDE DEF W
<1>3. /\ StallTypeOK'
      /\ \A v \in W : status'[v] = "RUNNING" /\ where'[v] = "woken"
      /\ \A v \in Threads \ W : status'[v] = status[v] /\ where'[v] = where[v]
  BY <1>1, <1>2, ResumeFacts DEF W
<1>4. /\ barrierQ'[b] = <<>>
      /\ \A d \in Barriers : d # b => barrierQ'[d] = barrierQ[d]
      /\ barrierQ' \in [Barriers -> Seq(Threads)]
      /\ \A d \in Barriers : Len(barrierQ'[d]) < Count
      /\ \A d \in Barriers : Distinct(barrierQ'[d])
  <2>1. /\ barrierQ'[b] = <<>>
        /\ \A d \in Barriers : d # b => barrierQ'[d] = barrierQ[d]
    BY <1>a
  <2>2. <<>> \in Seq(Threads) /\ Len(<<>>) = 0
    BY EmptySeq
  <2>3. barrierQ' \in [Barriers -> Seq(Threads)]
    BY <1>a, <2>2
  <2>4. QED
    BY <1>a, <2>1, <2>2, <2>3, EmptyQueue, CountFacts DEF SyncInv, Apart
<1>5. /\ entered'[t][b] = entered[t][b] + 1 /\ left'[t][b] = left[t][b] + 1
      /\ \A v \in Threads, d \in Barriers : v # t \/ d # b =>
            entered'[v][d] = entered[v][d] /\ left'[v][d] = left[v][d]
  BY <1>a
<1>6. \A v \in Threads, d \in Barriers :
         entered[v][d] = IF doing[v] = Blocking(d) THEN left[v][d] + 1 ELSE left[v][d]
  BY DEF SyncInv, Rounds
<1>7. TypeOK'
  <2>1. entered[t][b] = left[t][b]
    BY <1>6, <1>b, CallFacts
  <2>2. entered' \in [Threads -> [Barriers -> 0..MaxRounds]]
    BY <1>a
  <2>3. left' \in [Threads -> [Barriers -> 0..MaxRounds]]
    BY <1>a, <2>1
  <2>4. QED
    BY <1>3, <1>4, <2>2, <2>3 DEF SyncInv, TypeOK
<1>8. Located'
  <2>1. \A v \in Threads, m \in Mutexes : In(mutexQ[m], v) =>
          status'[v] = "STALLED" /\ doing[v] = Locking(m)
    BY <1>2, <1>3, CallFacts DEF SyncInv, Located
  <2>2. \A v \in Threads, m \in Mutexes, c \in Conds : In(condQ[c], <<v, m>>) =>
          status'[v] = "STALLED" /\ doing[v] = Locking(m)
    BY <1>2, <1>3, CallFacts DEF SyncInv, Located
  <2>3. \A v \in Threads, d \in Barriers : In(barrierQ'[d], v) =>
          status'[v] = "STALLED" /\ doing[v] = Blocking(d)
    BY <1>2, <1>3, <1>4, CallFacts, EmptyQueue DEF SyncInv, Located
  <2>4. \A v \in Threads : status'[v] = "STALLED" =>
          \/ \E m \in Mutexes : In(mutexQ[m], v)
          \/ \E c \in Conds, m \in Mutexes : In(condQ[c], <<v, m>>)
          \/ \E d \in Barriers : In(barrierQ'[d], v)
    BY <1>1, <1>3, <1>b
  <2>5. QED
    BY <2>1, <2>2, <2>3, <2>4 DEF Located
<1>9. Apart'
  BY <1>4 DEF SyncInv, Apart
<1>10. Placed'
  BY <1>2, <1>3, CallFacts DEF SyncInv, Placed
<1>11. Owned'
  <2>1. \A v \in Threads, m \in Mutexes :
          status'[v] = "RUNNING" /\ doing[v] = Locking(m) => owner[m] = v
    BY <1>2, <1>3, CallFacts DEF SyncInv, Owned
  <2>2. QED
    BY <2>1 DEF SyncInv, Owned
<1>12. Rounds'
  <2>1. ASSUME NEW d \in Barriers, NEW v \in Threads
        PROVE  entered'[v][d] = IF doing[v] = Blocking(d) THEN left'[v][d] + 1
                                                          ELSE left'[v][d]
    BY <1>5, <1>6, <1>b, CallFacts
  <2>2. ASSUME NEW d \in Barriers, NEW v \in Threads, NEW w \in Threads
        PROVE  Passed(v, d)' = Passed(w, d)'
    <3>0. Passed(v, d) = Passed(w, d)
      BY DEF SyncInv, Rounds
    <3>1. CASE d # b
      BY <1>4, <1>5, <3>0, <3>1 DEF Passed
    <3>2. CASE d = b
      <4>1. \A x \in Threads : Passed(x, b) = entered[t][b]
        BY <1>b DEF SyncInv, Rounds, Passed
      <4>2. \A x \in Threads : x # t => entered[x][b] - 1 = entered[t][b]
        BY <1>1, <4>1 DEF Passed
      <4>3. \A x \in Threads : x # t => entered[x][b] = entered[t][b] + 1
        <5> SUFFICES ASSUME NEW x \in Threads, x # t
                     PROVE  entered[x][b] = entered[t][b] + 1
          OBVIOUS
        <5>1. entered[x][b] \in Int /\ entered[x][b] - 1 = entered[t][b]
          BY <1>a, <4>2
        <5>2. QED
          BY <5>1
      <4>4. \A x \in Threads : entered'[x][b] = entered[t][b] + 1
        BY <1>5, <4>3
      <4>5. \A x \in Threads : Passed(x, b)' = entered'[x][b]
        BY <1>4, EmptyQueue DEF Passed
      <4>6. QED
        BY <3>2, <4>4, <4>5
    <3>3. QED
      BY <3>1, <3>2
  <2>3. QED
    BY <2>1, <2>2 DEF Rounds
<1>13. QED
  BY <1>7, <1>8, <1>9, <1>10, <1>11, <1>12 DEF SyncInv

\* Any other thread queues up in the barrier and stalls.
LEMMA BarrierQueues ==
  ASSUME SyncInv, NEW t \in Threads, NEW b \in Barriers, MayCall(t),
         entered[t][b] < MaxRounds,
         entered' = [entered EXCEPT ![t][b] = @ + 1],
         Len(barrierQ[b]) # Count - 1,
         barrierQ' = [barrierQ EXCEPT ![b] = Append(@, t)],
         StallAsync(t),
         doing' = [doing EXCEPT ![t] = Blocking(b)],
         UNCHANGED <<msg, left, owner, mutexQ, condQ, held>>
  PROVE  SyncInv'
<1>a. /\ status \in [Threads -> {"RUNNING", "STALLED"}]
      /\ where \in [Threads -> Places]
      /\ barrierQ \in [Barriers -> Seq(Threads)]
      /\ \A d \in Barriers : Len(barrierQ[d]) < Count
      /\ doing \in [Threads -> Calls]
      /\ entered \in [Threads -> [Barriers -> 0..MaxRounds]]
      /\ left \in [Threads -> [Barriers -> 0..MaxRounds]]
      /\ MaxRounds \in Nat
  BY TypeFacts, SyncAssumption DEF SyncInv
<1>b. /\ status[t] = "RUNNING" /\ doing[t] = Idle /\ where[t] = "user"
      /\ \A m \in Mutexes : ~In(mutexQ[m], t)
      /\ \A m \in Mutexes, c \in Conds : ~In(condQ[c], <<t, m>>)
      /\ \A d \in Barriers : ~In(barrierQ[d], t)
  BY CallerFacts
<1>1. /\ barrierQ' \in [Barriers -> Seq(Threads)]
      /\ \A d \in Barriers, v \in Threads :
            In(barrierQ'[d], v) <=> In(barrierQ[d], v) \/ (d = b /\ v = t)
      /\ \A d \in Barriers : Distinct(barrierQ'[d])
      /\ \A d \in Barriers : Len(barrierQ'[d]) < Count
  <2>1. /\ Append(barrierQ[b], t) \in Seq(Threads)
        /\ \A x : In(Append(barrierQ[b], t), x) <=> In(barrierQ[b], x) \/ x = t
        /\ Distinct(Append(barrierQ[b], t))
        /\ Len(Append(barrierQ[b], t)) = Len(barrierQ[b]) + 1
    BY <1>a, <1>b, JoinQueue DEF SyncInv, Apart
  <2>2. barrierQ'[b] = Append(barrierQ[b], t)
    BY <1>a
  <2>3. \A d \in Barriers : d # b => barrierQ'[d] = barrierQ[d]
    BY <1>a
  <2>4. barrierQ' \in [Barriers -> Seq(Threads)]
    BY <1>a, <2>1
  <2>5. Len(barrierQ[b]) \in Nat
    BY <1>a, LenProperties
  <2>6. Len(barrierQ'[b]) < Count
    BY <1>a, <2>1, <2>2, <2>5, CountFacts
  <2>7. QED
    BY <1>a, <2>1, <2>2, <2>3, <2>4, <2>6 DEF SyncInv, Apart
<1>2. /\ status' = [status EXCEPT ![t] = "STALLED"]
      /\ where' = [where EXCEPT ![t] = "stalling"]
  BY DEF StallAsync
<1>3. /\ \A v \in Threads : v # t => status'[v] = status[v] /\ doing'[v] = doing[v]
      /\ status'[t] = "STALLED" /\ doing'[t] = Blocking(b)
  BY <1>a, <1>2
<1>4. /\ entered'[t][b] = entered[t][b] + 1
      /\ \A v \in Threads, d \in Barriers : v # t \/ d # b =>
            entered'[v][d] = entered[v][d]
  BY <1>a
<1>5. TypeOK'
  <2>1. StallTypeOK'
    BY <1>2 DEF SyncInv, TypeOK, StallTypeOK, Places
  <2>2. doing' \in [Threads -> Calls]
    BY <1>a, CallTypes
  <2>3. entered' \in [Threads -> [Barriers -> 0..MaxRounds]]
    BY <1>a
  <2>4. QED
    BY <1>1, <2>1, <2>2, <2>3 DEF SyncInv, TypeOK, Calls
<1>6. Located'
  <2>1. \A v \in Threads, m \in Mutexes : In(mutexQ[m], v) =>
          status'[v] = "STALLED" /\ doing'[v] = Locking(m)
    BY <1>b, <1>3 DEF SyncInv, Located
  <2>2. \A v \in Threads, m \in Mutexes, c \in Conds : In(condQ[c], <<v, m>>) =>
          status'[v] = "STALLED" /\ doing'[v] = Locking(m)
    BY <1>b, <1>3 DEF SyncInv, Located
  <2>3. \A v \in Threads, d \in Barriers : In(barrierQ'[d], v) =>
          status'[v] = "STALLED" /\ doing'[v] = Blocking(d)
    BY <1>1, <1>b, <1>3 DEF SyncInv, Located
  <2>4. \A v \in Threads : status'[v] = "STALLED" =>
          \/ \E m \in Mutexes : In(mutexQ[m], v)
          \/ \E c \in Conds, m \in Mutexes : In(condQ[c], <<v, m>>)
          \/ \E d \in Barriers : In(barrierQ'[d], v)
    BY <1>1, <1>3 DEF SyncInv, Located
  <2>5. QED
    BY <2>1, <2>2, <2>3, <2>4 DEF Located
<1>7. Apart'
  BY <1>1 DEF SyncInv, Apart
<1>8. Placed'
  BY <1>a, <1>2, CallFacts DEF SyncInv, Placed, Places
<1>9. Owned'
  BY <1>3 DEF SyncInv, Owned
<1>10. Rounds'
  <2>1. ASSUME NEW d \in Barriers, NEW v \in Threads
        PROVE  entered'[v][d] = IF doing'[v] = Blocking(d) THEN left[v][d] + 1
                                                           ELSE left[v][d]
    <3>1. entered[v][d] = IF doing[v] = Blocking(d) THEN left[v][d] + 1 ELSE left[v][d]
      BY DEF SyncInv, Rounds
    <3>2. QED
      BY <1>3, <1>4, <1>b, <3>1, CallFacts
  <2>2. ASSUME NEW d \in Barriers, NEW v \in Threads
        PROVE  Passed(v, d)' = Passed(v, d)
    <3>1. CASE v = t /\ d = b
      <4>1. Passed(t, b)' = (entered[t][b] + 1) - 1
        BY <1>1, <1>4 DEF Passed
      <4>2. Passed(t, b) = entered[t][b] /\ entered[t][b] \in Int
        BY <1>a, <1>b DEF Passed
      <4>3. QED
        BY <3>1, <4>1, <4>2
    <3>2. CASE v # t \/ d # b
      BY <1>1, <1>4, <3>2 DEF Passed
    <3>3. QED
      BY <3>1, <3>2
  <2>3. ASSUME NEW d \in Barriers, NEW v \in Threads, NEW w \in Threads
        PROVE  Passed(v, d)' = Passed(w, d)'
    <3>1. Passed(v, d) = Passed(w, d)
      BY DEF SyncInv, Rounds
    <3>2. QED
      BY <2>2, <3>1
  <2>4. QED
    BY <2>1, <2>3 DEF Rounds
<1>11. QED
  BY <1>5, <1>6, <1>7, <1>8, <1>9, <1>10 DEF SyncInv

\* A thread moves on within stallThread, or the assertion there fires.
LEMMA WaitStep ==
  ASSUME SyncInv, NEW t \in Threads, StallStep(t) \/ DeadlockAbort(t)
  PROVE  SyncInv'
<1>a. where \in [Threads -> Places] /\ msg \in [Threads -> BOOLEAN]
  BY TypeFacts DEF SyncInv
<1>1. /\ where[t] = "stalling"
      /\ \/ where' = [where EXCEPT ![t] = "wait"] /\ msg' = [msg EXCEPT ![t] = FALSE]
         \/ where' = [where EXCEPT ![t] = "aborted"] /\ msg' = msg
      /\ UNCHANGED <<status, owner, mutexQ, condQ, barrierQ, doing, held, entered, left>>
  BY DEF StallStep, StallWait, DeadlockAbort, MustAdvance, syncVars
<1>2. TypeOK'
  BY <1>a, <1>1 DEF SyncInv, TypeOK, StallTypeOK, Places
<1>3. Placed'
  BY <1>a, <1>1 DEF SyncInv, Placed
<1>4. Located' /\ Apart' /\ Rounds'
  BY <1>1, LocatedSame, ApartSame, RoundsSame DEF SyncInv
<1>5. Owned'
  BY <1>1 DEF SyncInv, Owned
<1>6. QED
  BY <1>2, <1>3, <1>4, <1>5 DEF SyncInv

\* A call returns: the thread has what it waited for.
LEMMA ReturnStep ==
  ASSUME SyncInv, NEW t \in Threads, CallReturns(t)
  PROVE  SyncInv'
<1>a. /\ where \in [Threads -> Places]
      /\ doing \in [Threads -> Calls]
      /\ held \in [Threads -> SUBSET Mutexes]
      /\ entered \in [Threads -> [Barriers -> 0..MaxRounds]]
      /\ left \in [Threads -> [Barriers -> 0..MaxRounds]]
      /\ MaxRounds \in Nat
  BY TypeFacts, SyncAssumption DEF SyncInv
<1>0. /\ where' = [where EXCEPT ![t] = "user"]
      /\ doing' = [doing EXCEPT ![t] = Idle]
      /\ held' = IF doing[t].op = "lock"
                 THEN [held EXCEPT ![t] = @ \cup {doing[t].m}] ELSE held
      /\ left' = IF doing[t].op = "barrier"
                 THEN [left EXCEPT ![t][doing[t].b] = @ + 1] ELSE left
      /\ UNCHANGED <<status, msg, owner, mutexQ, condQ, barrierQ, entered>>
  BY DEF CallReturns
<1>1. status[t] = "RUNNING" /\ where[t] \in {"stalling", "woken"}
  BY DEF CallReturns, StallReturns, SyncInv, Placed
<1>2. doing[t] # Idle /\ where[t] = "woken"
  BY <1>1 DEF SyncInv, Placed
<1>3. \/ \E m \in Mutexes : doing[t] = Locking(m)
      \/ \E b \in Barriers : doing[t] = Blocking(b)
  BY <1>a, <1>2 DEF Calls
<1>4. /\ \A m \in Mutexes : ~In(mutexQ[m], t)
      /\ \A m \in Mutexes, c \in Conds : ~In(condQ[c], <<t, m>>)
      /\ \A b \in Barriers : ~In(barrierQ[b], t)
  BY <1>1 DEF SyncInv, Located
<1>5. /\ \A v \in Threads : v # t => doing'[v] = doing[v] /\ where'[v] = where[v]
      /\ doing'[t] = Idle /\ where'[t] = "user"
  BY <1>0, <1>a
<1>6. Located'
  BY <1>0, <1>4, <1>5 DEF SyncInv, Located
<1>7. Apart'
  BY <1>0, ApartSame DEF SyncInv
<1>8. Placed'
  BY <1>0, <1>1, <1>5 DEF SyncInv, Placed
<1>9. /\ doing' \in [Threads -> Calls]
      /\ StallTypeOK'
  BY <1>0, <1>a, CallTypes DEF SyncInv, TypeOK, StallTypeOK, Places
<1>10. CASE \E m \in Mutexes : doing[t] = Locking(m)
  <2>1. PICK m \in Mutexes : doing[t] = Locking(m)
    BY <1>10
  <2>2. held' = [held EXCEPT ![t] = @ \cup {m}] /\ left' = left /\ owner[m] = t
    <3>1. doing[t].op = "lock" /\ doing[t].m = m
      BY <2>1, CallFacts
    <3>2. owner[m] = t
      BY <1>1, <2>1 DEF SyncInv, Owned
    <3>3. QED
      BY <1>0, <3>1, <3>2
  <2>3. TypeOK'
    <3>1. held' \in [Threads -> SUBSET Mutexes]
      BY <1>a, <2>2
    <3>2. QED
      BY <1>0, <1>9, <2>2, <3>1 DEF SyncInv, TypeOK, Calls
  <2>4. Owned'
    <3>1. \A v \in Threads : \A n \in held'[v] : owner[n] = v
      BY <1>a, <2>2 DEF SyncInv, Owned
    <3>2. QED
      BY <1>0, <1>5, <3>1, CallFacts DEF SyncInv, Owned
  <2>5. Rounds'
    BY <1>0, <1>5, <2>1, <2>2, CallFacts, RoundsSame DEF SyncInv
  <2>6. QED
    BY <1>6, <1>7, <1>8, <2>3, <2>4, <2>5 DEF SyncInv
<1>11. CASE \E b \in Barriers : doing[t] = Blocking(b)
  <2>1. PICK b \in Barriers : doing[t] = Blocking(b)
    BY <1>11
  <2>2. left' = [left EXCEPT ![t][b] = @ + 1] /\ held' = held
    <3>1. doing[t].op = "barrier" /\ doing[t].b = b
      BY <2>1, CallFacts
    <3>2. QED
      BY <1>0, <3>1
  <2>3. entered[t][b] = left[t][b] + 1
    BY <2>1 DEF SyncInv, Rounds
  <2>4. TypeOK'
    <3>1. left' \in [Threads -> [Barriers -> 0..MaxRounds]]
      BY <1>a, <2>2, <2>3
    <3>2. QED
      BY <1>0, <1>9, <2>2, <3>1 DEF SyncInv, TypeOK, Calls
  <2>5. Owned'
    BY <1>0, <1>5, <2>2, CallFacts DEF SyncInv, Owned
  <2>6. Rounds'
    <3>1. ASSUME NEW d \in Barriers, NEW v \in Threads
          PROVE  entered[v][d] = IF doing'[v] = Blocking(d) THEN left'[v][d] + 1
                                                            ELSE left'[v][d]
      <4>1. entered[v][d] = IF doing[v] = Blocking(d) THEN left[v][d] + 1 ELSE left[v][d]
        BY DEF SyncInv, Rounds
      <4>2. CASE v # t
        BY <1>a, <1>5, <2>2, <4>1, <4>2
      <4>3. CASE v = t /\ d = b
        BY <1>a, <1>5, <2>2, <2>3, <4>3, CallFacts
      <4>4. CASE v = t /\ d # b
        BY <1>a, <1>5, <2>1, <2>2, <4>1, <4>4, CallFacts
      <4>5. QED
        BY <4>2, <4>3, <4>4
    <3>2. \A d \in Barriers : \A v, w \in Threads : Passed(v, d)' = Passed(w, d)'
      BY <1>0 DEF SyncInv, Rounds, Passed
    <3>3. QED
      BY <1>0, <3>1, <3>2 DEF Rounds
  <2>7. QED
    BY <1>6, <1>7, <1>8, <2>4, <2>5, <2>6 DEF SyncInv
<1>12. QED
  BY <1>3, <1>10, <1>11

\* No thread is in a queue and no mutex taken when the servers start.
LEMMA SyncInit == Init => SyncInv
<1> SUFFICES ASSUME Init PROVE SyncInv
  OBVIOUS
<1>0. /\ status = [t \in Threads |-> "RUNNING"] /\ where = [t \in Threads |-> "user"]
      /\ msg = [t \in Threads |-> FALSE]
      /\ owner = [m \in Mutexes |-> NoOwner] /\ mutexQ = [m \in Mutexes |-> <<>>]
      /\ condQ = [c \in Conds |-> <<>>] /\ barrierQ = [b \in Barriers |-> <<>>]
      /\ doing = [t \in Threads |-> Idle] /\ held = [t \in Threads |-> {}]
      /\ entered = [t \in Threads |-> [b \in Barriers |-> 0]]
      /\ left = [t \in Threads |-> [b \in Barriers |-> 0]]
  BY DEF Init, StallInit
<1>1. Len(<<>>) = 0 /\ \A S : <<>> \in Seq(S)
  BY EmptySeq
<1>2. TypeOK
  <2>1. StallTypeOK
    BY <1>0 DEF StallTypeOK, Places
  <2>2. /\ owner \in [Mutexes -> Threads \cup {NoOwner}]
        /\ mutexQ \in [Mutexes -> Seq(Threads)]
        /\ condQ \in [Conds -> Seq(Threads \X Mutexes)]
        /\ barrierQ \in [Barriers -> Seq(Threads)]
        /\ doing \in [Threads -> Calls]
    BY <1>0, <1>1, CallTypes
  <2>3. /\ \A m \in Mutexes : Len(mutexQ[m]) <= Count
        /\ \A b \in Barriers : Len(barrierQ[b]) < Count
    BY <1>0, <1>1, CountFacts
  <2>4. /\ held \in [Threads -> SUBSET Mutexes]
        /\ entered \in [Threads -> [Barriers -> 0..MaxRounds]]
        /\ left \in [Threads -> [Barriers -> 0..MaxRounds]]
    BY <1>0, SyncAssumption
  <2>5. QED
    BY <2>1, <2>2, <2>3, <2>4 DEF TypeOK, Calls
<1>3. Located
  BY <1>0, EmptyQueue DEF Located
<1>4. Apart
  BY <1>0, EmptyQueue DEF Apart
<1>5. Placed
  BY <1>0 DEF Placed
<1>6. Owned
  BY <1>0, CallFacts DEF Owned
<1>7. Rounds
  <2>1. \A t \in Threads, b \in Barriers : Passed(t, b) = 0
    BY <1>0, EmptyQueue DEF Passed
  <2>2. QED
    BY <1>0, <2>1, CallFacts DEF Rounds
<1>8. QED
  BY <1>2, <1>3, <1>4, <1>5, <1>6, <1>7 DEF SyncInv

\* Every action keeps SyncInv: one step for each entry point.
LEMMA SyncStep == SyncInv /\ [Next]_vars => SyncInv'
<1> SUFFICES ASSUME SyncInv, [Next]_vars PROVE SyncInv'
  OBVIOUS
<1>1. ASSUME NEW t \in Threads, NEW m \in Mutexes, MayCall(t), Lock(t, m)
      PROVE  SyncInv'
  <2>1. CASE owner[m] = NoOwner
    BY <1>1, <2>1, LockTakes DEF Lock
  <2>2. CASE owner[m] # NoOwner
    BY <1>1, <2>2, LockQueues DEF Lock
  <2>3. QED
    BY <2>1, <2>2
<1>2. ASSUME NEW t \in Threads, NEW m \in Mutexes,
             MutexLock(t, m) \/ MutexTryLock(t, m)
      PROVE  SyncInv'
  BY <1>1, <1>2 DEF MutexLock, MutexTryLock
<1>3. ASSUME NEW t \in Threads, NEW m \in Mutexes, MutexUnlock(t, m)
      PROVE  SyncInv'
  BY <1>3, UnlockStep
<1>4. ASSUME NEW t \in Threads, NEW m \in Mutexes, NEW c \in Conds, CondWait(t, c, m)
      PROVE  SyncInv'
  BY <1>4, CondWaitStep
<1>5. ASSUME NEW t \in Threads, NEW c \in Conds, CondSignal(t, c) \/ CondBroadcast(t, c)
      PROVE  SyncInv'
  <2>1. condQ[c] \in Seq(Threads \X Mutexes)
    BY TypeFacts DEF SyncInv
  <2>2. Len(condQ[c]) \in Nat /\ (condQ[c] # <<>> => Len(condQ[c]) # 0)
    BY <2>1, LenProperties, EmptySeq
  <2>3. PICK n \in 0..Len(condQ[c]) : LockAsync(c, n)
    BY <1>5, <2>2 DEF CondSignal, CondBroadcast
  <2>4. MayCall(t) /\ UNCHANGED <<barrierQ, doing, held, entered, left>>
    BY <1>5 DEF CondSignal, CondBroadcast
  <2>5. QED
    BY <2>3, <2>4, LockAsyncStep
<1>6. ASSUME NEW t \in Threads, NEW b \in Barriers, BarrierWait(t, b)
      PROVE  SyncInv'
  <2>1. CASE Len(barrierQ[b]) = Count - 1
    BY <1>6, <2>1, BarrierOpens DEF BarrierWait
  <2>2. CASE Len(barrierQ[b]) # Count - 1
    BY <1>6, <2>2, BarrierQueues DEF BarrierWait
  <2>3. QED
    BY <2>1, <2>2
<1>7. ASSUME NEW t \in Threads, StallStep(t) \/ DeadlockAbort(t)
      PROVE  SyncInv'
  BY <1>7, WaitStep
<1>8. ASSUME NEW t \in Threads, CallReturns(t)
      PROVE  SyncInv'
  BY <1>8, ReturnStep
<1>9. CASE UNCHANGED vars
  <2>1. /\ UNCHANGED <<status, where, msg, owner, mutexQ, condQ, barrierQ>>
        /\ UNCHANGED <<doing, held, entered, left>>
    BY <1>9 DEF vars
  <2>2. TypeOK' /\ Placed' /\ Owned'
    BY <2>1 DEF SyncInv, TypeOK, StallTypeOK, Placed, Owned
  <2>3. QED
    BY <2>1, <2>2, LocatedSame, ApartSame, RoundsSame DEF SyncInv
<1>10. QED
  BY <1>2, <1>3, <1>4, <1>5, <1>6, <1>7, <1>8, <1>9 DEF Next, Finished

\* A thread that waits for a mutex has one place in the mutexes' queues, any
\* other thread none.
LEMMA MutexPlaces ==
  ASSUME SyncInv, NEW t \in Threads
  PROVE  Cardinality(Positions(mutexQ, t, LAMBDA x, y : x = y)) =
            IF \E m \in Mutexes : In(mutexQ[m], t) THEN 1 ELSE 0
<1> DEFINE P == Positions(mutexQ, t, LAMBDA x, y : x = y)
<1>a. mutexQ \in [Mutexes -> Seq(Threads)]
  BY TypeFacts DEF SyncInv
<1>1. P = {p \in Mutexes \X (1..Count) : /\ p[2] \in DOMAIN mutexQ[p[1]]
                                         /\ mutexQ[p[1]][p[2]] = t}
  BY <1>a DEF Positions
<1> HIDE DEF P
<1>2. CASE \A m \in Mutexes : ~In(mutexQ[m], t)
  <2>1. P = {}
    BY <1>1, <1>2 DEF In
  <2>2. QED
    BY <1>2, <2>1, FS_EmptySet DEF P
<1>3. CASE \E m \in Mutexes : In(mutexQ[m], t)
  <2>p. PICK m \in Mutexes : In(mutexQ[m], t)
    BY <1>3
  <2>1. PICK i \in DOMAIN mutexQ[m] : mutexQ[m][i] = t
    BY <2>p DEF In
  <2>2. i \in 1..Count
    <3>1. Len(mutexQ[m]) \in Nat /\ DOMAIN mutexQ[m] = 1..Len(mutexQ[m])
      BY <1>a, LenProperties
    <3>2. Len(mutexQ[m]) <= Count
      BY TypeFacts DEF SyncInv
    <3>3. QED
      BY <3>1, <3>2, CountFacts
  <2>3. <<m, i>> \in P
    BY <1>1, <2>1, <2>2
  <2>4. ASSUME NEW p \in P PROVE p = <<m, i>>
    <3>1. /\ p \in Mutexes \X (1..Count)
          /\ p[2] \in DOMAIN mutexQ[p[1]] /\ mutexQ[p[1]][p[2]] = t
      BY <1>1
    <3>2. In(mutexQ[m], t) /\ In(mutexQ[p[1]], t) /\ p[1] \in Mutexes
      BY <2>1, <3>1 DEF In
    <3>3. Locking(m) = Locking(p[1])
      BY <3>2 DEF SyncInv, Located
    <3>4. m = p[1]
      BY <3>3, CallFacts, Zenon
    <3>5. p[2] = i
      BY <2>1, <3>1, <3>4 DEF SyncInv, Apart, Distinct
    <3>6. QED
      BY <3>1, <3>4, <3>5
  <2>5. P = {<<m, i>>}
    BY <2>3, <2>4
  <2>6. Cardinality(P) = 1
    BY <2>5, FS_Singleton
  <2>7. QED
    BY <1>3, <2>6 DEF P
<1>4. QED
  BY <1>2, <1>3

\* The same for the barriers' queues.
LEMMA BarrierPlaces ==
  ASSUME SyncInv, NEW t \in Threads
  PROVE  Cardinality(Positions(barrierQ, t, LAMBDA x, y : x = y)) =
            IF \E b \in Barriers : In(barrierQ[b], t) THEN 1 ELSE 0
<1> DEFINE P == Positions(barrierQ, t, LAMBDA x, y : x = y)
<1>a. barrierQ \in [Barriers -> Seq(Threads)]
  BY TypeFacts DEF SyncInv
<1>1. P = {p \in Barriers \X (1..Count) : /\ p[2] \in DOMAIN barrierQ[p[1]]
                                          /\ barrierQ[p[1]][p[2]] = t}
  BY <1>a DEF Positions
<1> HIDE DEF P
<1>2. CASE \A b \in Barriers : ~In(barrierQ[b], t)
  <2>1. P = {}
    BY <1>1, <1>2 DEF In
  <2>2. QED
    BY <1>2, <2>1, FS_EmptySet DEF P
<1>3. CASE \E b \in Barriers : In(barrierQ[b], t)
  <2>p. PICK b \in Barriers : In(barrierQ[b], t)
    BY <1>3
  <2>1. PICK i \in DOMAIN barrierQ[b] : barrierQ[b][i] = t
    BY <2>p DEF In
  <2>2. i \in 1..Count
    <3>1. Len(barrierQ[b]) \in Nat /\ DOMAIN barrierQ[b] = 1..Len(barrierQ[b])
      BY <1>a, LenProperties
    <3>2. Len(barrierQ[b]) < Count
      BY TypeFacts DEF SyncInv
    <3>3. QED
      BY <3>1, <3>2, CountFacts
  <2>3. <<b, i>> \in P
    BY <1>1, <2>1, <2>2
  <2>4. ASSUME NEW p \in P PROVE p = <<b, i>>
    <3>1. /\ p \in Barriers \X (1..Count)
          /\ p[2] \in DOMAIN barrierQ[p[1]] /\ barrierQ[p[1]][p[2]] = t
      BY <1>1
    <3>2. In(barrierQ[b], t) /\ In(barrierQ[p[1]], t) /\ p[1] \in Barriers
      BY <2>1, <3>1 DEF In
    <3>3. Blocking(b) = Blocking(p[1])
      BY <3>2 DEF SyncInv, Located
    <3>4. b = p[1]
      BY <3>3, CallFacts, Zenon
    <3>5. p[2] = i
      BY <2>1, <3>1, <3>4 DEF SyncInv, Apart, Distinct
    <3>6. QED
      BY <3>1, <3>4, <3>5
  <2>5. P = {<<b, i>>}
    BY <2>3, <2>4
  <2>6. Cardinality(P) = 1
    BY <2>5, FS_Singleton
  <2>7. QED
    BY <1>3, <2>6 DEF P
<1>4. QED
  BY <1>2, <1>3

\* The same for the conditions' queues, whose entries name a mutex as well.
LEMMA CondPlaces ==
  ASSUME SyncInv, NEW t \in Threads
  PROVE  Cardinality(Positions(condQ, t, LAMBDA x, y : x[1] = y)) =
            IF \E c \in Conds, m \in Mutexes : In(condQ[c], <<t, m>>) THEN 1 ELSE 0
<1> DEFINE P == Positions(condQ, t, LAMBDA x, y : x[1] = y)
<1>a. condQ \in [Conds -> Seq(Threads \X Mutexes)]
  BY TypeFacts DEF SyncInv
<1>1. P = {p \in Conds \X (1..Count) : /\ p[2] \in DOMAIN condQ[p[1]]
                                       /\ condQ[p[1]][p[2]][1] = t}
  BY <1>a DEF Positions
<1> HIDE DEF P
<1>b. ASSUME NEW c \in Conds, NEW i \in DOMAIN condQ[c]
      PROVE  /\ condQ[c][i] \in Threads \X Mutexes
             /\ In(condQ[c], condQ[c][i])
             /\ doing[condQ[c][i][1]] = Locking(condQ[c][i][2])
  <2>1. condQ[c] \in Seq(Threads \X Mutexes)
    BY <1>a
  <2>2. condQ[c][i] \in Threads \X Mutexes
    BY <2>1, LenProperties, ElementOfSeq
  <2>3. In(condQ[c], condQ[c][i])
    BY DEF In
  <2>4. PICK v \in Threads, m \in Mutexes : condQ[c][i] = <<v, m>>
    BY <2>2
  <2>5. doing[v] = Locking(m)
    BY <2>3, <2>4 DEF SyncInv, Located
  <2>6. QED
    BY <2>2, <2>3, <2>4, <2>5
<1>c. ASSUME NEW c \in Conds, NEW i \in DOMAIN condQ[c], NEW j \in DOMAIN condQ[c],
             condQ[c][i][1] = condQ[c][j][1]
      PROVE  i = j
  <2>1. Locking(condQ[c][i][2]) = Locking(condQ[c][j][2])
    <3>1. /\ doing[condQ[c][i][1]] = Locking(condQ[c][i][2])
          /\ doing[condQ[c][j][1]] = Locking(condQ[c][j][2])
      BY <1>b
    <3>2. doing[condQ[c][i][1]] = doing[condQ[c][j][1]]
      BY <1>c
    <3>3. QED
      BY <3>1, <3>2, Zenon
  <2>2. condQ[c][i][2] = condQ[c][j][2]
    BY <2>1, CallFacts, Zenon
  <2>3. condQ[c][i] \in Threads \X Mutexes /\ condQ[c][j] \in Threads \X Mutexes
    BY <1>b
  <2>4. condQ[c][i] = condQ[c][j]
    BY <1>c, <2>2, <2>3
  <2>5. QED
    BY <2>4 DEF SyncInv, Apart, Distinct
<1>2. CASE \A c \in Conds, m \in Mutexes : ~In(condQ[c], <<t, m>>)
  <2>1. ASSUME NEW p \in P PROVE FALSE
    <3>1. p[1] \in Conds /\ p[2] \in DOMAIN condQ[p[1]] /\ condQ[p[1]][p[2]][1] = t
      BY <1>1
    <3>2. PICK m \in Mutexes : condQ[p[1]][p[2]] = <<t, m>>
      BY <1>b, <3>1
    <3>3. QED
      BY <1>2, <3>1, <3>2 DEF In
  <2>2. P = {}
    BY <2>1
  <2>3. QED
    BY <1>2, <2>2, FS_EmptySet DEF P
<1>3. CASE \E c \in Conds, m \in Mutexes : In(condQ[c], <<t, m>>)
  <2>p. PICK c \in Conds, m \in Mutexes : In(condQ[c], <<t, m>>)
    BY <1>3
  <2>1. PICK i \in DOMAIN condQ[c] : condQ[c][i] = <<t, m>>
    BY <2>p DEF In
  <2>2. i \in 1..Count
    <3> DEFINE threads == [k \in DOMAIN condQ[c] |-> condQ[c][k][1]]
    <3>1. condQ[c] \in Seq(Threads \X Mutexes)
      BY <1>a
    <3>2. Len(condQ[c]) \in Nat /\ DOMAIN condQ[c] = 1..Len(condQ[c])
      BY <3>1, LenProperties
    <3>3. \A k \in DOMAIN condQ[c] : condQ[c][k][1] \in Threads
      BY <1>b
    <3>4. threads \in Seq(Threads) /\ Len(threads) = Len(condQ[c])
      <4>1. threads \in [1..Len(condQ[c]) -> Threads]
        BY <3>2, <3>3
      <4>2. threads \in Seq(Threads)
        BY <3>2, <4>1, SeqDef
      <4>3. DOMAIN threads = 1..Len(threads) /\ Len(threads) \in Nat
        BY <4>2, LenProperties
      <4>4. DOMAIN threads = 1..Len(condQ[c])
        BY <3>2
      <4>5. QED
        BY <3>2, <4>2, <4>3, <4>4
    <3>5. Distinct(threads)
      BY <1>c DEF Distinct
    <3>6. Len(threads) <= Count
      BY <3>4, <3>5, QueueBound, SyncAssumption DEF Count
    <3>7. QED
      BY <3>2, <3>4, <3>6, CountFacts
  <2>3. <<c, i>> \in P
    BY <1>1, <2>1, <2>2
  <2>4. ASSUME NEW p \in P PROVE p = <<c, i>>
    <3>1. /\ p \in Conds \X (1..Count)
          /\ p[2] \in DOMAIN condQ[p[1]] /\ condQ[p[1]][p[2]][1] = t
      BY <1>1
    <3>2. PICK n \in Mutexes : condQ[p[1]][p[2]] = <<t, n>>
      BY <1>b, <3>1
    <3>3. In(condQ[c], <<t, m>>) /\ In(condQ[p[1]], <<t, n>>)
      BY <2>1, <3>1, <3>2 DEF In
    <3>4. c = p[1]
      BY <3>1, <3>3 DEF SyncInv, Apart
    <3>5. condQ[c][p[2]][1] = condQ[c][i][1] /\ p[2] \in DOMAIN condQ[c]
      BY <2>1, <3>1, <3>4
    <3>6. p[2] = i
      BY <1>c, <3>5
    <3>7. QED
      BY <3>1, <3>4, <3>6
  <2>5. P = {<<c, i>>}
    BY <2>3, <2>4
  <2>6. Cardinality(P) = 1
    BY <2>5, FS_Singleton
  <2>7. QED
    BY <1>3, <2>6 DEF P
<1>4. QED
  BY <1>2, <1>3

\* What the runs check follows from SyncInv.
LEMMA SyncInvImplies == SyncInv => SyncCorrect /\ NobodyForgotten
<1> SUFFICES ASSUME SyncInv PROVE SyncCorrect /\ NobodyForgotten
  OBVIOUS
<1>1. HoldersOwn
  BY DEF SyncInv, Owned, HoldersOwn
<1>2. BarrierHolds
  <2> SUFFICES ASSUME NEW t \in Threads, NEW v \in Threads, NEW b \in Barriers
               PROVE  left[t][b] <= entered[v][b]
    BY DEF BarrierHolds
  <2>1. /\ entered[t][b] = IF doing[t] = Blocking(b) THEN left[t][b] + 1 ELSE left[t][b]
        /\ Passed(t, b) = Passed(v, b)
    BY DEF SyncInv, Rounds
  <2>2. /\ left[t][b] \in Int /\ entered[v][b] \in Int /\ entered[t][b] \in Int
    BY TypeFacts DEF SyncInv
  <2>3. left[t][b] <= Passed(t, b)
    <3>1. In(barrierQ[b], t) => doing[t] = Blocking(b)
      BY DEF SyncInv, Located
    <3>2. QED
      BY <2>1, <2>2, <3>1 DEF Passed
  <2>4. Passed(v, b) <= entered[v][b]
    BY <2>2 DEF Passed
  <2>5. Passed(v, b) \in Int
    BY <2>2 DEF Passed
  <2>6. QED
    BY <2>1, <2>2, <2>3, <2>4, <2>5
<1>3. NobodyForgotten
  <2>1. ASSUME NEW t \in Threads
        PROVE  Cardinality(Positions(mutexQ, t, LAMBDA x, y : x = y))
               + Cardinality(Positions(condQ, t, LAMBDA x, y : x[1] = y))
               + Cardinality(Positions(barrierQ, t, LAMBDA x, y : x = y))
                 = IF status[t] = "STALLED" THEN 1 ELSE 0
    <3> DEFINE M == \E m \in Mutexes : In(mutexQ[m], t)
               C == \E c \in Conds, m \in Mutexes : In(condQ[c], <<t, m>>)
               B == \E b \in Barriers : In(barrierQ[b], t)
               nm == Cardinality(Positions(mutexQ, t, LAMBDA x, y : x = y))
               nc == Cardinality(Positions(condQ, t, LAMBDA x, y : x[1] = y))
               nb == Cardinality(Positions(barrierQ, t, LAMBDA x, y : x = y))
    <3>1. nm = (IF M THEN 1 ELSE 0) /\ nc = (IF C THEN 1 ELSE 0) /\ nb = (IF B THEN 1 ELSE 0)
      BY MutexPlaces, CondPlaces, BarrierPlaces
    <3>2. (M \/ C \/ B) <=> status[t] = "STALLED"
      BY DEF SyncInv, Located
    <3>3. ~(M /\ C)
      <4> SUFFICES ASSUME NEW m \in Mutexes, In(mutexQ[m], t),
                          NEW c \in Conds, NEW n \in Mutexes, In(condQ[c], <<t, n>>)
                   PROVE  FALSE
        OBVIOUS
      <4>1. Locking(m) = Locking(n)
        BY DEF SyncInv, Located
      <4>2. m = n
        BY <4>1, CallFacts, Zenon
      <4>3. QED
        BY <4>2 DEF SyncInv, Apart
    <3>4. ~(M /\ B) /\ ~(C /\ B)
      <4>1. M => \E m \in Mutexes : doing[t] = Locking(m)
        BY DEF SyncInv, Located
      <4>2. C => \E m \in Mutexes : doing[t] = Locking(m)
        BY DEF SyncInv, Located
      <4>3. B => \E b \in Barriers : doing[t] = Blocking(b)
        BY DEF SyncInv, Located
      <4>4. QED
        BY <4>1, <4>2, <4>3, CallFacts
    <3> HIDE DEF M, C, B, nm, nc, nb
    <3>5. nm + nc + nb = IF status[t] = "STALLED" THEN 1 ELSE 0
      <4>1. CASE M
        BY <3>1, <3>2, <3>3, <3>4, <4>1
      <4>2. CASE C
        BY <3>1, <3>2, <3>3, <3>4, <4>2
      <4>3. CASE B
        BY <3>1, <3>2, <3>3, <3>4, <4>3
      <4>4. CASE ~M /\ ~C /\ ~B
        BY <3>1, <3>2, <4>4
      <4>5. QED
        BY <4>1, <4>2, <4>3, <4>4
    <3>6. QED
      BY <3>5 DEF nm, nc, nb
  <2>2. \A m \in Mutexes : owner[m] = NoOwner => mutexQ[m] = <<>>
    BY DEF SyncInv, Owned
  <2>3. QED
    BY <2>1, <2>2 DEF NobodyForgotten
<1>4. QED
  BY <1>1, <1>2, <1>3 DEF SyncCorrect, SyncInv

\* The invariant of the pthread emulation: SyncServer's tables say where
\* every thread is.
THEOREM SyncInvariant == Spec => []SyncInv
  BY SyncInit, SyncStep, PTL DEF Spec

\* SimMutex, SimCond and SimBarrier keep their types, a mutex has one holder
\* and that is the owner on record, and no barrier lets a thread out before
\* every thread is in.
THEOREM SyncServerCorrect == Spec => []SyncCorrect
<1>1. SyncInv => SyncCorrect
  BY SyncInvImplies
<1>2. QED
  BY <1>1, SyncInvariant, PTL

\* A stalled thread is in exactly one queue of the servers and a running
\* thread in none.
THEOREM NobodyIsForgotten == Spec => []NobodyForgotten
<1>1. SyncInv => NobodyForgotten
  BY SyncInvImplies
<1>2. QED
  BY <1>1, SyncInvariant, PTL
=============================================================================
