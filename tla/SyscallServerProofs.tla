------------------------ MODULE SyscallServerProofs ------------------------
(***************************************************************************)
(* SyscallServer, for any number of threads and futex words, any wake      *)
(* counts and timeouts: every stalled thread is in exactly one queue of    *)
(* the server, a wait reports what ended it, and no wakeup is lost.        *)
(***************************************************************************)
EXTENDS SyscallServer, ThreadStallProofs

Count == Cardinality(Threads)
Times == 0 .. TimeMod \cup {Forever}

\* The threads of a queue are different threads.
Alone(q) == \A i, j \in DOMAIN q : q[i].thread = q[j].thread => i = j

\* The threads in the queue of a word, and in nanosleep.
Waits(u) == QueueOf(waiting[u])
Sleeps == QueueOf(sleeping)

\* Every stalled thread is in a queue and every queued thread is stalled.
Located ==
    \A t \in Threads :
        status[t] = "STALLED" <=> t \in Sleeps \/ \E u \in Uaddrs : t \in Waits(u)

\* Nobody is queued twice.
Apart ==
    /\ Alone(sleeping)
    /\ \A u \in Uaddrs : Alone(waiting[u]) /\ Waits(u) \cap Sleeps = {}
    /\ \A u, w \in Uaddrs : u # w => Waits(u) \cap Waits(w) = {}

\* A thread is stalled from stallThread on until somebody resumes it.
Placed ==
    \A t \in Threads :
        /\ where[t] \in {"user", "server", "woken"} => status[t] = "RUNNING"
        /\ where[t] = "wait" => status[t] = "STALLED"

\* The message of a thread that was resumed says how, until the call returns.
Answered ==
    \A t \in Threads :
        /\ where[t] # "user" => ret[t] = "none"
        /\ where[t] \in {"stalling", "woken"} /\ status[t] = "RUNNING" =>
              by[t] = IF msg[t] THEN "wake" ELSE "timeout"

\* The call that is under way belongs to a thread that holds the lock.
CallTypeOK ==
    /\ call.op # "none" => \E t \in Threads : where[t] = "server"
    /\ \/ call = NoCall
       \/ call \in [op : {"wait"}, u : Uaddrs, val : Words, act : Words,
                    left : Times, asked : Times]
       \/ /\ call \in [op : {"requeue"}, u : Uaddrs, u2 : Uaddrs, n : NrWakes,
                       val3 : Words, act : Words]
          /\ call.u # call.u2
       \/ /\ call \in [op : {"wakeop"}, u : Uaddrs, u2 : Uaddrs, n : NrWakes,
                       n2 : NrWakes, do : WakeOps, old : Words]
          /\ call.u # call.u2

\* Somebody has stored to u and not yet made its wake call.
Owed(u) == \E t \in Threads : <<t, u>> \in owes

\* The value a wait read is the value the word has, or a wake is coming; for
\* the waiters this is NoLostWakeup.
CallFresh == call.op = "wait" => call.act = mem[call.u] \/ Owed(call.u)

FutexInv ==
    /\ TypeOK /\ Located /\ Apart /\ Placed /\ Answered /\ CallTypeOK
    /\ ResultMatchesWaker /\ CallFresh /\ NoLostWakeup
-----------------------------------------------------------------------------
\* What a queue of waiters is made of.
LEMMA WaiterFacts ==
  ASSUME NEW q \in Seq(WaiterType)
  PROVE  /\ Len(q) \in Nat /\ DOMAIN q = 1..Len(q)
         /\ \A i \in DOMAIN q : q[i] \in WaiterType /\ q[i].thread \in Threads
         /\ QueueOf(q) \subseteq Threads
<1>1. Len(q) \in Nat /\ DOMAIN q = 1..Len(q)
  BY LenProperties
<1>2. \A i \in DOMAIN q : q[i] \in WaiterType
  BY <1>1, ElementOfSeq
<1>3. \A x \in WaiterType : x.thread \in Threads
  BY DEF WaiterType
<1>4. QED
  BY <1>1, <1>2, <1>3 DEF QueueOf

\* The threads of a queue, element by element.
LEMMA InQueueOf ==
  ASSUME NEW q, NEW t
  PROVE  t \in QueueOf(q) <=> \E i \in DOMAIN q : q[i].thread = t
  BY DEF QueueOf

\* A queue of different threads has room for all of them and no more.
LEMMA QueueLimit ==
  ASSUME NEW q \in Seq(WaiterType), Alone(q)
  PROVE  Len(q) <= Cardinality(Threads)
<1> DEFINE r == [i \in DOMAIN q |-> q[i].thread]
<1>1. /\ Len(q) \in Nat /\ DOMAIN q = 1..Len(q)
      /\ \A i \in DOMAIN q : q[i].thread \in Threads
  BY WaiterFacts
<1>2. r \in [1..Len(q) -> Threads]
  BY <1>1
<1>3. r \in Seq(Threads)
  BY <1>1, <1>2, SeqDef
<1>4. Distinct(r)
  BY DEF Alone, Distinct
<1>5. Len(r) = Len(q)
  BY <1>1, <1>3, LenProperties
<1>6. QED
  BY <1>3, <1>4, <1>5, QueueBound, SyscallAssumption

\* m_waiting.push_back.
LEMMA Enqueue ==
  ASSUME NEW q \in Seq(WaiterType), NEW e \in WaiterType
  PROVE  /\ Append(q, e) \in Seq(WaiterType)
         /\ \A k \in DOMAIN Append(q, e) :
               Append(q, e)[k] = e \/ \E i \in DOMAIN q : Append(q, e)[k] = q[i]
         /\ QueueOf(Append(q, e)) = QueueOf(q) \cup {e.thread}
         /\ Alone(q) /\ e.thread \notin QueueOf(q) => Alone(Append(q, e))
<1> DEFINE r == Append(q, e)
<1>1. /\ r \in Seq(WaiterType) /\ Len(r) = Len(q) + 1 /\ Len(q) \in Nat
      /\ DOMAIN q = 1..Len(q) /\ DOMAIN r = 1..(Len(q) + 1)
      /\ \A i \in 1..Len(q) : r[i] = q[i]
      /\ r[Len(q) + 1] = e
  BY AppendProperties, LenProperties
<1> HIDE DEF r
<1>2. /\ \A i \in DOMAIN r : i \in DOMAIN q \/ i = Len(q) + 1
      /\ \A i \in DOMAIN q : i \in DOMAIN r
      /\ Len(q) + 1 \in DOMAIN r
      /\ \A i \in DOMAIN q : r[i] = q[i]
  BY <1>1
<1>3. \A k \in DOMAIN r : r[k] = e \/ \E i \in DOMAIN q : r[k] = q[i]
  BY <1>1, <1>2
<1>4. \A t : t \in QueueOf(r) <=> t \in QueueOf(q) \cup {e.thread}
  <2>1. \A t : (\E i \in DOMAIN r : r[i].thread = t)
                  <=> (\E i \in DOMAIN q : q[i].thread = t) \/ e.thread = t
    BY <1>1, <1>2, Zenon
  <2>2. QED
    BY <2>1, InQueueOf
<1>5. ASSUME Alone(q), e.thread \notin QueueOf(q) PROVE Alone(r)
  <2>1. \A i \in DOMAIN q : q[i].thread # e.thread
    BY <1>5 DEF QueueOf
  <2>2. QED
    BY <1>1, <1>2, <1>5, <2>1, Zenon DEF Alone
<1>6. QED
  BY <1>1, <1>3, <1>4, <1>5 DEF r

\* m_waiting.erase: the waiters that leave are those of S.
LEMMA Dequeue ==
  ASSUME NEW q \in Seq(WaiterType), NEW S \in SUBSET DOMAIN q
  PROVE  /\ Without(q, S) \in Seq(WaiterType)
         /\ \A k \in DOMAIN Without(q, S) :
               \E i \in DOMAIN q \ S : Without(q, S)[k] = q[i]
         /\ Alone(q) => /\ Alone(Without(q, S))
                        /\ QueueOf(Without(q, S)) = QueueOf(q) \ {q[i].thread : i \in S}
<1> DEFINE W == DOMAIN q \ S
           r == Without(q, S)
<1>1. /\ r \in Seq(WaiterType)
      /\ \A k \in DOMAIN r : Nth(W, k) \in W /\ r[k] = q[Nth(W, k)]
      /\ \A k, l \in DOMAIN r : Nth(W, k) = Nth(W, l) => k = l
      /\ \A i \in W : \E k \in DOMAIN r : r[k] = q[i]
  <2>1. W \in SUBSET DOMAIN q
    OBVIOUS
  <2>2. r = InOrder(q, W)
    BY DEF Without
  <2> HIDE DEF W, r
  <2>3. QED
    BY <2>1, <2>2, InOrderFacts
<1>2. \A i : i \in W <=> i \in DOMAIN q /\ i \notin S
  OBVIOUS
<1> HIDE DEF W, r
<1>3. \A k \in DOMAIN r : \E i \in W : r[k] = q[i]
  BY <1>1
<1>4. ASSUME Alone(q) PROVE Alone(r) /\ QueueOf(r) = QueueOf(q) \ {q[i].thread : i \in S}
  <2>1. Alone(r)
    <3> SUFFICES ASSUME NEW k \in DOMAIN r, NEW l \in DOMAIN r, r[k].thread = r[l].thread
                 PROVE  k = l
      BY DEF Alone
    <3>1. /\ Nth(W, k) \in DOMAIN q /\ Nth(W, l) \in DOMAIN q
          /\ r[k] = q[Nth(W, k)] /\ r[l] = q[Nth(W, l)]
      BY <1>1, <1>2
    <3>2. Nth(W, k) = Nth(W, l)
      BY <1>4, <3>1 DEF Alone
    <3>3. QED
      BY <1>1, <3>2
  <2>2. ASSUME NEW t PROVE t \in QueueOf(r) <=> t \in QueueOf(q) \ {q[i].thread : i \in S}
    <3>a. t \in QueueOf(r) <=> \E k \in DOMAIN r : r[k].thread = t
      BY InQueueOf
    <3>1. t \in QueueOf(r) <=> \E i \in W : q[i].thread = t
      <4>1. ASSUME NEW k \in DOMAIN r, r[k].thread = t
            PROVE  \E i \in W : q[i].thread = t
        BY <1>1, <4>1
      <4>2. ASSUME NEW i \in W, q[i].thread = t
            PROVE  \E k \in DOMAIN r : r[k].thread = t
        <5>1. PICK k \in DOMAIN r : r[k] = q[i]
          BY <1>1
        <5>2. QED
          BY <4>2, <5>1
      <4>3. QED
        BY <3>a, <4>1, <4>2
    <3>2. (\E i \in W : q[i].thread = t) <=>
             t \in QueueOf(q) /\ ~\E i \in S : q[i].thread = t
      BY <1>2, <1>4 DEF QueueOf, Alone
    <3>3. QED
      BY <3>1, <3>2
  <2>3. QED
    BY <2>1, <2>2
<1>5. QED
  BY <1>1, <1>3, <1>4 DEF W, r

\* requeueWaiter moves waiters: the same threads, at the end of q.
LEMMA Requeue ==
  ASSUME NEW q \in Seq(WaiterType), NEW r \in Seq(WaiterType)
  PROVE  /\ q \o Moved(r) \in Seq(WaiterType)
         /\ \A k \in DOMAIN (q \o Moved(r)) :
               \/ (q \o Moved(r))[k].requeued
               \/ \E i \in DOMAIN q : (q \o Moved(r))[k] = q[i]
         /\ QueueOf(q \o Moved(r)) = QueueOf(q) \cup QueueOf(r)
         /\ Alone(q) /\ Alone(r) /\ QueueOf(q) \cap QueueOf(r) = {}
               => Alone(q \o Moved(r))
<1> DEFINE m == Moved(r)
           s == q \o m
<1>1. Len(r) \in Nat /\ DOMAIN r = 1..Len(r) /\ \A i \in DOMAIN r : r[i] \in WaiterType
  BY WaiterFacts
<1>2. \A x \in WaiterType : LET y == [x EXCEPT !.requeued = TRUE]
                            IN  y \in WaiterType /\ y.thread = x.thread /\ y.requeued
  BY DEF WaiterType
<1>3. /\ DOMAIN m = DOMAIN r
      /\ \A i \in DOMAIN r : /\ m[i] \in WaiterType /\ m[i].thread = r[i].thread
                             /\ m[i].requeued
  BY <1>1, <1>2 DEF Moved
<1>4. m \in Seq(WaiterType)
  <2>1. m \in [1..Len(r) -> WaiterType]
    BY <1>1, <1>3 DEF Moved
  <2>2. QED
    BY <1>1, <2>1, SeqDef
<1> HIDE DEF m
<1>5. Len(m) = Len(r)
  BY <1>1, <1>3, <1>4, LenProperties
<1>6. /\ s \in Seq(WaiterType) /\ Len(q) \in Nat /\ DOMAIN q = 1..Len(q)
      /\ DOMAIN s = 1..(Len(q) + Len(r))
      /\ \A i \in DOMAIN s : s[i] = IF i <= Len(q) THEN q[i] ELSE m[i - Len(q)]
  <2>1. /\ s \in Seq(WaiterType) /\ Len(s) = Len(q) + Len(m)
        /\ \A i \in 1..(Len(q) + Len(m)) :
              s[i] = IF i <= Len(q) THEN q[i] ELSE m[i - Len(q)]
    BY <1>4, ConcatProperties
  <2>2. Len(q) \in Nat /\ DOMAIN q = 1..Len(q)
    BY LenProperties
  <2>3. DOMAIN s = 1..Len(s)
    BY <2>1, LenProperties
  <2>4. QED
    BY <1>5, <2>1, <2>2, <2>3
<1> HIDE DEF s
<1>7. /\ \A i \in DOMAIN s : \/ i \in DOMAIN q /\ s[i] = q[i]
                             \/ i - Len(q) \in DOMAIN r /\ s[i] = m[i - Len(q)]
      /\ \A i \in DOMAIN q : i \in DOMAIN s /\ s[i] = q[i]
      /\ \A i \in DOMAIN r : i + Len(q) \in DOMAIN s /\ s[i + Len(q)] = m[i]
  BY <1>1, <1>6
<1>8. \A k \in DOMAIN s : s[k].requeued \/ \E i \in DOMAIN q : s[k] = q[i]
  BY <1>3, <1>7
<1>9. \A t : t \in QueueOf(s) <=> t \in QueueOf(q) \/ t \in QueueOf(r)
  <2>1. \A t : (\E i \in DOMAIN s : s[i].thread = t) <=>
                  \/ \E i \in DOMAIN q : q[i].thread = t
                  \/ \E i \in DOMAIN r : r[i].thread = t
    BY <1>3, <1>7
  <2>2. ASSUME NEW t
        PROVE  t \in QueueOf(s) <=> t \in QueueOf(q) \/ t \in QueueOf(r)
    <3>1. t \in QueueOf(s) <=> \E i \in DOMAIN s : s[i].thread = t
      BY DEF QueueOf
    <3>2. t \in QueueOf(q) <=> \E i \in DOMAIN q : q[i].thread = t
      BY DEF QueueOf
    <3>3. t \in QueueOf(r) <=> \E i \in DOMAIN r : r[i].thread = t
      BY DEF QueueOf
    <3>4. QED
      BY <2>1, <3>1, <3>2, <3>3, Zenon
  <2>3. QED
    BY <2>2
<1>10. ASSUME Alone(q), Alone(r), QueueOf(q) \cap QueueOf(r) = {} PROVE Alone(s)
  <2> SUFFICES ASSUME NEW k \in DOMAIN s, NEW l \in DOMAIN s, s[k].thread = s[l].thread
               PROVE  k = l
    BY DEF Alone
  <2>1. \A i \in DOMAIN q, j \in DOMAIN r : q[i].thread # r[j].thread
    BY <1>10 DEF QueueOf
  <2>2. CASE k \in DOMAIN q /\ s[k] = q[k] /\ l \in DOMAIN q /\ s[l] = q[l]
    BY <1>10, <2>2 DEF Alone
  <2>3. CASE /\ k - Len(q) \in DOMAIN r /\ s[k] = m[k - Len(q)]
             /\ l - Len(q) \in DOMAIN r /\ s[l] = m[l - Len(q)]
    <3>1. r[k - Len(q)].thread = r[l - Len(q)].thread
      BY <1>3, <2>3
    <3>2. k - Len(q) = l - Len(q)
      BY <1>10, <2>3, <3>1 DEF Alone
    <3>3. k \in Int /\ l \in Int
      BY <1>6
    <3>4. QED
      BY <1>6, <3>2, <3>3
  <2>4. CASE k \in DOMAIN q /\ s[k] = q[k] /\ l - Len(q) \in DOMAIN r /\ s[l] = m[l - Len(q)]
    BY <1>3, <2>1, <2>4
  <2>5. CASE l \in DOMAIN q /\ s[l] = q[l] /\ k - Len(q) \in DOMAIN r /\ s[k] = m[k - Len(q)]
    BY <1>3, <2>1, <2>5
  <2>6. QED
    BY <1>7, <2>2, <2>3, <2>4, <2>5
<1>11. QED
  BY <1>6, <1>8, <1>9, <1>10 DEF m, s

\* A quantum changes no more than the time the waiters of a queue have left.
LEMMA Ageing ==
  ASSUME NEW q \in Seq(WaiterType)
  PROVE  /\ Aged(q) \in Seq(WaiterType) /\ DOMAIN Aged(q) = DOMAIN q
         /\ \A i \in DOMAIN q : /\ Aged(q)[i].thread = q[i].thread
                                /\ Aged(q)[i].val = q[i].val
                                /\ Aged(q)[i].requeued = q[i].requeued
         /\ QueueOf(Aged(q)) = QueueOf(q)
         /\ Alone(q) => Alone(Aged(q))
<1> DEFINE less(n) == IF n > 0 THEN n - 1 ELSE n
           old(x) == [x EXCEPT !.left = less(@), !.asked = less(@)]
<1>1. \A n \in Times : less(n) \in Times
  BY SyscallAssumption DEF Times, Forever
<1>2. \A x \in WaiterType : /\ old(x) \in WaiterType /\ old(x).thread = x.thread
                            /\ old(x).val = x.val /\ old(x).requeued = x.requeued
  <2> HIDE DEF less
  <2>1. QED
    BY <1>1 DEF WaiterType, Times
<1>3. Len(q) \in Nat /\ DOMAIN q = 1..Len(q) /\ \A i \in DOMAIN q : q[i] \in WaiterType
  BY WaiterFacts
<1>4. Aged(q) = [i \in DOMAIN q |-> old(q[i])]
  BY DEF Aged
<1> HIDE DEF old
<1>5. Aged(q) \in [1..Len(q) -> WaiterType]
  BY <1>2, <1>3, <1>4
<1>6. Aged(q) \in Seq(WaiterType)
  BY <1>3, <1>5, SeqDef
<1>7. DOMAIN Aged(q) = DOMAIN q /\ \A i \in DOMAIN q : Aged(q)[i] = old(q[i])
  BY <1>4
<1>8. \A i \in DOMAIN q : /\ Aged(q)[i].thread = q[i].thread
                          /\ Aged(q)[i].val = q[i].val
                          /\ Aged(q)[i].requeued = q[i].requeued
  BY <1>2, <1>3, <1>7
<1>9. QueueOf(Aged(q)) = QueueOf(q)
  BY <1>7, <1>8 DEF QueueOf
<1>10. Alone(q) => Alone(Aged(q))
  BY <1>7, <1>8 DEF Alone
<1>11. QED
  BY <1>6, <1>7, <1>8, <1>9, <1>10
-----------------------------------------------------------------------------
\* The parts of the type invariant.
LEMMA TypeFacts ==
  ASSUME TypeOK
  PROVE  /\ status \in [Threads -> {"RUNNING", "STALLED"}]
         /\ where \in [Threads -> Places] /\ msg \in [Threads -> BOOLEAN]
         /\ mem \in [Uaddrs -> Words]
         /\ waiting \in [Uaddrs -> Seq(WaiterType)]
         /\ sleeping \in Seq(WaiterType)
         /\ ret \in [Threads -> {"none", "0", "EWOULDBLOCK", "ETIMEDOUT"}]
         /\ by \in [Threads -> {"none", "wake", "timeout"}]
         /\ owes \subseteq Threads \X Uaddrs
  BY DEF TypeOK, StallTypeOK

\* A running thread is in no queue.
LEMMA RunningUnqueued ==
  ASSUME TypeOK, Located, NEW t \in Threads, status[t] = "RUNNING"
  PROVE  t \notin Sleeps /\ \A u \in Uaddrs : t \notin Waits(u)
  BY DEF Located

\* The threads of one queue, and no others, are those the queue's positions
\* name; they are stalled.
LEMMA QueuedStalled ==
  ASSUME FutexInv
  PROVE  /\ Sleeps \subseteq Threads /\ \A t \in Sleeps : status[t] = "STALLED"
         /\ \A u \in Uaddrs : /\ Waits(u) \subseteq Threads
                              /\ \A t \in Waits(u) : status[t] = "STALLED"
<1>1. sleeping \in Seq(WaiterType) /\ \A u \in Uaddrs : waiting[u] \in Seq(WaiterType)
  BY TypeFacts DEF FutexInv
<1>2. Sleeps \subseteq Threads
  BY <1>1, WaiterFacts DEF Sleeps
<1>3. \A u \in Uaddrs : Waits(u) \subseteq Threads
  BY <1>1, WaiterFacts DEF Waits
<1>4. QED
  BY <1>2, <1>3 DEF FutexInv, Located

\* No queue outgrows the number of threads, whatever step is taken.
LEMMA QueueLimits ==
  ASSUME NEW w \in [Uaddrs -> Seq(WaiterType)], NEW z \in Seq(WaiterType),
         Alone(z), \A u \in Uaddrs : Alone(w[u])
  PROVE  \A q \in {z} \cup {w[u] : u \in Uaddrs} : Len(q) <= Cardinality(Threads)
<1>1. Len(z) <= Cardinality(Threads)
  BY QueueLimit
<1>2. ASSUME NEW u \in Uaddrs PROVE Len(w[u]) <= Cardinality(Threads)
  <2>1. w[u] \in Seq(WaiterType)
    OBVIOUS
  <2>2. QED
    BY <2>1, QueueLimit
<1>3. QED
  BY <1>1, <1>2

\* What a caller leaves of where the threads are: its own call may end.
Returning(places) ==
    /\ places \in [Threads -> Places]
    /\ \A t \in Threads : \/ places[t] = where[t]
                          \/ where[t] = "server" /\ places[t] = "user"

\* resumeThread for the stalled threads of S, by a wake call or after a
\* timeout, when the caller's own call may end in the same step.
Woken(S, places, why) ==
    /\ S \subseteq Threads /\ \A t \in S : status[t] = "STALLED"
    /\ why \in {"wake", "timeout"}
    /\ Returning(places)
    /\ status' = Resumed(S)
    /\ where' = Signalled(S, places)
    /\ msg' = Messages(S, why = "wake")
    /\ by' = [t \in Threads |-> IF t \in S THEN why ELSE by[t]]
    /\ ret' = ret

\* What resuming stalled threads does to the threads: those resumed, and no
\* others, run again and will find the message.
LEMMA WakeThreads ==
  ASSUME FutexInv, NEW S, NEW places, NEW why, Woken(S, places, why)
  PROVE  /\ StallTypeOK' /\ ret' \in [Threads -> {"none", "0", "EWOULDBLOCK", "ETIMEDOUT"}]
         /\ by' \in [Threads -> {"none", "wake", "timeout"}]
         /\ Placed' /\ Answered' /\ ResultMatchesWaker'
         /\ \A t \in Threads : /\ status'[t] = "STALLED" <=> status[t] = "STALLED" /\ t \notin S
                               /\ where'[t] = "server" <=> places[t] = "server"
<1>1. /\ status \in [Threads -> {"RUNNING", "STALLED"}]
      /\ where \in [Threads -> Places] /\ msg \in [Threads -> BOOLEAN]
      /\ ret \in [Threads -> {"none", "0", "EWOULDBLOCK", "ETIMEDOUT"}]
      /\ by \in [Threads -> {"none", "wake", "timeout"}]
  BY TypeFacts DEF FutexInv
<1>2. \A t \in Threads :
         /\ status'[t] = IF t \in S THEN "RUNNING" ELSE status[t]
         /\ where'[t] = IF t \in S /\ places[t] = "wait" THEN "woken" ELSE places[t]
         /\ msg'[t] = IF t \in S THEN why = "wake" ELSE msg[t]
         /\ by'[t] = IF t \in S THEN why ELSE by[t]
         /\ ret'[t] = ret[t]
  BY DEF Woken, Resumed, Signalled, Messages
<1>3. StallTypeOK'
  BY <1>1 DEF Woken, Resumed, Signalled, Messages, Returning, Places, StallTypeOK
<1>4. ret' \in [Threads -> {"none", "0", "EWOULDBLOCK", "ETIMEDOUT"}]
  BY <1>1 DEF Woken
<1>5. by' \in [Threads -> {"none", "wake", "timeout"}]
  BY <1>1 DEF Woken
<1>6. \A t \in Threads :
         /\ where[t] \in {"user", "server", "woken"} => status[t] = "RUNNING"
         /\ where[t] = "wait" => status[t] = "STALLED"
         /\ where[t] # "user" => ret[t] = "none"
         /\ where[t] \in {"stalling", "woken"} /\ status[t] = "RUNNING" =>
               by[t] = IF msg[t] THEN "wake" ELSE "timeout"
         /\ ret[t] = "0" => by[t] = "wake"
         /\ ret[t] = "ETIMEDOUT" => by[t] = "timeout"
  BY DEF FutexInv, Placed, Answered, ResultMatchesWaker
<1>a. /\ why \in {"wake", "timeout"} /\ \A t \in S : status[t] = "STALLED"
      /\ \A t \in Threads : \/ places[t] = where[t]
                            \/ where[t] = "server" /\ places[t] = "user"
  BY DEF Woken, Returning
<1>7. Placed'
  BY <1>2, <1>6, <1>a DEF Placed
<1>8. Answered'
  <2> SUFFICES ASSUME NEW t \in Threads
               PROVE  /\ where'[t] # "user" => ret'[t] = "none"
                      /\ where'[t] \in {"stalling", "woken"} /\ status'[t] = "RUNNING" =>
                            by'[t] = IF msg'[t] THEN "wake" ELSE "timeout"
    BY DEF Answered
  <2>1. where'[t] # "user" => ret'[t] = "none"
    BY <1>2, <1>6, <1>a
  <2>2. CASE t \in S
    <3>1. by'[t] = why /\ msg'[t] = (why = "wake")
      BY <1>2, <2>2
    <3>2. QED
      BY <1>a, <2>1, <3>1
  <2>3. CASE t \notin S
    <3>1. /\ by'[t] = by[t] /\ msg'[t] = msg[t] /\ status'[t] = status[t]
          /\ where'[t] \in {"stalling", "woken"} => where[t] = where'[t]
      BY <1>2, <1>a, <2>3
    <3>2. QED
      BY <1>6, <2>1, <3>1
  <2>4. QED
    BY <2>2, <2>3
<1>9. ResultMatchesWaker'
  BY <1>2, <1>6, <1>a DEF ResultMatchesWaker
<1>10. QED
  BY <1>2, <1>3, <1>4, <1>5, <1>7, <1>8, <1>9, <1>a

\* What a step that resumes the threads of S does to the queues: those threads
\* leave them, the others stay or are requeued, and a word whose waiters stay
\* keeps its value or its next wake call.
Resumes(S) ==
    /\ waiting' \in [Uaddrs -> Seq(WaiterType)] /\ sleeping' \in Seq(WaiterType)
    /\ Apart'
    /\ \A t \in Threads :
          (t \in Sleeps \/ \E u \in Uaddrs : t \in Waits(u))' <=>
             (t \in Sleeps \/ \E u \in Uaddrs : t \in Waits(u)) /\ t \notin S
    /\ mem' \in [Uaddrs -> Words] /\ owes' \subseteq Threads \X Uaddrs
    /\ \A u \in Uaddrs : \A k \in DOMAIN waiting'[u] :
          \/ waiting'[u][k].requeued
          \/ \E i \in DOMAIN waiting[u] :
                /\ waiting'[u][k].val = waiting[u][i].val
                /\ waiting'[u][k].requeued = waiting[u][i].requeued
    /\ \A u \in Uaddrs : \/ waiting'[u] = <<>>
                         \/ (mem'[u] = mem[u] /\ (Owed(u) => Owed(u)'))
                         \/ Owed(u)'

\* Every step that resumes threads keeps the invariant.
LEMMA WakeStep ==
  ASSUME FutexInv, NEW S, NEW places, NEW why, Woken(S, places, why),
         Resumes(S),
         call' = NoCall \/ (UNCHANGED <<call, mem, owes>> /\ places = where)
  PROVE  FutexInv'
<1>1. /\ StallTypeOK' /\ ret' \in [Threads -> {"none", "0", "EWOULDBLOCK", "ETIMEDOUT"}]
      /\ by' \in [Threads -> {"none", "wake", "timeout"}]
      /\ Placed' /\ Answered' /\ ResultMatchesWaker'
      /\ \A t \in Threads : /\ status'[t] = "STALLED" <=> status[t] = "STALLED" /\ t \notin S
                            /\ where'[t] = "server" <=> places[t] = "server"
  BY WakeThreads
<1>2. Located'
  BY <1>1 DEF FutexInv, Located, Resumes
<1>3. CallTypeOK' /\ CallFresh' /\ call'.op \in {"none", "wait", "requeue", "wakeop"}
  <2>1. CASE call' = NoCall
    BY <2>1 DEF CallTypeOK, CallFresh, NoCall
  <2>2. CASE UNCHANGED <<call, mem, owes>> /\ places = where
    <3>1. call.op \in {"none", "wait", "requeue", "wakeop"}
      BY DEF FutexInv, TypeOK
    <3>2. CallTypeOK'
      BY <1>1, <2>2 DEF FutexInv, CallTypeOK
    <3>3. CallFresh'
      BY <2>2 DEF FutexInv, CallFresh, Owed
    <3>4. QED
      BY <2>2, <3>1, <3>2, <3>3
  <2>3. QED
    BY <2>1, <2>2
<1>4. TypeOK'
  <2>1. Alone(sleeping') /\ \A u \in Uaddrs : Alone(waiting'[u])
    BY DEF Resumes, Apart
  <2>2. \A q \in {sleeping'} \cup {waiting'[u] : u \in Uaddrs} : Len(q) <= Cardinality(Threads)
    BY <2>1, QueueLimits DEF Resumes
  <2>3. QED
    BY <1>1, <1>3, <2>2 DEF Resumes, TypeOK
<1>5. NoLostWakeup'
  <2> SUFFICES ASSUME NEW u \in Uaddrs, NEW k \in DOMAIN waiting'[u], ~waiting'[u][k].requeued
               PROVE  waiting'[u][k].val = mem'[u] \/ Owed(u)'
    BY DEF NoLostWakeup, Owed
  <2>1. PICK i \in DOMAIN waiting[u] : /\ waiting'[u][k].val = waiting[u][i].val
                                       /\ ~waiting[u][i].requeued
    BY DEF Resumes
  <2>2. waiting[u][i].val = mem[u] \/ Owed(u)
    BY <2>1 DEF FutexInv, NoLostWakeup, Owed
  <2>3. waiting'[u] # <<>>
    OBVIOUS
  <2>4. QED
    BY <2>1, <2>2, <2>3 DEF Resumes
<1>6. QED
  BY <1>1, <1>2, <1>3, <1>4, <1>5 DEF FutexInv, Resumes

\* The threads that dequeueWaiter takes are stalled, and the others stay.
LEMMA TakeWaiters ==
  ASSUME FutexInv, NEW u \in Uaddrs, NEW P \in SUBSET DOMAIN waiting[u]
  PROVE  LET T == {waiting[u][i].thread : i \in P}
             rest == Without(waiting[u], P)
         IN  /\ T \subseteq Waits(u) /\ T \subseteq Threads
             /\ \A t \in T : status[t] = "STALLED"
             /\ rest \in Seq(WaiterType) /\ Alone(rest)
             /\ QueueOf(rest) = Waits(u) \ T
             /\ \A k \in DOMAIN rest : \E i \in DOMAIN waiting[u] : rest[k] = waiting[u][i]
<1>1. waiting[u] \in Seq(WaiterType) /\ Alone(waiting[u])
  BY TypeFacts DEF FutexInv, Apart
<1>2. /\ Without(waiting[u], P) \in Seq(WaiterType)
      /\ \A k \in DOMAIN Without(waiting[u], P) :
            \E i \in DOMAIN waiting[u] \ P : Without(waiting[u], P)[k] = waiting[u][i]
      /\ Alone(Without(waiting[u], P))
      /\ QueueOf(Without(waiting[u], P)) =
            QueueOf(waiting[u]) \ {waiting[u][i].thread : i \in P}
  BY <1>1, Dequeue
<1>3. {waiting[u][i].thread : i \in P} \subseteq Waits(u)
  BY DEF Waits, QueueOf
<1>4. Waits(u) \subseteq Threads /\ \A t \in Waits(u) : status[t] = "STALLED"
  BY QueuedStalled
<1>5. QED
  BY <1>2, <1>3, <1>4 DEF Waits

\* When each queue loses the threads of S and no other, nobody is queued
\* twice and only they have left.
LEMMA QueuesShrink ==
  ASSUME FutexInv, NEW S, Sleeps' = Sleeps \ S, \A u \in Uaddrs : Waits(u)' = Waits(u) \ S,
         Alone(sleeping)', \A u \in Uaddrs : Alone(waiting[u])'
  PROVE  /\ Apart'
         /\ \A t \in Threads :
              (t \in Sleeps \/ \E u \in Uaddrs : t \in Waits(u))' <=>
                 (t \in Sleeps \/ \E u \in Uaddrs : t \in Waits(u)) /\ t \notin S
<1>1. /\ \A u \in Uaddrs : Waits(u) \cap Sleeps = {}
      /\ \A u, w \in Uaddrs : u # w => Waits(u) \cap Waits(w) = {}
  BY DEF FutexInv, Apart
<1>2. Apart'
  BY <1>1 DEF Apart
<1>3. QED
  BY <1>2

\* futexWake.
LEMMA FutexWakeStep ==
  ASSUME FutexInv, NEW t \in Threads, NEW u \in Uaddrs, NEW n \in NrWakes, FutexWake(t, u, n)
  PROVE  FutexInv'
<1> DEFINE P == Dequeued(waiting[u], n)
<1>0. PICK T, rest, places : /\ T = {waiting[u][i].thread : i \in P}
                             /\ rest = Without(waiting[u], P)
                             /\ places = where
  OBVIOUS
<1>1. /\ T \subseteq Waits(u) /\ T \subseteq Threads
      /\ \A v \in T : status[v] = "STALLED"
      /\ rest \in Seq(WaiterType) /\ Alone(rest)
      /\ QueueOf(rest) = Waits(u) \ T
      /\ \A k \in DOMAIN rest : \E i \in DOMAIN waiting[u] : rest[k] = waiting[u][i]
  <2>1. P \in SUBSET DOMAIN waiting[u]
    BY DEF Dequeued
  <2> HIDE DEF P
  <2>2. QED
    BY <1>0, <2>1, TakeWaiters
<1>2. /\ waiting' = [waiting EXCEPT ![u] = rest]
      /\ Woken(T, places, "wake")
      /\ owes' = owes \ Paid(t, u, rest)
      /\ LockFree /\ UNCHANGED <<mem, sleeping, call>>
  <2>1. Returning(places)
    BY <1>0, TypeFacts DEF FutexInv, Returning
  <2>2. QED
    BY <1>0, <1>1, <2>1 DEF FutexWake, Woken, WokenBy
<1>4. call' = NoCall
  <2>1. \A v \in Threads : where[v] # "server"
    BY <1>2 DEF LockFree
  <2>2. call = NoCall
    BY <2>1 DEF FutexInv, CallTypeOK
  <2>3. QED
    BY <1>2, <2>2
<1>5. /\ waiting \in [Uaddrs -> Seq(WaiterType)] /\ sleeping \in Seq(WaiterType)
      /\ mem \in [Uaddrs -> Words] /\ owes \subseteq Threads \X Uaddrs
  BY TypeFacts DEF FutexInv
<1>6. /\ waiting' \in [Uaddrs -> Seq(WaiterType)]
      /\ waiting'[u] = rest /\ \A w \in Uaddrs \ {u} : waiting'[w] = waiting[w]
  BY <1>1, <1>2, <1>5
<1>7. Resumes(T)
  <2>1. /\ Alone(sleeping) /\ \A w \in Uaddrs : Alone(waiting[w]) /\ Waits(w) \cap Sleeps = {}
        /\ \A v, w \in Uaddrs : v # w => Waits(v) \cap Waits(w) = {}
    BY DEF FutexInv, Apart
  <2>2. Sleeps' = Sleeps \ T
    BY <1>1, <1>2, <2>1 DEF Sleeps
  <2>3. \A w \in Uaddrs : Waits(w)' = Waits(w) \ T
    BY <1>1, <1>6, <2>1 DEF Waits
  <2>4. Alone(sleeping)' /\ \A w \in Uaddrs : Alone(waiting[w])'
    BY <1>1, <1>2, <1>6, <2>1
  <2>5. /\ Apart'
        /\ \A v \in Threads :
              (v \in Sleeps \/ \E w \in Uaddrs : v \in Waits(w))' <=>
                 (v \in Sleeps \/ \E w \in Uaddrs : v \in Waits(w)) /\ v \notin T
    BY <2>2, <2>3, <2>4, QueuesShrink
  <2>6. \A w \in Uaddrs : \A k \in DOMAIN waiting'[w] :
           \E i \in DOMAIN waiting[w] : waiting'[w][k] = waiting[w][i]
    BY <1>1, <1>6
  <2>7. \A w \in Uaddrs : waiting'[w] = <<>> \/ (Owed(w) => Owed(w)')
    BY <1>2, <1>6 DEF Owed, Paid
  <2>8. /\ mem' \in [Uaddrs -> Words] /\ owes' \subseteq Threads \X Uaddrs
        /\ sleeping' \in Seq(WaiterType) /\ \A w \in Uaddrs : mem'[w] = mem[w]
    BY <1>2, <1>5
  <2>9. \A w \in Uaddrs : \A k \in DOMAIN waiting'[w] :
          \/ waiting'[w][k].requeued
          \/ \E i \in DOMAIN waiting[w] :
                /\ waiting'[w][k].val = waiting[w][i].val
                /\ waiting'[w][k].requeued = waiting[w][i].requeued
    BY <2>6
  <2>10. QED
    BY <1>6, <2>5, <2>7, <2>8, <2>9 DEF Resumes
<1>8. QED
  BY <1>2, <1>4, <1>7, WakeStep

\* The values of the calls that hold the lock between two steps.
LEMMA CallValues ==
  ASSUME FutexInv
  PROVE  /\ call.op = "wait" =>
               /\ call.u \in Uaddrs /\ call.val \in Words /\ call.act \in Words
               /\ call.left \in Times /\ call.asked \in Times
         /\ call.op = "requeue" => /\ call.u \in Uaddrs /\ call.u2 \in Uaddrs
                                   /\ call.u # call.u2
         /\ call.op = "wakeop" => /\ call.u \in Uaddrs /\ call.u2 \in Uaddrs
                                  /\ call.u # call.u2
                                  /\ call.do \in WakeOps /\ call.old \in Words
  BY DEF FutexInv, CallTypeOK, NoCall

\* futexDoOp computes a word.
LEMMA NewValType ==
  ASSUME NEW o \in WakeOps, NEW old \in Words
  PROVE  NewVal(o, old) \in Words
<1>1. o.op \in {"SET", "ADD", "OR", "ANDN", "XOR"} /\ o.oparg \in {0, 1}
  BY SyscallAssumption
<1>2. \A a, b \in {0, 1} : (a + b) % 2 \in {0, 1}
  OBVIOUS
<1>3. QED
  BY <1>1, <1>2 DEF NewVal, Words

\* futexWakeOp: two queues lose waiters.
LEMMA FutexWakeOpStep ==
  ASSUME FutexInv, NEW t \in Threads, FutexWakeOp(t)
  PROVE  FutexInv'
<1>a. where[t] = "server" /\ call.op = "wakeop"
  BY DEF FutexWakeOp
<1>b. PICK u, u2 : u = call.u /\ u2 = call.u2
  OBVIOUS
<1>c. /\ u \in Uaddrs /\ u2 \in Uaddrs /\ u # u2
      /\ NewVal(call.do, call.old) \in Words
  BY <1>a, <1>b, CallValues, NewValType
<1> DEFINE P == Dequeued(waiting[u], call.n)
           P2 == IF OpRet(call.do, call.old) THEN Dequeued(waiting[u2], call.n2) ELSE {}
<1>0. PICK T1, T2, S, rest, rest2, places :
           /\ T1 = {waiting[u][i].thread : i \in P}
           /\ T2 = {waiting[u2][i].thread : i \in P2}
           /\ S = T1 \cup T2
           /\ rest = Without(waiting[u], P) /\ rest2 = Without(waiting[u2], P2)
           /\ places = [where EXCEPT ![t] = "user"]
  OBVIOUS
<1>1. /\ T1 \subseteq Waits(u) /\ T1 \subseteq Threads
      /\ \A v \in T1 : status[v] = "STALLED"
      /\ rest \in Seq(WaiterType) /\ Alone(rest)
      /\ QueueOf(rest) = Waits(u) \ T1
      /\ \A k \in DOMAIN rest : \E i \in DOMAIN waiting[u] : rest[k] = waiting[u][i]
  <2>1. P \in SUBSET DOMAIN waiting[u]
    BY DEF Dequeued
  <2> HIDE DEF P
  <2>2. QED
    BY <1>0, <1>c, <2>1, TakeWaiters
<1>2. /\ T2 \subseteq Waits(u2) /\ T2 \subseteq Threads
      /\ \A v \in T2 : status[v] = "STALLED"
      /\ rest2 \in Seq(WaiterType) /\ Alone(rest2)
      /\ QueueOf(rest2) = Waits(u2) \ T2
      /\ \A k \in DOMAIN rest2 : \E i \in DOMAIN waiting[u2] : rest2[k] = waiting[u2][i]
  <2>1. P2 \in SUBSET DOMAIN waiting[u2]
    BY DEF Dequeued
  <2> HIDE DEF P2
  <2>2. QED
    BY <1>0, <1>c, <2>1, TakeWaiters
<1>3. /\ mem' = [mem EXCEPT ![u2] = NewVal(call.do, call.old)]
      /\ waiting' = [waiting EXCEPT ![u] = rest, ![u2] = rest2]
      /\ owes' = (owes \cup (IF NewVal(call.do, call.old) # mem[u2]
                             THEN {<<t, u2>>} ELSE {}))
                    \ (Paid(t, u, rest) \cup Paid(t, u2, rest2))
      /\ call' = NoCall /\ UNCHANGED sleeping
  BY <1>0, <1>b DEF FutexWakeOp
<1>4. Woken(S, places, "wake")
  <2>1. Returning(places)
    BY <1>0, <1>a, TypeFacts DEF FutexInv, Returning, Places
  <2>2. /\ status' = Resumed(S) /\ where' = Signalled(S, places)
        /\ msg' = Messages(S, TRUE) /\ by' = WokenBy(S) /\ ret' = ret
    BY <1>0, <1>b DEF FutexWakeOp
  <2>3. S \subseteq Threads /\ \A v \in S : status[v] = "STALLED"
    BY <1>0, <1>1, <1>2
  <2>4. QED
    BY <2>1, <2>2, <2>3 DEF Woken, WokenBy
<1>5. /\ waiting \in [Uaddrs -> Seq(WaiterType)] /\ sleeping \in Seq(WaiterType)
      /\ mem \in [Uaddrs -> Words] /\ owes \subseteq Threads \X Uaddrs
  BY TypeFacts DEF FutexInv
<1>6. /\ waiting' \in [Uaddrs -> Seq(WaiterType)]
      /\ waiting'[u] = rest /\ waiting'[u2] = rest2
      /\ \A w \in Uaddrs \ {u, u2} : waiting'[w] = waiting[w]
  BY <1>1, <1>2, <1>3, <1>5, <1>c
<1>7. Resumes(S)
  <2>1. /\ Alone(sleeping) /\ \A w \in Uaddrs : Alone(waiting[w]) /\ Waits(w) \cap Sleeps = {}
        /\ \A v, w \in Uaddrs : v # w => Waits(v) \cap Waits(w) = {}
    BY DEF FutexInv, Apart
  <2>2. Sleeps' = Sleeps \ S
    BY <1>0, <1>1, <1>2, <1>3, <1>c, <2>1 DEF Sleeps
  <2>3. \A w \in Uaddrs : Waits(w)' = Waits(w) \ S
    <3>1. Waits(u)' = Waits(u) \ S
      BY <1>0, <1>1, <1>2, <1>6, <1>c, <2>1 DEF Waits
    <3>2. Waits(u2)' = Waits(u2) \ S
      BY <1>0, <1>1, <1>2, <1>6, <1>c, <2>1 DEF Waits
    <3>3. \A w \in Uaddrs \ {u, u2} : Waits(w)' = Waits(w) \ S
      BY <1>0, <1>1, <1>2, <1>6, <1>c, <2>1 DEF Waits
    <3>4. QED
      BY <3>1, <3>2, <3>3
  <2>4. Alone(sleeping)' /\ \A w \in Uaddrs : Alone(waiting[w])'
    BY <1>1, <1>2, <1>3, <1>6, <2>1
  <2>5. /\ Apart'
        /\ \A v \in Threads :
              (v \in Sleeps \/ \E w \in Uaddrs : v \in Waits(w))' <=>
                 (v \in Sleeps \/ \E w \in Uaddrs : v \in Waits(w)) /\ v \notin S
    BY <2>2, <2>3, <2>4, QueuesShrink
  <2>6. \A w \in Uaddrs : \A k \in DOMAIN waiting'[w] :
           \E i \in DOMAIN waiting[w] : waiting'[w][k] = waiting[w][i]
    BY <1>1, <1>2, <1>6
  <2>7. \A w \in Uaddrs : \/ waiting'[w] = <<>>
                          \/ (mem'[w] = mem[w] /\ (Owed(w) => Owed(w)'))
                          \/ Owed(w)'
    <3>1. \A w \in Uaddrs \ {u2} : mem'[w] = mem[w]
      BY <1>3, <1>5
    <3>2. mem'[u2] = NewVal(call.do, call.old)
      BY <1>3, <1>5, <1>c
    <3>3. ASSUME NEW w \in Uaddrs, waiting'[w] # <<>>, NEW v \in Threads, <<v, w>> \in owes
          PROVE  <<v, w>> \in owes'
      BY <1>3, <1>6, <3>3 DEF Paid
    <3>4. \A w \in Uaddrs : waiting'[w] # <<>> => (Owed(w) => Owed(w)')
      BY <3>3 DEF Owed
    <3>5. waiting'[u2] # <<>> /\ mem'[u2] # mem[u2] => <<t, u2>> \in owes'
      BY <1>3, <1>6, <1>c, <3>2 DEF Paid
    <3>6. QED
      BY <3>1, <3>4, <3>5, <1>c DEF Owed
  <2>8. /\ mem' \in [Uaddrs -> Words] /\ owes' \subseteq Threads \X Uaddrs
        /\ sleeping' \in Seq(WaiterType)
    BY <1>3, <1>5, <1>c
  <2>9. \A w \in Uaddrs : \A k \in DOMAIN waiting'[w] :
          \/ waiting'[w][k].requeued
          \/ \E i \in DOMAIN waiting[w] :
                /\ waiting'[w][k].val = waiting[w][i].val
                /\ waiting'[w][k].requeued = waiting[w][i].requeued
    BY <2>6
  <2>10. QED
    BY <1>6, <2>5, <2>7, <2>8, <2>9 DEF Resumes
<1>8. QED
  BY <1>3, <1>4, <1>7, WakeStep

\* futexCmpRequeue: the first waiters are woken, the others move to u2.
LEMMA FutexCmpRequeueStep ==
  ASSUME FutexInv, NEW t \in Threads, FutexCmpRequeue(t)
  PROVE  FutexInv'
<1>a. where[t] = "server" /\ call.op = "requeue"
  BY DEF FutexCmpRequeue
<1>b. PICK u, u2 : u = call.u /\ u2 = call.u2
  OBVIOUS
<1>c. u \in Uaddrs /\ u2 \in Uaddrs /\ u # u2
  BY <1>a, <1>b, CallValues
<1> DEFINE P == IF call.val3 = call.act THEN Dequeued(waiting[u], call.n) ELSE {}
<1>0. PICK T, rest, places : /\ T = {waiting[u][i].thread : i \in P}
                             /\ rest = Without(waiting[u], P)
                             /\ places = [where EXCEPT ![t] = "user"]
  OBVIOUS
<1>1. /\ T \subseteq Waits(u) /\ T \subseteq Threads
      /\ \A v \in T : status[v] = "STALLED"
      /\ rest \in Seq(WaiterType) /\ Alone(rest)
      /\ QueueOf(rest) = Waits(u) \ T
  <2>1. P \in SUBSET DOMAIN waiting[u]
    BY DEF Dequeued
  <2> HIDE DEF P
  <2>2. QED
    BY <1>0, <1>c, <2>1, TakeWaiters
<1>2. Woken(T, places, "wake")
  <2>1. Returning(places)
    BY <1>0, <1>a, TypeFacts DEF FutexInv, Returning, Places
  <2>2. /\ status' = Resumed(T) /\ where' = Signalled(T, places)
        /\ msg' = Messages(T, TRUE) /\ by' = WokenBy(T) /\ ret' = ret
    BY <1>0, <1>b DEF FutexCmpRequeue
  <2>3. QED
    BY <1>1, <2>1, <2>2 DEF Woken, WokenBy
<1>3. call' = NoCall /\ UNCHANGED <<mem, sleeping>> /\ owes' \subseteq owes
  BY DEF FutexCmpRequeue
<1>4. /\ waiting \in [Uaddrs -> Seq(WaiterType)] /\ sleeping \in Seq(WaiterType)
      /\ mem \in [Uaddrs -> Words] /\ owes \subseteq Threads \X Uaddrs
  BY TypeFacts DEF FutexInv
<1>5. /\ Alone(sleeping) /\ \A w \in Uaddrs : Alone(waiting[w]) /\ Waits(w) \cap Sleeps = {}
      /\ \A v, w \in Uaddrs : v # w => Waits(v) \cap Waits(w) = {}
  BY DEF FutexInv, Apart
<1>6. /\ mem' \in [Uaddrs -> Words] /\ owes' \subseteq Threads \X Uaddrs
      /\ sleeping' \in Seq(WaiterType) /\ Alone(sleeping)' /\ Sleeps' = Sleeps
      /\ \A w \in Uaddrs : mem'[w] = mem[w]
  BY <1>3, <1>4, <1>5 DEF Sleeps
<1>7. CASE call.val3 # call.act
  <2>1. waiting' = [waiting EXCEPT ![u] = @, ![u2] = @ \o <<>>] /\ owes' = owes
    BY <1>7, <1>b DEF FutexCmpRequeue
  <2>2. waiting[u2] \o <<>> = waiting[u2]
    BY <1>4, <1>c, ConcatEmptySeq
  <2>3. waiting' = waiting
    BY <1>4, <1>c, <2>1, <2>2
  <2>4. T = {}
    BY <1>0, <1>7
  <2>5. Apart'
    BY <1>5, <1>6, <2>3 DEF Apart, Waits
  <2>6. \A w \in Uaddrs : Waits(w)' = Waits(w) /\ (Owed(w) => Owed(w)')
    BY <2>1, <2>3 DEF Waits, Owed
  <2>7. Resumes(T)
    BY <1>4, <1>6, <2>3, <2>4, <2>5, <2>6 DEF Resumes
  <2>8. QED
    BY <1>2, <1>3, <2>7, WakeStep
<1>8. CASE call.val3 = call.act
  <2> DEFINE joined == waiting[u2] \o Moved(rest)
  <2>1. /\ waiting' = [waiting EXCEPT ![u] = <<>>, ![u2] = joined]
        /\ owes' = owes \ {<<t, u>>}
    <3>1. rest = Without(waiting[call.u], Dequeued(waiting[call.u], call.n))
      BY <1>0, <1>8, <1>b
    <3>2. QED
      BY <1>8, <1>b, <3>1 DEF FutexCmpRequeue
  <2>2. waiting[u2] \in Seq(WaiterType) /\ QueueOf(waiting[u2]) \cap QueueOf(rest) = {}
    BY <1>1, <1>4, <1>5, <1>c DEF Waits
  <2>3. /\ joined \in Seq(WaiterType) /\ Alone(joined)
        /\ QueueOf(joined) = QueueOf(waiting[u2]) \cup QueueOf(rest)
        /\ \A k \in DOMAIN joined : joined[k].requeued
                                    \/ \E i \in DOMAIN waiting[u2] : joined[k] = waiting[u2][i]
    BY <1>1, <1>5, <1>c, <2>2, Requeue
  <2> HIDE DEF joined
  <2>4. /\ <<>> \in Seq(WaiterType) /\ Alone(<<>>) /\ QueueOf(<<>>) = {}
        /\ DOMAIN <<>> = {}
    BY EmptySeq DEF Alone, QueueOf
  <2>5. /\ waiting' \in [Uaddrs -> Seq(WaiterType)]
        /\ waiting'[u] = <<>> /\ waiting'[u2] = joined
        /\ \A w \in Uaddrs \ {u, u2} : waiting'[w] = waiting[w]
    BY <1>4, <1>c, <2>1, <2>3, <2>4
  <2>6. /\ Waits(u)' = {} /\ Waits(u2)' = Waits(u2) \cup (Waits(u) \ T)
        /\ \A w \in Uaddrs \ {u, u2} : Waits(w)' = Waits(w)
    BY <1>1, <2>3, <2>4, <2>5 DEF Waits
  <2>7. Apart'
    <3>1. \A w \in Uaddrs : Alone(waiting'[w])
      BY <1>5, <2>3, <2>4, <2>5
    <3>2. \A w \in Uaddrs : Waits(w)' \cap Sleeps = {}
      BY <1>5, <1>c, <2>6
    <3>3. \A v, w \in Uaddrs : v # w => Waits(v)' \cap Waits(w)' = {}
      BY <1>5, <1>c, <2>6
    <3>4. QED
      BY <1>6, <3>1, <3>2, <3>3 DEF Apart
  <2>8. \A v \in Threads :
           (v \in Sleeps \/ \E w \in Uaddrs : v \in Waits(w))' <=>
              (v \in Sleeps \/ \E w \in Uaddrs : v \in Waits(w)) /\ v \notin T
    <3> TAKE v \in Threads
    <3>1. (\E w \in Uaddrs : v \in Waits(w)') <=> (\E w \in Uaddrs : v \in Waits(w)) /\ v \notin T
      BY <1>1, <1>5, <1>c, <2>6
    <3>2. v \in Sleeps => v \notin T
      BY <1>1, <1>5, <1>c
    <3>3. QED
      BY <1>6, <3>1, <3>2
  <2>9. \A w \in Uaddrs : \A k \in DOMAIN waiting'[w] :
          \/ waiting'[w][k].requeued
          \/ \E i \in DOMAIN waiting[w] : waiting'[w][k] = waiting[w][i]
    BY <2>3, <2>4, <2>5
  <2>10. \A w \in Uaddrs : waiting'[w] = <<>> \/ (Owed(w) => Owed(w)')
    BY <2>1, <2>5 DEF Owed
  <2>11. \A w \in Uaddrs : \A k \in DOMAIN waiting'[w] :
          \/ waiting'[w][k].requeued
          \/ \E i \in DOMAIN waiting[w] :
                /\ waiting'[w][k].val = waiting[w][i].val
                /\ waiting'[w][k].requeued = waiting[w][i].requeued
    BY <2>9
  <2>12. Resumes(T)
    BY <1>6, <2>5, <2>7, <2>8, <2>10, <2>11 DEF Resumes
  <2>13. QED
    BY <1>2, <1>3, <2>12, WakeStep
<1>9. QED
  BY <1>7, <1>8

\* What futexPeriodic does to one queue.
LEMMA AgeQueue ==
  ASSUME NEW q \in Seq(WaiterType), Alone(q)
  PROVE  LET a == Aged(q)
             T == {a[i].thread : i \in Expired(a)}
             r == Without(a, Expired(a))
         IN  /\ r \in Seq(WaiterType) /\ Alone(r)
             /\ T \subseteq QueueOf(q) /\ QueueOf(r) = QueueOf(q) \ T
             /\ \A k \in DOMAIN r : \E i \in DOMAIN q :
                   r[k].val = q[i].val /\ r[k].requeued = q[i].requeued
<1> DEFINE a == Aged(q)
           r == Without(a, Expired(a))
<1>1. /\ a \in Seq(WaiterType) /\ DOMAIN a = DOMAIN q
      /\ \A i \in DOMAIN q : /\ a[i].thread = q[i].thread /\ a[i].val = q[i].val
                             /\ a[i].requeued = q[i].requeued
      /\ QueueOf(a) = QueueOf(q) /\ Alone(a)
  BY Ageing
<1> HIDE DEF a
<1>2. Expired(a) \in SUBSET DOMAIN a
  BY DEF Expired
<1>3. /\ r \in Seq(WaiterType) /\ Alone(r)
      /\ \A k \in DOMAIN r : \E i \in DOMAIN a \ Expired(a) : r[k] = a[i]
      /\ QueueOf(r) = QueueOf(a) \ {a[i].thread : i \in Expired(a)}
  BY <1>1, <1>2, Dequeue
<1>4. {a[i].thread : i \in Expired(a)} \subseteq QueueOf(a)
  BY <1>2 DEF QueueOf
<1> HIDE DEF r
<1>5. \A k \in DOMAIN r : \E i \in DOMAIN q :
         r[k].val = q[i].val /\ r[k].requeued = q[i].requeued
  BY <1>1, <1>3
<1>6. QED
  BY <1>1, <1>3, <1>4, <1>5 DEF a, r

\* futexPeriodic: at most one thread leaves each queue.
LEMMA FutexPeriodicStep ==
  ASSUME FutexInv, FutexPeriodic
  PROVE  FutexInv'
<1> DEFINE A(q) == Aged(q)
           TT(q) == {A(q)[i].thread : i \in Expired(A(q))}
           R(q) == Without(A(q), Expired(A(q)))
<1>1. /\ waiting \in [Uaddrs -> Seq(WaiterType)] /\ sleeping \in Seq(WaiterType)
      /\ mem \in [Uaddrs -> Words] /\ owes \subseteq Threads \X Uaddrs
  BY TypeFacts DEF FutexInv
<1>2. /\ Alone(sleeping) /\ \A w \in Uaddrs : Alone(waiting[w]) /\ Waits(w) \cap Sleeps = {}
      /\ \A v, w \in Uaddrs : v # w => Waits(v) \cap Waits(w) = {}
  BY DEF FutexInv, Apart
<1>3. PICK S, places : /\ S = TT(sleeping) \cup UNION {TT(waiting[u]) : u \in Uaddrs}
                       /\ places = where
  OBVIOUS
<1>4. /\ sleeping' = R(sleeping)
      /\ waiting' = [u \in Uaddrs |-> R(waiting[u])]
      /\ status' = Resumed(S) /\ where' = Signalled(S, places) /\ msg' = Messages(S, FALSE)
      /\ by' = [t \in Threads |-> IF t \in S THEN "timeout" ELSE by[t]]
      /\ UNCHANGED <<mem, call, ret, owes>>
  <2>1. S = {Aged(sleeping)[i].thread : i \in Expired(Aged(sleeping))}
              \cup UNION {{[u \in Uaddrs |-> Aged(waiting[u])][w][i].thread :
                              i \in Expired([u \in Uaddrs |-> Aged(waiting[u])][w])} :
                          w \in Uaddrs}
    BY <1>3
  <2>2. QED
    BY <1>3, <2>1 DEF FutexPeriodic
<1>5. \A q \in Seq(WaiterType) : Alone(q) =>
         /\ R(q) \in Seq(WaiterType) /\ Alone(R(q))
         /\ TT(q) \subseteq QueueOf(q) /\ QueueOf(R(q)) = QueueOf(q) \ TT(q)
         /\ \A k \in DOMAIN R(q) : \E i \in DOMAIN q :
               R(q)[k].val = q[i].val /\ R(q)[k].requeued = q[i].requeued
  BY AgeQueue
<1> HIDE DEF A, TT, R
<1>6. /\ sleeping' \in Seq(WaiterType) /\ Alone(sleeping')
      /\ TT(sleeping) \subseteq Sleeps /\ Sleeps' = Sleeps \ TT(sleeping)
  BY <1>1, <1>2, <1>4, <1>5 DEF Sleeps
<1>7. \A u \in Uaddrs :
         /\ waiting'[u] \in Seq(WaiterType) /\ Alone(waiting'[u])
         /\ TT(waiting[u]) \subseteq Waits(u) /\ Waits(u)' = Waits(u) \ TT(waiting[u])
         /\ \A k \in DOMAIN waiting'[u] : \E i \in DOMAIN waiting[u] :
               /\ waiting'[u][k].val = waiting[u][i].val
               /\ waiting'[u][k].requeued = waiting[u][i].requeued
  <2> TAKE u \in Uaddrs
  <2>1. waiting[u] \in Seq(WaiterType) /\ Alone(waiting[u]) /\ waiting'[u] = R(waiting[u])
    BY <1>1, <1>2, <1>4
  <2>2. QED
    BY <2>1, <1>5 DEF Waits
<1>8. Sleeps' = Sleeps \ S
  BY <1>2, <1>3, <1>6, <1>7
<1>9. \A u \in Uaddrs : Waits(u)' = Waits(u) \ S
  BY <1>2, <1>3, <1>6, <1>7
<1>10. /\ Apart'
       /\ \A v \in Threads :
             (v \in Sleeps \/ \E w \in Uaddrs : v \in Waits(w))' <=>
                (v \in Sleeps \/ \E w \in Uaddrs : v \in Waits(w)) /\ v \notin S
  BY <1>6, <1>7, <1>8, <1>9, QueuesShrink
<1>11. Woken(S, places, "timeout")
  <2>1. S \subseteq Threads /\ \A v \in S : status[v] = "STALLED"
    BY <1>3, <1>6, <1>7, QueuedStalled
  <2>2. Returning(places)
    BY <1>3, TypeFacts DEF FutexInv, Returning
  <2>3. QED
    BY <1>4, <2>1, <2>2 DEF Woken
<1>12. Resumes(S)
  <2>1. waiting' \in [Uaddrs -> Seq(WaiterType)]
    BY <1>4, <1>7
  <2>2. \A u \in Uaddrs : mem'[u] = mem[u] /\ (Owed(u) => Owed(u)')
    BY <1>4 DEF Owed
  <2>3. mem' \in [Uaddrs -> Words] /\ owes' \subseteq Threads \X Uaddrs
    BY <1>1, <1>4
  <2>4. QED
    BY <1>6, <1>7, <1>10, <2>1, <2>2, <2>3 DEF Resumes
<1>13. QED
  BY <1>3, <1>4, <1>11, <1>12, WakeStep

\* A step that leaves the queues alone leaves everybody in his place.
LEMMA QueuesSame ==
  ASSUME FutexInv, UNCHANGED <<waiting, sleeping>>
  PROVE  /\ Apart' /\ Sleeps' = Sleeps /\ \A u \in Uaddrs : Waits(u)' = Waits(u)
         /\ waiting' \in [Uaddrs -> Seq(WaiterType)] /\ sleeping' \in Seq(WaiterType)
         /\ \A q \in {sleeping'} \cup {waiting'[u] : u \in Uaddrs} :
               Len(q) <= Cardinality(Threads)
<1>1. Sleeps' = Sleeps /\ \A u \in Uaddrs : Waits(u)' = Waits(u)
  BY DEF Sleeps, Waits
<1>2. Apart'
  BY <1>1 DEF FutexInv, Apart
<1>3. QED
  BY <1>1, <1>2 DEF FutexInv, TypeOK

\* A thread that stalls or comes back to the application: only its own state
\* changes.
LEMMA OwnStep ==
  ASSUME FutexInv, NEW t \in Threads,
         UNCHANGED <<status, mem, waiting, sleeping, call, owes>>,
         StallTypeOK', Placed', Answered', ResultMatchesWaker',
         ret' \in [Threads -> {"none", "0", "EWOULDBLOCK", "ETIMEDOUT"}],
         by' \in [Threads -> {"none", "wake", "timeout"}],
         \A v \in Threads : where[v] = "server" => where'[v] = "server"
  PROVE  FutexInv'
<1>1. /\ Apart' /\ Sleeps' = Sleeps /\ \A u \in Uaddrs : Waits(u)' = Waits(u)
      /\ waiting' \in [Uaddrs -> Seq(WaiterType)] /\ sleeping' \in Seq(WaiterType)
      /\ \A q \in {sleeping'} \cup {waiting'[u] : u \in Uaddrs} :
            Len(q) <= Cardinality(Threads)
  BY QueuesSame
<1>2. TypeOK'
  BY <1>1 DEF FutexInv, TypeOK
<1>3. Located'
  BY <1>1 DEF FutexInv, Located
<1>4. CallTypeOK'
  BY DEF FutexInv, CallTypeOK
<1>5. CallFresh' /\ NoLostWakeup'
  BY DEF FutexInv, CallFresh, NoLostWakeup, Owed
<1>6. QED
  BY <1>1, <1>2, <1>3, <1>4, <1>5 DEF FutexInv

\* The end of stallThread: a stalled thread waits, a resumed one returns.
LEMMA StallSteps ==
  ASSUME FutexInv, NEW t \in Threads, StallStep(t) \/ DeadlockAbort(t) \/ WaitReturns(t)
  PROVE  FutexInv'
<1>1. /\ status \in [Threads -> {"RUNNING", "STALLED"}]
      /\ where \in [Threads -> Places] /\ msg \in [Threads -> BOOLEAN]
      /\ ret \in [Threads -> {"none", "0", "EWOULDBLOCK", "ETIMEDOUT"}]
      /\ by \in [Threads -> {"none", "wake", "timeout"}]
  BY TypeFacts DEF FutexInv
<1>2. Placed /\ Answered /\ ResultMatchesWaker
  BY DEF FutexInv
<1>3. CASE StallStep(t)
  <2>1. /\ where' = [where EXCEPT ![t] = "wait"] /\ msg' = [msg EXCEPT ![t] = FALSE]
        /\ where[t] = "stalling" /\ status[t] = "STALLED"
        /\ UNCHANGED <<status, mem, waiting, sleeping, call, ret, by, owes>>
    BY <1>1, <1>3 DEF StallStep, StallWait
  <2>2. StallTypeOK' /\ Placed' /\ Answered' /\ ResultMatchesWaker'
    BY <1>1, <1>2, <2>1 DEF StallTypeOK, Places, Placed, Answered, ResultMatchesWaker
  <2>3. \A v \in Threads : where[v] = "server" => where'[v] = "server"
    BY <1>1, <2>1
  <2>4. QED
    BY <1>1, <2>1, <2>2, <2>3, OwnStep
<1>4. CASE DeadlockAbort(t)
  <2>1. /\ where' = [where EXCEPT ![t] = "aborted"] /\ where[t] = "stalling"
        /\ UNCHANGED <<status, msg, mem, waiting, sleeping, call, ret, by, owes>>
    BY <1>4 DEF DeadlockAbort, MustAdvance
  <2>2. StallTypeOK' /\ Placed' /\ Answered' /\ ResultMatchesWaker'
    BY <1>1, <1>2, <2>1 DEF StallTypeOK, Places, Placed, Answered, ResultMatchesWaker
  <2>3. \A v \in Threads : where[v] = "server" => where'[v] = "server"
    BY <1>1, <2>1
  <2>4. QED
    BY <1>1, <2>1, <2>2, <2>3, OwnStep
<1>5. CASE WaitReturns(t)
  <2>1. /\ where' = [where EXCEPT ![t] = "user"]
        /\ ret' = [ret EXCEPT ![t] = IF msg[t] THEN "0" ELSE "ETIMEDOUT"]
        /\ UNCHANGED <<status, msg, mem, waiting, sleeping, call, by, owes>>
        /\ where[t] \in {"stalling", "woken"} /\ status[t] = "RUNNING"
    BY <1>2, <1>5 DEF WaitReturns, StallReturns, Placed
  <2>2. by[t] = IF msg[t] THEN "wake" ELSE "timeout"
    BY <1>2, <2>1 DEF Answered
  <2>3. StallTypeOK' /\ Placed' /\ Answered' /\ ResultMatchesWaker'
    BY <1>1, <1>2, <2>1, <2>2 DEF StallTypeOK, Places, Placed, Answered, ResultMatchesWaker
  <2>4. /\ \A v \in Threads : where[v] = "server" => where'[v] = "server"
        /\ ret' \in [Threads -> {"none", "0", "EWOULDBLOCK", "ETIMEDOUT"}]
        /\ by' \in [Threads -> {"none", "wake", "timeout"}]
    BY <1>1, <2>1
  <2>5. QED
    BY <1>1, <2>1, <2>3, <2>4, OwnStep
<1>6. QED
  BY <1>3, <1>4, <1>5

\* The types of the state once a thread has looked at its last result.
LEMMA ConsumedStep ==
  ASSUME FutexInv, NEW t \in Threads, Consumed(t)
  PROVE  /\ ret' \in [Threads -> {"none", "0", "EWOULDBLOCK", "ETIMEDOUT"}]
         /\ by' \in [Threads -> {"none", "wake", "timeout"}]
         /\ ret'[t] = "none"
         /\ \A v \in Threads : v # t => ret'[v] = ret[v] /\ by'[v] = by[v]
         /\ ResultMatchesWaker'
  BY TypeFacts DEF FutexInv, Consumed, ResultMatchesWaker

\* A store without the lock: a wake call is now owed for the word.
LEMMA StoreStep ==
  ASSUME FutexInv, NEW t \in Threads, NEW u \in Uaddrs, NEW v \in Words, Store(t, u, v)
  PROVE  FutexInv'
<1>1. /\ mem \in [Uaddrs -> Words] /\ owes \subseteq Threads \X Uaddrs
      /\ where \in [Threads -> Places]
  BY TypeFacts DEF FutexInv
<1>2. /\ where[t] = "user" /\ mem' = [mem EXCEPT ![u] = v]
      /\ owes' = owes \cup {<<t, u>>} /\ Consumed(t)
      /\ UNCHANGED <<status, where, msg, waiting, sleeping, call>>
  BY DEF Store
<1>3. /\ Apart' /\ Sleeps' = Sleeps /\ \A w \in Uaddrs : Waits(w)' = Waits(w)
      /\ waiting' \in [Uaddrs -> Seq(WaiterType)] /\ sleeping' \in Seq(WaiterType)
      /\ \A q \in {sleeping'} \cup {waiting'[w] : w \in Uaddrs} :
            Len(q) <= Cardinality(Threads)
  BY <1>2, QueuesSame
<1>4. /\ ret' \in [Threads -> {"none", "0", "EWOULDBLOCK", "ETIMEDOUT"}]
      /\ by' \in [Threads -> {"none", "wake", "timeout"}]
      /\ ret'[t] = "none"
      /\ \A w \in Threads : w # t => ret'[w] = ret[w] /\ by'[w] = by[w]
      /\ ResultMatchesWaker'
  BY <1>2, ConsumedStep
<1>5. TypeOK'
  BY <1>1, <1>2, <1>3, <1>4 DEF FutexInv, TypeOK, StallTypeOK
<1>6. Located' /\ Placed' /\ CallTypeOK'
  BY <1>2, <1>3 DEF FutexInv, Located, Placed, CallTypeOK
<1>7. Answered'
  BY <1>2, <1>4 DEF FutexInv, Answered
<1>8. \A w \in Uaddrs : (mem'[w] = mem[w] /\ (Owed(w) => Owed(w)')) \/ Owed(w)'
  BY <1>1, <1>2 DEF Owed
<1>9. CallFresh'
  <2>1. call.op = "wait" => call.u \in Uaddrs
    BY CallValues
  <2>2. QED
    BY <1>2, <1>8, <2>1 DEF FutexInv, CallFresh
<1>10. NoLostWakeup'
  <2>1. \A w \in Uaddrs : \A i \in DOMAIN waiting[w] :
            ~waiting[w][i].requeued => waiting[w][i].val = mem[w] \/ Owed(w)
    BY DEF FutexInv, NoLostWakeup, Owed
  <2>2. \A w \in Uaddrs : \A i \in DOMAIN waiting'[w] :
            ~waiting'[w][i].requeued => waiting'[w][i].val = mem'[w] \/ Owed(w)'
    BY <1>2, <1>8, <2>1
  <2>3. QED
    BY <2>2 DEF NoLostWakeup, Owed
<1>11. QED
  BY <1>3, <1>4, <1>5, <1>6, <1>7, <1>9, <1>10 DEF FutexInv

\* handleFutexCall up to the read of the word: the value read is the word's.
LEMMA ReadWordStep ==
  ASSUME FutexInv, NEW t \in Threads, NEW c, ReadWord(t, c),
         \/ /\ c \in [op : {"wait"}, u : Uaddrs, val : Words, act : Words,
                      left : Times, asked : Times]
            /\ c.act = mem[c.u]
         \/ /\ c \in [op : {"requeue"}, u : Uaddrs, u2 : Uaddrs, n : NrWakes,
                      val3 : Words, act : Words]
            /\ c.u # c.u2
         \/ /\ c \in [op : {"wakeop"}, u : Uaddrs, u2 : Uaddrs, n : NrWakes,
                      n2 : NrWakes, do : WakeOps, old : Words]
            /\ c.u # c.u2
  PROVE  FutexInv'
<1>1. where \in [Threads -> Places]
  BY TypeFacts DEF FutexInv
<1>2. /\ where[t] = "user" /\ where' = [where EXCEPT ![t] = "server"]
      /\ call' = c /\ Consumed(t)
      /\ UNCHANGED <<status, msg, mem, waiting, sleeping, owes>>
  BY DEF ReadWord
<1>3. /\ Apart' /\ Sleeps' = Sleeps /\ \A w \in Uaddrs : Waits(w)' = Waits(w)
      /\ waiting' \in [Uaddrs -> Seq(WaiterType)] /\ sleeping' \in Seq(WaiterType)
      /\ \A q \in {sleeping'} \cup {waiting'[w] : w \in Uaddrs} :
            Len(q) <= Cardinality(Threads)
  BY <1>2, QueuesSame
<1>4. /\ ret' \in [Threads -> {"none", "0", "EWOULDBLOCK", "ETIMEDOUT"}]
      /\ by' \in [Threads -> {"none", "wake", "timeout"}]
      /\ ret'[t] = "none"
      /\ \A w \in Threads : w # t => ret'[w] = ret[w] /\ by'[w] = by[w]
      /\ ResultMatchesWaker'
  BY <1>2, ConsumedStep
<1>5. c.op \in {"wait", "requeue", "wakeop"}
  OBVIOUS
<1>6. TypeOK'
  BY <1>1, <1>2, <1>3, <1>4, <1>5 DEF FutexInv, TypeOK, StallTypeOK, Places
<1>7. Located' /\ Placed'
  BY <1>1, <1>2, <1>3 DEF FutexInv, Located, Placed
<1>8. Answered'
  BY <1>1, <1>2, <1>4 DEF FutexInv, Answered
<1>9. CallTypeOK'
  <2>1. \E v \in Threads : where'[v] = "server"
    BY <1>1, <1>2
  <2>2. QED
    BY <1>2, <2>1 DEF CallTypeOK
<1>10. CallFresh'
  BY <1>2 DEF CallFresh
<1>11. NoLostWakeup'
  BY <1>2 DEF FutexInv, NoLostWakeup
<1>12. QED
  BY <1>3, <1>4, <1>6, <1>7, <1>8, <1>9, <1>10, <1>11 DEF FutexInv

\* The timeouts the code computes are times.
LEMMA TimeoutLeftType ==
  ASSUME NEW r \in Timeouts \cup {Forever}, NEW cmd \in {"FUTEX_WAIT", "FUTEX_WAIT_BITSET"},
         NEW left \in TimeoutLeft(cmd, r)
  PROVE  left \in Times /\ r \in Times
<1>1. CASE r = Forever
  <2>1. left = Forever
    BY <1>1 DEF TimeoutLeft
  <2>2. QED
    BY <1>1, <2>1 DEF Times
<1>2. CASE r # Forever
  <2>1. r \in 0 .. TimeMod /\ TimeStart \in Nat /\ TimeMod \in Nat /\ TimeStart < TimeMod
    BY <1>2, SyscallAssumption
  <2>2. left \in {r, r - TimeStart, 0, TimeMod - (TimeStart - r)}
        /\ (left = r - TimeStart => r - TimeStart \in 0 .. TimeMod)
        /\ (left = TimeMod - (TimeStart - r) => TimeMod - (TimeStart - r) \in 0 .. TimeMod)
    <3>1. CASE cmd = "FUTEX_WAIT_BITSET"
      <4>1. left = r
        BY <1>2, <3>1 DEF TimeoutLeft
      <4>2. QED
        BY <2>1, <4>1
    <3>2. CASE cmd = "FUTEX_WAIT"
      <4>1. left \in IF r >= TimeStart THEN {r - TimeStart} ELSE {0, TimeMod - (TimeStart - r)}
        BY <1>2, <3>2 DEF TimeoutLeft
      <4>2. CASE r >= TimeStart
        BY <2>1, <4>1, <4>2
      <4>3. CASE ~(r >= TimeStart)
        BY <2>1, <4>1, <4>3
      <4>4. QED
        BY <4>2, <4>3
    <3>3. QED
      BY <3>1, <3>2
  <2>3. QED
    BY <2>1, <2>2 DEF Times
<1>3. QED
  BY <1>1, <1>2

\* futexWait: the waiter is queued only with a value that is still current,
\* or whose change will be followed by a wake.
LEMMA FutexWaitStep ==
  ASSUME FutexInv, NEW t \in Threads, FutexWait(t)
  PROVE  FutexInv'
<1>1. /\ status \in [Threads -> {"RUNNING", "STALLED"}]
      /\ where \in [Threads -> Places] /\ msg \in [Threads -> BOOLEAN]
      /\ ret \in [Threads -> {"none", "0", "EWOULDBLOCK", "ETIMEDOUT"}]
      /\ by \in [Threads -> {"none", "wake", "timeout"}]
      /\ waiting \in [Uaddrs -> Seq(WaiterType)] /\ sleeping \in Seq(WaiterType)
  BY TypeFacts DEF FutexInv
<1>2. /\ where[t] = "server" /\ call.op = "wait" /\ call' = NoCall
      /\ UNCHANGED <<msg, mem, sleeping, by, owes>>
  BY DEF FutexWait
<1>3. PICK u : u = call.u
  OBVIOUS
<1>4. /\ u \in Uaddrs /\ call.val \in Words /\ call.left \in Times /\ call.asked \in Times
      /\ status[t] = "RUNNING" /\ ret[t] = "none"
  BY <1>2, <1>3, CallValues DEF FutexInv, Placed, Answered
<1>5. Placed /\ Answered /\ ResultMatchesWaker /\ Located
  BY DEF FutexInv
<1>6. CallTypeOK' /\ CallFresh' /\ call'.op \in {"none", "wait", "requeue", "wakeop"}
  BY <1>2 DEF CallTypeOK, CallFresh, NoCall
<1>7. CASE call.val # call.act
  <2>1. /\ where' = [where EXCEPT ![t] = "user"] /\ ret' = [ret EXCEPT ![t] = "EWOULDBLOCK"]
        /\ UNCHANGED <<status, waiting>>
    BY <1>7 DEF FutexWait
  <2>2. /\ Apart' /\ Sleeps' = Sleeps /\ \A w \in Uaddrs : Waits(w)' = Waits(w)
        /\ waiting' \in [Uaddrs -> Seq(WaiterType)] /\ sleeping' \in Seq(WaiterType)
        /\ \A q \in {sleeping'} \cup {waiting'[w] : w \in Uaddrs} :
              Len(q) <= Cardinality(Threads)
    BY <1>2, <2>1, QueuesSame
  <2>3. TypeOK'
    BY <1>1, <1>2, <1>6, <2>1, <2>2 DEF FutexInv, TypeOK, StallTypeOK, Places
  <2>4. Located' /\ Placed' /\ Answered' /\ ResultMatchesWaker'
    BY <1>1, <1>2, <1>4, <1>5, <2>1, <2>2 DEF Located, Placed, Answered, ResultMatchesWaker
  <2>5. NoLostWakeup'
    BY <1>2, <2>1 DEF FutexInv, NoLostWakeup
  <2>6. QED
    BY <1>6, <2>2, <2>3, <2>4, <2>5 DEF FutexInv
<1>8. CASE call.val = call.act
  <2> DEFINE e == Waiter(t, call.left, call.val, call.asked)
             joined == Append(waiting[u], e)
  <2>1. /\ waiting' = [waiting EXCEPT ![u] = joined]
        /\ status' = [status EXCEPT ![t] = "STALLED"]
        /\ where' = [where EXCEPT ![t] = "stalling"] /\ ret' = ret
    BY <1>3, <1>8 DEF FutexWait, StallAsync
  <2>2. e \in WaiterType /\ e.thread = t /\ e.val = call.val /\ ~e.requeued
    BY <1>4 DEF WaiterType, Waiter, Times
  <2> HIDE DEF e
  <2>3. t \notin Sleeps /\ \A w \in Uaddrs : t \notin Waits(w)
    BY <1>4, <1>5, RunningUnqueued DEF FutexInv
  <2>4. /\ joined \in Seq(WaiterType) /\ Alone(joined)
        /\ QueueOf(joined) = Waits(u) \cup {t}
        /\ \A k \in DOMAIN joined :
              joined[k] = e \/ \E i \in DOMAIN waiting[u] : joined[k] = waiting[u][i]
    <3>1. waiting[u] \in Seq(WaiterType) /\ Alone(waiting[u])
      BY <1>1, <1>4 DEF FutexInv, Apart
    <3>2. QED
      BY <1>4, <2>2, <2>3, <3>1, Enqueue DEF Waits
  <2> HIDE DEF joined
  <2>5. /\ waiting' \in [Uaddrs -> Seq(WaiterType)] /\ waiting'[u] = joined
        /\ \A w \in Uaddrs \ {u} : waiting'[w] = waiting[w]
        /\ sleeping' \in Seq(WaiterType)
    BY <1>1, <1>2, <1>4, <2>1, <2>4
  <2>6. /\ Waits(u)' = Waits(u) \cup {t} /\ Sleeps' = Sleeps
        /\ \A w \in Uaddrs \ {u} : Waits(w)' = Waits(w)
    BY <1>2, <2>4, <2>5 DEF Waits, Sleeps
  <2>7. Apart'
    <3>1. /\ Alone(sleeping) /\ \A w \in Uaddrs : Alone(waiting[w]) /\ Waits(w) \cap Sleeps = {}
          /\ \A v, w \in Uaddrs : v # w => Waits(v) \cap Waits(w) = {}
      BY DEF FutexInv, Apart
    <3>2. Alone(sleeping') /\ \A w \in Uaddrs : Alone(waiting'[w])
      BY <1>2, <2>4, <2>5, <3>1
    <3>3. \A w \in Uaddrs : Waits(w)' \cap Sleeps' = {}
      BY <1>4, <2>3, <2>6, <3>1
    <3>4. \A v, w \in Uaddrs : v # w => Waits(v)' \cap Waits(w)' = {}
      BY <1>4, <2>3, <2>6, <3>1
    <3>5. QED
      BY <3>2, <3>3, <3>4 DEF Apart
  <2>8. Located'
    <3> SUFFICES ASSUME NEW v \in Threads
                 PROVE  status'[v] = "STALLED" <=>
                           v \in Sleeps' \/ \E w \in Uaddrs : v \in Waits(w)'
      BY DEF Located
    <3>1. CASE v = t
      BY <1>1, <1>4, <2>1, <2>6, <3>1
    <3>2. CASE v # t
      <4>1. status'[v] = status[v]
        BY <1>1, <2>1, <3>2
      <4>2. \A w \in Uaddrs : v \in Waits(w)' <=> v \in Waits(w)
        BY <1>4, <2>6, <3>2
      <4>3. QED
        BY <1>5, <2>6, <4>1, <4>2 DEF Located
    <3>3. QED
      BY <3>1, <3>2
  <2>9. Placed' /\ Answered' /\ ResultMatchesWaker' /\ StallTypeOK'
    BY <1>1, <1>2, <1>4, <1>5, <2>1
       DEF Placed, Answered, ResultMatchesWaker, StallTypeOK, Places
  <2>10. TypeOK'
    <3>1. Alone(sleeping') /\ \A w \in Uaddrs : Alone(waiting'[w])
      BY <2>7 DEF Apart
    <3>2. \A q \in {sleeping'} \cup {waiting'[w] : w \in Uaddrs} : Len(q) <= Cardinality(Threads)
      BY <2>5, <3>1, QueueLimits
    <3>3. QED
      BY <1>1, <1>2, <1>6, <2>1, <2>5, <2>9, <3>2 DEF FutexInv, TypeOK
  <2>11. NoLostWakeup'
    <3>1. \A w \in Uaddrs : \A i \in DOMAIN waiting[w] :
              ~waiting[w][i].requeued => waiting[w][i].val = mem[w] \/ Owed(w)
      BY DEF FutexInv, NoLostWakeup, Owed
    <3>2. call.val = mem[u] \/ Owed(u)
      BY <1>2, <1>3, <1>8 DEF FutexInv, CallFresh
    <3>3. \A w \in Uaddrs : \A i \in DOMAIN waiting'[w] :
              ~waiting'[w][i].requeued => waiting'[w][i].val = mem[w] \/ Owed(w)
      <4>1. \A w \in Uaddrs \ {u} : \A i \in DOMAIN waiting'[w] :
               ~waiting'[w][i].requeued => waiting'[w][i].val = mem[w] \/ Owed(w)
        BY <2>5, <3>1
      <4>2. ASSUME NEW i \in DOMAIN joined, ~joined[i].requeued
            PROVE  joined[i].val = mem[u] \/ Owed(u)
        <5>1. CASE joined[i] = e
          BY <2>2, <3>2, <5>1
        <5>2. CASE joined[i] # e
          <6>1. PICK k \in DOMAIN waiting[u] : joined[i] = waiting[u][k]
            BY <2>4, <5>2
          <6>2. QED
            BY <1>4, <3>1, <4>2, <6>1
        <5>3. QED
          BY <5>1, <5>2
      <4>3. QED
        BY <2>5, <4>1, <4>2
    <3>4. QED
      BY <1>2, <3>3 DEF NoLostWakeup, Owed
  <2>12. QED
    BY <1>6, <2>7, <2>8, <2>9, <2>10, <2>11 DEF FutexInv
<1>9. QED
  BY <1>7, <1>8

\* handleSleepCall: the thread joins the list of sleepers.
LEMMA SleepCallStep ==
  ASSUME FutexInv, NEW t \in Threads, NEW r \in Timeouts, SleepCall(t, r)
  PROVE  FutexInv'
<1>1. /\ status \in [Threads -> {"RUNNING", "STALLED"}]
      /\ where \in [Threads -> Places] /\ msg \in [Threads -> BOOLEAN]
      /\ waiting \in [Uaddrs -> Seq(WaiterType)] /\ sleeping \in Seq(WaiterType)
  BY TypeFacts DEF FutexInv
<1> DEFINE e == Waiter(t, r, 0, r)
           joined == Append(sleeping, e)
<1>2. /\ where[t] = "user" /\ LockFree
      /\ sleeping' = joined
      /\ status' = [status EXCEPT ![t] = "STALLED"]
      /\ where' = [where EXCEPT ![t] = "stalling"]
      /\ Consumed(t)
      /\ UNCHANGED <<msg, mem, waiting, call, owes>>
  BY DEF SleepCall, StallAsync
<1>3. e \in WaiterType /\ e.thread = t
  BY SyscallAssumption DEF WaiterType, Waiter, Words
<1>4. Placed /\ Answered /\ ResultMatchesWaker /\ Located
  BY DEF FutexInv
<1>5. status[t] = "RUNNING"
  BY <1>2, <1>4 DEF Placed
<1> HIDE DEF e
<1>6. t \notin Sleeps /\ \A w \in Uaddrs : t \notin Waits(w)
  BY <1>4, <1>5, RunningUnqueued DEF FutexInv
<1>7. /\ joined \in Seq(WaiterType) /\ Alone(joined) /\ QueueOf(joined) = Sleeps \cup {t}
  <2>1. Alone(sleeping)
    BY DEF FutexInv, Apart
  <2>2. QED
    BY <1>1, <1>3, <1>6, <2>1, Enqueue DEF Sleeps
<1> HIDE DEF joined
<1>8. /\ Sleeps' = Sleeps \cup {t} /\ \A w \in Uaddrs : Waits(w)' = Waits(w)
      /\ sleeping' \in Seq(WaiterType) /\ waiting' \in [Uaddrs -> Seq(WaiterType)]
      /\ Alone(sleeping') /\ \A w \in Uaddrs : Alone(waiting'[w])
  BY <1>1, <1>2, <1>7 DEF Sleeps, Waits, FutexInv, Apart
<1>9. Apart'
  <2>1. \A w \in Uaddrs : Waits(w)' \cap Sleeps' = {}
    BY <1>6, <1>8 DEF FutexInv, Apart
  <2>2. \A v, w \in Uaddrs : v # w => Waits(v)' \cap Waits(w)' = {}
    BY <1>8 DEF FutexInv, Apart
  <2>3. QED
    BY <1>8, <2>1, <2>2 DEF Apart
<1>10. /\ ret' \in [Threads -> {"none", "0", "EWOULDBLOCK", "ETIMEDOUT"}]
       /\ by' \in [Threads -> {"none", "wake", "timeout"}]
       /\ ret'[t] = "none"
       /\ \A w \in Threads : w # t => ret'[w] = ret[w] /\ by'[w] = by[w]
       /\ ResultMatchesWaker'
  BY <1>2, ConsumedStep
<1>11. Located'
  BY <1>1, <1>4, <1>2, <1>8 DEF Located
<1>12. Placed' /\ Answered' /\ StallTypeOK'
  BY <1>1, <1>2, <1>4, <1>10 DEF Placed, Answered, StallTypeOK, Places
<1>13. TypeOK'
  <2>1. \A q \in {sleeping'} \cup {waiting'[w] : w \in Uaddrs} : Len(q) <= Cardinality(Threads)
    BY <1>8, QueueLimits
  <2>2. QED
    BY <1>2, <1>8, <1>10, <1>12, <2>1 DEF FutexInv, TypeOK
<1>14. CallTypeOK' /\ CallFresh' /\ NoLostWakeup'
  <2>1. \A v \in Threads : where[v] = "server" => where'[v] = "server"
    BY <1>1, <1>2
  <2>2. QED
    BY <1>2, <2>1 DEF FutexInv, CallTypeOK, CallFresh, NoLostWakeup, Owed
<1>15. QED
  BY <1>9, <1>10, <1>11, <1>12, <1>13, <1>14 DEF FutexInv

\* No thread is in a queue and no call under way when the server starts.
LEMMA FutexInit == Init => FutexInv
<1> SUFFICES ASSUME Init PROVE FutexInv
  OBVIOUS
<1>1. /\ \A t \in Threads : /\ status[t] = "RUNNING" /\ where[t] = "user"
                            /\ ret[t] = "none" /\ by[t] = "none"
      /\ waiting = [u \in Uaddrs |-> <<>>] /\ sleeping = <<>> /\ call = NoCall
  BY DEF Init, StallInit
<1>2. <<>> \in Seq(WaiterType) /\ Alone(<<>>) /\ QueueOf(<<>>) = {} /\ DOMAIN <<>> = {}
  BY EmptySeq DEF Alone, QueueOf
<1>3. /\ Sleeps = {} /\ \A u \in Uaddrs : Waits(u) = {} /\ waiting[u] = <<>>
      /\ sleeping \in Seq(WaiterType) /\ waiting \in [Uaddrs -> Seq(WaiterType)]
      /\ Alone(sleeping) /\ \A u \in Uaddrs : Alone(waiting[u])
  BY <1>1, <1>2 DEF Sleeps, Waits
<1>4. TypeOK
  <2>1. \A q \in {sleeping} \cup {waiting[u] : u \in Uaddrs} : Len(q) <= Cardinality(Threads)
    BY <1>3, QueueLimits
  <2>2. QED
    BY <1>1, <1>3, <2>1 DEF Init, StallInit, TypeOK, StallTypeOK, Places, Words, NoCall
<1>5. Located /\ Apart /\ Placed /\ Answered /\ CallTypeOK /\ ResultMatchesWaker
  BY <1>1, <1>3
     DEF Located, Apart, Placed, Answered, CallTypeOK, ResultMatchesWaker, NoCall
<1>6. CallFresh /\ NoLostWakeup
  BY <1>1, <1>2, <1>3 DEF CallFresh, NoLostWakeup, NoCall
<1>7. QED
  BY <1>4, <1>5, <1>6 DEF FutexInv

\* Every action keeps FutexInv: one step for each.
LEMMA FutexStep == FutexInv /\ [Next]_vars => FutexInv'
<1> SUFFICES ASSUME FutexInv, [Next]_vars PROVE FutexInv'
  OBVIOUS
<1>0. mem \in [Uaddrs -> Words]
  BY TypeFacts DEF FutexInv
<1>1. ASSUME NEW t \in Threads, NEW u \in Uaddrs, NEW v \in Words, Store(t, u, v)
      PROVE  FutexInv'
  BY <1>1, StoreStep
<1>2. ASSUME NEW t \in Threads, NEW u \in Uaddrs, FutexWaitCall(t, u)
      PROVE  FutexInv'
  <2>1. PICK val \in Words, r \in Timeouts \cup {Forever},
             cmd \in {"FUTEX_WAIT", "FUTEX_WAIT_BITSET"} :
             \E left \in TimeoutLeft(cmd, r) :
                ReadWord(t, [op |-> "wait", u |-> u, val |-> val, act |-> mem[u],
                             left |-> left, asked |-> r])
    BY <1>2 DEF FutexWaitCall
  <2>2. PICK left \in TimeoutLeft(cmd, r) :
                ReadWord(t, [op |-> "wait", u |-> u, val |-> val, act |-> mem[u],
                             left |-> left, asked |-> r])
    BY <2>1
  <2>3. left \in Times /\ r \in Times
    BY TimeoutLeftType
  <2>4. PICK c : c = [op |-> "wait", u |-> u, val |-> val, act |-> mem[u],
                      left |-> left, asked |-> r]
    OBVIOUS
  <2>5. /\ c \in [op : {"wait"}, u : Uaddrs, val : Words, act : Words,
                  left : Times, asked : Times]
        /\ c.act = mem[c.u]
    BY <1>0, <2>3, <2>4
  <2>6. ReadWord(t, c)
    BY <2>2, <2>4 DEF ReadWord
  <2>7. QED
    BY <2>5, <2>6, ReadWordStep
<1>3. ASSUME NEW t \in Threads, NEW u \in Uaddrs, CmpRequeueCall(t, u)
      PROVE  FutexInv'
  <2>1. PICK u2 \in Uaddrs \ {u}, n \in NrWakes, val3 \in Words :
             ReadWord(t, [op |-> "requeue", u |-> u, u2 |-> u2, n |-> n,
                          val3 |-> val3, act |-> mem[u]])
    BY <1>3 DEF CmpRequeueCall
  <2>2. PICK c : c = [op |-> "requeue", u |-> u, u2 |-> u2, n |-> n,
                      val3 |-> val3, act |-> mem[u]]
    OBVIOUS
  <2>3. /\ c \in [op : {"requeue"}, u : Uaddrs, u2 : Uaddrs, n : NrWakes,
                  val3 : Words, act : Words]
        /\ c.u # c.u2
    BY <1>0, <2>2
  <2>4. ReadWord(t, c)
    BY <2>1, <2>2 DEF ReadWord
  <2>5. QED
    BY <2>3, <2>4, ReadWordStep
<1>4. ASSUME NEW t \in Threads, NEW u \in Uaddrs, WakeOpCall(t, u)
      PROVE  FutexInv'
  <2>1. PICK u2 \in Uaddrs \ {u}, n \in NrWakes, n2 \in NrWakes, o \in WakeOps :
             ReadWord(t, [op |-> "wakeop", u |-> u, u2 |-> u2, n |-> n, n2 |-> n2,
                          do |-> o, old |-> mem[u2]])
    BY <1>4 DEF WakeOpCall
  <2>2. PICK c : c = [op |-> "wakeop", u |-> u, u2 |-> u2, n |-> n, n2 |-> n2,
                      do |-> o, old |-> mem[u2]]
    OBVIOUS
  <2>3. /\ c \in [op : {"wakeop"}, u : Uaddrs, u2 : Uaddrs, n : NrWakes,
                  n2 : NrWakes, do : WakeOps, old : Words]
        /\ c.u # c.u2
    BY <1>0, <2>2
  <2>4. ReadWord(t, c)
    BY <2>1, <2>2 DEF ReadWord
  <2>5. QED
    BY <2>3, <2>4, ReadWordStep
<1>5. ASSUME NEW t \in Threads, NEW u \in Uaddrs, NEW n \in NrWakes, FutexWake(t, u, n)
      PROVE  FutexInv'
  BY <1>5, FutexWakeStep
<1>6. ASSUME NEW t \in Threads,
             \/ FutexWait(t) \/ FutexWakeOp(t) \/ FutexCmpRequeue(t)
             \/ \E r \in Timeouts : SleepCall(t, r)
             \/ StallStep(t) \/ WaitReturns(t) \/ DeadlockAbort(t)
      PROVE  FutexInv'
  BY <1>6, FutexWaitStep, FutexWakeOpStep, FutexCmpRequeueStep, SleepCallStep, StallSteps
<1>7. CASE FutexPeriodic
  BY <1>7, FutexPeriodicStep
<1>8. CASE UNCHANGED vars
  <2>1. /\ UNCHANGED <<status, where, msg, mem, waiting, sleeping, call, ret, by, owes>>
    BY <1>8 DEF vars
  <2>2. /\ StallTypeOK' /\ Placed' /\ Answered' /\ ResultMatchesWaker'
        /\ Apart' /\ Sleeps' = Sleeps /\ \A u \in Uaddrs : Waits(u)' = Waits(u)
    BY <2>1, QueuesSame
       DEF FutexInv, TypeOK, StallTypeOK, Placed, Answered, ResultMatchesWaker
  <2>a. TypeOK'
    BY <2>1, <2>2 DEF FutexInv, TypeOK
  <2>b. Located' /\ CallTypeOK'
    BY <2>1, <2>2 DEF FutexInv, Located, CallTypeOK
  <2>c. CallFresh' /\ NoLostWakeup'
    BY <2>1 DEF FutexInv, CallFresh, NoLostWakeup, Owed
  <2>3. TypeOK' /\ Located' /\ CallTypeOK' /\ CallFresh' /\ NoLostWakeup'
    BY <2>a, <2>b, <2>c
  <2>4. QED
    BY <2>2, <2>3 DEF FutexInv
<1>9. QED
  BY <1>1, <1>2, <1>3, <1>4, <1>5, <1>6, <1>7, <1>8 DEF Next, Finished
-----------------------------------------------------------------------------
\* A thread has one place in a queue of the server if it is stalled, and none
\* if it runs.
LEMMA OnePlace ==
  ASSUME FutexInv, NEW t \in Threads
  PROVE  Entries(t) = IF status[t] = "STALLED" THEN 1 ELSE 0
<1> DEFINE A == {i \in DOMAIN sleeping : sleeping[i].thread = t}
           B == {p \in Uaddrs \X (1..Cardinality(Threads)) :
                    /\ p[2] \in DOMAIN waiting[p[1]]
                    /\ waiting[p[1]][p[2]].thread = t}
<1>1. Entries(t) = Cardinality(A) + Cardinality(B)
  BY DEF Entries
<1>2. /\ waiting \in [Uaddrs -> Seq(WaiterType)] /\ sleeping \in Seq(WaiterType)
      /\ status \in [Threads -> {"RUNNING", "STALLED"}]
      /\ Cardinality(Threads) \in Nat
  BY TypeFacts, SyscallAssumption, FS_CardinalityType DEF FutexInv
<1>3. Cardinality({}) = 0
  BY FS_EmptySet
<1>4. A = {} \/ \E i : A = {i}
  BY DEF FutexInv, Apart, Alone
<1>5. B = {} \/ \E p : B = {p}
  <2>1. ASSUME NEW p \in B, NEW o \in B PROVE p = o
    <3>1. /\ p[1] \in Uaddrs /\ p[2] \in DOMAIN waiting[p[1]] /\ waiting[p[1]][p[2]].thread = t
          /\ o[1] \in Uaddrs /\ o[2] \in DOMAIN waiting[o[1]] /\ waiting[o[1]][o[2]].thread = t
          /\ p = <<p[1], p[2]>> /\ o = <<o[1], o[2]>>
      OBVIOUS
    <3>2. t \in Waits(p[1]) /\ t \in Waits(o[1])
      BY <3>1, InQueueOf DEF Waits
    <3>3. p[1] = o[1]
      BY <3>1, <3>2 DEF FutexInv, Apart
    <3>4. p[2] = o[2]
      BY <3>1, <3>3 DEF FutexInv, Apart, Alone
    <3>5. QED
      BY <3>1, <3>3, <3>4
  <2> HIDE DEF B
  <2>2. QED
    BY <2>1
<1>6. A # {} <=> t \in Sleeps
  BY InQueueOf DEF Sleeps
<1>7. B # {} <=> \E u \in Uaddrs : t \in Waits(u)
  <2>1. ASSUME NEW u \in Uaddrs, t \in Waits(u) PROVE B # {}
    <3>1. PICK i \in DOMAIN waiting[u] : waiting[u][i].thread = t
      BY <2>1, InQueueOf DEF Waits
    <3>2. Len(waiting[u]) \in Nat /\ DOMAIN waiting[u] = 1..Len(waiting[u])
      BY <1>2, LenProperties
    <3>3. Len(waiting[u]) <= Cardinality(Threads)
      BY DEF FutexInv, TypeOK
    <3>4. i \in 1..Cardinality(Threads)
      BY <1>2, <3>1, <3>2, <3>3
    <3>5. <<u, i>> \in B
      BY <3>1, <3>4
    <3>6. QED
      BY <3>5
  <2>2. ASSUME NEW p \in B PROVE p[1] \in Uaddrs /\ t \in Waits(p[1])
    BY InQueueOf DEF Waits
  <2>3. QED
    BY <2>1, <2>2
<1>8. ~(t \in Sleeps /\ \E u \in Uaddrs : t \in Waits(u))
  BY DEF FutexInv, Apart
<1>9. status[t] = "STALLED" <=> t \in Sleeps \/ \E u \in Uaddrs : t \in Waits(u)
  BY DEF FutexInv, Located
<1>10. \A x : Cardinality({x}) = 1
  BY FS_Singleton
<1> HIDE DEF A, B
<1>11. Cardinality(A) = IF A # {} THEN 1 ELSE 0
  BY <1>3, <1>4, <1>10
<1>12. Cardinality(B) = IF B # {} THEN 1 ELSE 0
  BY <1>3, <1>5, <1>10
<1>13. QED
  BY <1>1, <1>6, <1>7, <1>8, <1>9, <1>11, <1>12

\* What the runs check follows from FutexInv.
LEMMA FutexInvImplies == FutexInv => WaitersCorrect /\ NoLostWakeup
<1> SUFFICES ASSUME FutexInv PROVE WaitersCorrect /\ NoLostWakeup
  OBVIOUS
<1>1. SleepersQueued
  <2> SUFFICES ASSUME NEW t \in Threads
               PROVE  /\ where[t] = "wait" => Entries(t) = 1
                      /\ status[t] = "RUNNING" => Entries(t) = 0
    BY DEF SleepersQueued
  <2>1. where[t] = "wait" => status[t] = "STALLED"
    BY DEF FutexInv, Placed
  <2>2. QED
    BY <2>1, OnePlace
<1>2. QED
  BY <1>1 DEF FutexInv, WaitersCorrect

\* The invariant of the futex and sleep emulation: the queues of SimFutex and
\* m_sleeping say where every stalled thread is, and what it waits for.
THEOREM FutexInvariant == Spec => []FutexInv
  BY FutexInit, FutexStep, PTL DEF Spec

\* A thread asleep in ConditionVariable::wait is in exactly one queue, a
\* running one in none, and a wait reports what ended it.
THEOREM WaitersAreCorrect == Spec => []WaitersCorrect
<1>1. FutexInv => WaitersCorrect
  BY FutexInvImplies
<1>2. QED
  BY <1>1, FutexInvariant, PTL

\* No wakeup is lost between the comparison in futexWait, the store of the
\* application and the wake call that follows it.
THEOREM WakeupsAreKept == Spec => []NoLostWakeup
<1>1. FutexInv => NoLostWakeup
  BY FutexInvImplies
<1>2. QED
  BY <1>1, FutexInvariant, PTL
=============================================================================
