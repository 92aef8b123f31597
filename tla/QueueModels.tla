---------------------------- MODULE QueueModels ----------------------------
(***************************************************************************)
(* The queue models that turn arrival times into queueing delays, as the   *)
(* DRAM and network models use them: the history list of free intervals    *)
(* with its moving average, the basic queue, the contention model and the  *)
(* windowed M/G/1 model.  Requests arrive in the order in which they are   *)
(* simulated, not in the order of their times.                             *)
(*                                                                         *)
(* Times are unsigned words of Word values and subtraction wraps;          *)
(* Word \div 2 stands for the largest simulation time, 2^63 fs.            *)
(***************************************************************************)
EXTENDS Integers, Sequences, FiniteSets, SequencesExt, FiniteSetsExt

CONSTANTS QueueKinds,    \* "history", "basic", "contention", "mg1", "dram"
          Arrivals,      \* arrival times
          LateArrivals,  \* arrival times offered to the M/G/1 model
          Services,      \* processing times
          MinService,    \* min_processing_time of the history list
          MaxList,       \* queue_model/history_list/max_list_size
          Window,        \* queue_model/windowed_mg1/window_size
          Word, MaxRequests

VARIABLES qm_kind,
          qm_q,          \* the queue; for "dram" the queue of the reads
          qm_w,          \* the queue of the writes ("dram" only)
          qm_global,     \* the barrier's global time
          qm_slots,      \* ghost: when requests were served by qm_q, and by qm_w
          qm_dropped,    \* ghost: arrivals forgotten although inside the window
          qm_error, qm_count

qmVars == <<qm_kind, qm_q, qm_w, qm_global, qm_slots, qm_dropped, qm_error, qm_count>>

MaxSimTime  == Word \div 2
NoTime      == Word - 1          \* SubsecondTime::MaxTime()
Minus(a, b) == (a - b) % Word
MaxOf(a, b) == IF a > b THEN a ELSE b
SumSeq(s)   == FoldLeft(LAMBDA x, y : x + y, 0, s)

NewQueue ==
    [free |-> <<<<0, MaxSimTime>>>>,                       \* m_free_interval_list
     avg  |-> <<>>, sum |-> 0,                             \* MovingArithmeticMean
     time |-> 0,                                           \* QueueModelBasic::m_queue_time
     busy |-> 0, last |-> 0,                               \* ContentionModel with one slot
     window |-> <<>>, num |-> 0, service |-> 0, square |-> 0]  \* QueueModelWindowedMG1
-----------------------------------------------------------------------------
(* MovingArithmeticMean::update over a circular window of MaxList values. *)
AddToAverage(q, x) ==
    LET full == Len(q.avg) = MaxList
    IN  [q EXCEPT !.avg = Append(IF full THEN Tail(@) ELSE @, x),
                  !.sum = @ + x - IF full THEN Head(q.avg) ELSE 0]

(* The interval a request is put in: the first that holds it or starts after it. *)
FindInterval(free, t, d) ==
    SelectInSeq(free, LAMBDA i : (t >= i[1] /\ t + d <= i[2]) \/ t < i[1])

(* Mutant: the part before the request is taken to be its own size. *)
RestTooLong(i, t, d) ==
    (IF t >= i[1] /\ Minus(t, i[1]) >= MinService THEN <<<<i[1], t + 1>>>> ELSE <<>>)
    \o (IF Minus(i[2], t + d) >= MinService THEN <<<<t + d, i[2]>>>> ELSE <<>>)

(* What is left of an interval when [t, t + d) is taken out of it; too short a rest is lost. *)
Rest(i, t, d) ==
    (IF t >= i[1] /\ Minus(t, i[1]) >= MinService THEN <<<<i[1], t>>>> ELSE <<>>)
    \o (IF Minus(i[2], t + d) >= MinService THEN <<<<t + d, i[2]>>>> ELSE <<>>)

Taken(free, k, t, d) ==
    SubSeq(free, 1, k - 1) \o Rest(free[k], t, d) \o SubSeq(free, k + 1, Len(free))

(* computeUsingHistoryList: the delay and the list it leaves, its oldest interval dropped when *)
(* it is too long.                                                                             *)
HistoryList(q, t, d) ==
    LET k     == FindInterval(q.free, t, d)
        start == MaxOf(t, q.free[k][1])
        list  == Taken(q.free, k, start, d)
        kept  == IF Len(list) > MaxList THEN Tail(list) ELSE list
    IN  IF k = 0 THEN [delay |-> NoTime, q |-> q, slot |-> {}]
        ELSE [delay |-> start - t, q |-> AddToAverage([q EXCEPT !.free = kept], start - t),
              slot |-> {<<start, start + d>>}]

(* QueueModelHistoryList::computeQueueDelay: a request from before the history gets the average. *)
History(q, t, d) ==
    IF t + d <= q.free[1][1]
    THEN [delay |-> IF q.avg = <<>> THEN NoTime ELSE q.sum \div Len(q.avg), q |-> q, slot |-> {}]
    ELSE HistoryList(q, t, d)

Basic(q, t, d) ==
    LET begin == MaxOf(q.time, t)
    IN  [delay |-> begin - t, q |-> [q EXCEPT !.time = begin + d], slot |-> {<<begin, begin + d>>}]

(* ContentionModel::getCompletionTime with one slot; what is out of order or at time zero is *)
(* not held up and holds nobody up.                                                          *)
Contention(q, t, d) ==
    IF t = 0 \/ t < q.last THEN [delay |-> 0, q |-> q, slot |-> {}]
    ELSE LET begin == MaxOf(t, q.busy)
         IN  [delay |-> begin - t, q |-> [q EXCEPT !.busy = begin + d, !.last = t],
              slot |-> {<<begin, begin + d>>}]

(* Mutant: the whole window before the barrier's is forgotten too. *)
EarliestBarrier(global, t) == MaxOf(global, Minus(t, 10 * Window))

(* The window of the M/G/1 model ends a window before the global time, or ten before the request. *)
Earliest(global, t) == MaxOf(Minus(global, Window), Minus(t, 10 * Window))

(* Mutant: the squares of the requests that leave stay in the sum. *)
RemoveKeepsSquares(q, earliest) ==
    LET gone == SelectSeq(q.window, LAMBDA i : i[1] < earliest)
    IN  [q EXCEPT !.window = SelectSeq(@, LAMBDA i : i[1] >= earliest),
                  !.num = @ - Len(gone),
                  !.service = @ - SumSeq([i \in DOMAIN gone |-> gone[i][2]])]

RemoveItems(q, earliest) ==
    LET gone == SelectSeq(q.window, LAMBDA i : i[1] < earliest)
    IN  [q EXCEPT !.window = SelectSeq(@, LAMBDA i : i[1] >= earliest),
                  !.num = @ - Len(gone),
                  !.service = @ - SumSeq([i \in DOMAIN gone |-> gone[i][2]]),
                  !.square = @ - SumSeq([i \in DOMAIN gone |-> gone[i][2] * gone[i][2]])]

AddItem(q, t, d) ==
    [q EXCEPT !.window = SortSeq(Append(@, <<t, d>>), LAMBDA x, y : x[1] < y[1]),
              !.num = @ + 1, !.service = @ + d, !.square = @ + d * d]

(* The delay is that of the formula with the utilisation capped below one and the result at a window. *)
Mg1(q0, t, d) ==
    LET q    == RemoveItems(q0, Earliest(qm_global, t))
        idle == MaxOf(Window - q.service, 1)
        wait == (q.square \div (2 * idle))
    IN  [delay |-> IF q.num > 1 THEN (IF wait > Window THEN Window ELSE wait) ELSE 0,
         q |-> AddItem(q, t, d), slot |-> {}]
-----------------------------------------------------------------------------
Compute(kind, q, t, d) ==
    CASE kind \in {"history", "dram"} -> History(q, t, d)
      [] kind = "basic"      -> Basic(q, t, d)
      [] kind = "contention" -> Contention(q, t, d)
      [] kind = "mg1"        -> Mg1(q, t, d)

Lost(before, after, t) ==
    {i \in ToSet(before.window) : i[1] + Window >= qm_global /\ i[1] + 10 * Window >= t} \ ToSet(after.window)

(* One request; on a shared DRAM bus a read is entered in the queue of the writes as well, and *)
(* a write in that one only (DramPerfModelReadWrite::getAccessLatency).                        *)
Request(t, d, write) ==
    LET both == qm_kind = "dram"
        r    == Compute(qm_kind, qm_q, t, d)
        w    == Compute(qm_kind, qm_w, t, d)
    IN  /\ qm_count < MaxRequests /\ qm_error = ""
        /\ t \in IF qm_kind = "mg1" THEN LateArrivals ELSE Arrivals
        /\ write => both
        /\ qm_q' = IF write THEN qm_q ELSE r.q
        /\ qm_w' = IF both THEN w.q ELSE qm_w
        /\ qm_slots' = [r |-> qm_slots.r \union IF write THEN {} ELSE {<<qm_count, s[1], s[2]>> : s \in r.slot},
                        w |-> qm_slots.w \union IF both THEN {<<qm_count, s[1], s[2]>> : s \in w.slot} ELSE {}]
        /\ qm_dropped' = qm_dropped \union
              IF qm_kind = "mg1" THEN {<<i[1], t, qm_global>> : i \in Lost(qm_q, r.q, t)} ELSE {}
        /\ qm_error' = IF (IF write THEN w.delay ELSE r.delay) = NoTime THEN "free interval not found" ELSE ""
        /\ qm_count' = qm_count + 1
        /\ UNCHANGED <<qm_kind, qm_global>>

(* The barrier advances; no thread is behind it. *)
Barrier(g) ==
    /\ qm_kind = "mg1" /\ g > qm_global /\ qm_global' = g
    /\ UNCHANGED <<qm_kind, qm_q, qm_w, qm_slots, qm_dropped, qm_error, qm_count>>

QmInit ==
    /\ qm_kind \in QueueKinds
    /\ qm_q = NewQueue /\ qm_w = NewQueue
    /\ qm_global = 0
    /\ qm_slots = [r |-> {}, w |-> {}] /\ qm_dropped = {}
    /\ qm_error = "" /\ qm_count = 0

QmNext ==
    \/ \E t \in Arrivals \union LateArrivals, d \in Services, w \in BOOLEAN :
          t >= qm_global /\ Request(t, d, w)
    \/ \E g \in LateArrivals : Barrier(g)
-----------------------------------------------------------------------------
(* The lists stay within their limits and the assertion that a free interval is found holds. *)
QmTypeOK ==
    /\ qm_error = ""
    /\ \A q \in {qm_q, qm_w} : Len(q.free) \in 1 .. MaxList /\ Len(q.avg) \in 0 .. MaxList

(* Two requests are never served at the same time, however out of order they were simulated, *)
(* as long as none is longer than the queue's shortest (the DRAM bus).                       *)
NeverTwoAtOnce ==
    \A S \in {qm_slots.r, qm_slots.w} : \A x, y \in S : x # y => (x[3] <= y[2] \/ y[3] <= x[2])

(* The running sums of the moving average and of the window are those of what is in them. *)
SumsExact ==
    \A q \in {qm_q, qm_w} :
        /\ q.sum = SumSeq(q.avg)
        /\ q.num = Len(q.window)
        /\ q.service = SumSeq([i \in DOMAIN q.window |-> q.window[i][2]])
        /\ q.square = SumSeq([i \in DOMAIN q.window |-> q.window[i][2] * q.window[i][2]])

(* "Use a backup value of 10 window sizes before the current request": the M/G/1 model forgets *)
(* only arrivals that are older than that or a window behind the barrier.                      *)
WindowRemembers == qm_dropped = {}

(* The same, once the barrier has passed a window and the request is ten windows into the run: *)
(* from there on the subtractions no longer wrap.                                              *)
WindowRemembersLater ==
    \A x \in qm_dropped : x[3] < Window \/ x[2] < 10 * Window

(* The contention models with requests simulated out of order: two requests *)
(* are never served at the same time, the running sums of the moving        *)
(* average and of the M/G/1 window are those of what is in them, and the    *)
(* window, once it cannot wrap, forgets only what is too old.               *)
ContentionCorrect ==
    QmTypeOK /\ NeverTwoAtOnce /\ SumsExact /\ WindowRemembersLater
=============================================================================
