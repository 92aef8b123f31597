------------------------- MODULE ThreadSystemProofs -------------------------
(***************************************************************************)
(* Proofs about ThreadSystem: for any number of cores and threads the      *)
(* servers' tables stay one placement, no assertion of theirs fails, and   *)
(* no wake-up is lost but that of a thread that joins another too early.   *)
(*                                                                         *)
(* A critical section is a chain of operators, each of which hands a state *)
(* to the next, and in between the state is not one that ThreadInv allows: *)
(* a core has been promised and not given, a thread that stalls still has  *)
(* its core.  So the proof has two invariants.  Mid(s, w, h) holds between *)
(* any two steps inside a critical section, for the places w of the host   *)
(* threads, where the one whose handler is at work is "acting"; ThreadInv  *)
(* holds between critical sections.  Every operator is shown to keep Mid,  *)
(* and to change nothing but what Moves (rescheduling), Turns (the         *)
(* periodic hook) or Over (the end of a handler) allow; then Commit makes  *)
(* ThreadInv of it, and one lemma per action puts these together.          *)
(*                                                                         *)
(* The circle moveThread -> resumeThread_async -> reschedule -> moveThread *)
(* is an induction over the number of free cores: every nested resume      *)
(* fills one, so that as many as there are cores always suffice.  The      *)
(* rounds of barrierRelease and the cores of periodic() are inductions     *)
(* over their counters.                                                    *)
(***************************************************************************)
EXTENDS ThreadSystem, FiniteSetTheorems, SequenceTheorems, WellFoundedInduction, TLAPS


(* The tables of scheduler, thread manager and cores, in the middle of a    *)
(* critical section: m_core_running and m_core_thread_running are inverse,  *)
(* so are Thread::m_core and Core::m_thread, a thread is on no core but the *)
(* one the scheduler means for it, and a core without a thread is idle.     *)
Tables(s) ==
    /\ \A t \in Threads, c \in Cores : (s.coreRunning[t] = c) <=> (s.running[c] = t)
    /\ \A t \in Threads, c \in Cores : (s.core[t] = c) <=> (s.cthread[c] = t)
    /\ \A t \in Threads : s.core[t] \in {NoCore, s.coreRunning[t]}
    /\ \A c \in Cores : s.cthread[c] = NoThread => s.cstate[c] = "IDLE"

(* A thread the scheduler has put on a core runs or is starting, and the *)
(* core says the same, unless its own handler is still at work on it     *)
(* ("acting").                                                           *)
Placed(s, w) ==
    \A t \in Threads : (w[t] # "acting" /\ s.coreRunning[t] # NoCore) =>
      /\ s.status[t] \in {"RUNNING", "INITIALIZING"}
      /\ s.core[t] # NoCore => s.cstate[s.core[t]] = s.status[t]

(* Whom the scheduler may put on a core (ThreadInfo::isRunning): a thread *)
(* that runs, one that waits for a core, or one that has just ended and   *)
(* still has its core.                                                    *)
Ready(s) ==
    \A t \in Threads : s.runnable[t] =>
      \/ s.status[t] = "RUNNING"
      \/ s.status[t] = "STALLED" /\ s.reason[t] = "UNSCHEDULED"
      \/ s.status[t] = "IDLE" /\ s.coreRunning[t] # NoCore

(* What the servers hold of a thread, by what its host thread is doing. *)
AtPlaces(s, w, h) ==
    \A t \in Threads :
      /\ w[t] = "none" => s.status[t] = "none" /\ s.coreRunning[t] = NoCore
      /\ w[t] = "created" => s.status[t] = "INITIALIZING" /\ s.core[t] = s.coreRunning[t]
      /\ w[t] = "user" => s.status[t] = "RUNNING" /\ s.core[t] = h[t] /\ h[t] \in Cores
      /\ w[t] = "check" =>
           s.status[t] = "RUNNING" \/ (s.status[t] = "STALLED" /\ s.reason[t] \in {"JOIN", "UNSCHEDULED"})
      /\ w[t] = "stalled" =>
           s.status[t] = "STALLED" \/ (s.status[t] = "RUNNING" /\ t \in s.signalled)
      /\ w[t] \in {"startwait", "barrier"} => s.status[t] = "RUNNING"
      /\ w[t] = "paused" => s.status[t] = "STALLED" /\ s.reason[t] = "PAUSE"
      /\ w[t] = "exited" => s.status[t] = "IDLE"

(* Whoever is noted as a waiter is waiting: in waitForThreadStart for a    *)
(* thread that has not started, or stalled in a join; nobody waits for two *)
(* threads, and nobody waits for a start without being noted.              *)
Waits(s, w) ==
    /\ \A t \in Threads : s.waiter[t] # NoThread => s.waiter[t] \notin s.signalled
    /\ \A t \in Threads : s.waiter[t] # NoThread =>
         \/ w[s.waiter[t]] = "startwait" /\ w[t] \in {"created", "acting"}
         \/ /\ w[s.waiter[t]] \in {"stalled", "acting"}
            /\ s.status[s.waiter[t]] = "STALLED" /\ s.reason[s.waiter[t]] = "JOIN"
    /\ \A t, u \in Threads : (s.waiter[t] = s.waiter[u] /\ s.waiter[t] # NoThread) => t = u
    /\ \A u \in Threads : w[u] = "startwait" =>
         \/ u \in s.signalled
         \/ \E t \in Threads : s.waiter[t] = u /\ w[t] \in {"created", "acting"}

(* Whoever is in SyscallServer::m_sleeping is stalled in a sleep, and is *)
(* there once.                                                           *)
Asleep(s, w) ==
    /\ \A i \in DOMAIN s.sleeping :
         /\ w[s.sleeping[i]] \in {"stalled", "acting"}
         /\ s.status[s.sleeping[i]] = "STALLED" /\ s.reason[s.sleeping[i]] = "SLEEP"
    /\ \A i, j \in DOMAIN s.sleeping : s.sleeping[i] = s.sleeping[j] => i = j

(* The barrier and its waiting threads agree: a core that is held names a    *)
(* thread that waits at it, a thread that waits is the one its core names    *)
(* unless it has been signalled, and a core that is not held has no clock at *)
(* or past the barrier time.                                                 *)
InBarrier(s, w, h) ==
    /\ \A c \in Cores : s.acquired[c] =>
         /\ s.slot[c] \in Threads /\ s.slot[c] \notin s.signalled
         /\ w[s.slot[c]] = "barrier" /\ h[s.slot[c]] = c
         /\ s.core[s.slot[c]] = c \/ s.clock[c] = 0
    /\ \A t \in Threads : w[t] = "barrier" =>
         h[t] \in Cores /\ (t \in s.signalled \/ (s.acquired[h[t]] /\ s.slot[h[t]] = t))
    /\ \A c \in Cores : (~s.acquired[c] /\ ~s.aborted) => s.clock[c] < s.next
    /\ s.disable => \A c \in Cores : ~s.acquired[c]
    /\ s.lastPeriodic <= s.next

(* What holds between any two steps inside a critical section. *)
Mid(s, w, h) ==
    /\ s \in Systems /\ s.failed \subseteq {"application deadlocked", "advance spins"}
    /\ Tables(s) /\ Placed(s, w) /\ Ready(s) /\ AtPlaces(s, w, h)
    /\ Waits(s, w) /\ Asleep(s, w) /\ InBarrier(s, w, h)

(* Nobody has been promised a core that was not given. *)
Settled(s) == s.core = s.coreRunning

(* A held core still has its thread, and, in detailed mode, has reached the *)
(* barrier time.                                                            *)
Held(s) ==
    \A c \in Cores : s.acquired[c] =>
      s.core[s.slot[c]] = c /\ (s.fastforward \/ s.clock[c] >= s.next)

(* Who wakes thread t: the thread it joins, the periodic hook, the scheduler *)
(* or another thread.                                                        *)
Waker(s, t) ==
    \/ s.reason[t] = "JOIN" /\ \E u \in Threads : s.waiter[u] = t /\ s.status[u] \notin {"none", "IDLE"}
    \/ s.reason[t] = "SLEEP" /\ t \in Sleepers(s)
    \/ s.reason[t] = "UNSCHEDULED" /\ s.runnable[t]
    \/ s.reason[t] = "FUTEX"

(* Every stalled thread that is not in A has somebody to wake it or is in a *)
(* pause, and whoever runs the scheduler may choose.                        *)
Woken(s, w, A) ==
    \A t \in Threads :
      /\ s.status[t] = "RUNNING" => s.runnable[t]
      /\ (s.status[t] = "STALLED" /\ t \notin A) =>
           Waker(s, t) \/ (s.reason[t] = "PAUSE" /\ w[t] = "paused")

(* Those who have been signalled in vain in a join, after a critical section. *)
Abandoned(r) == abandoned \union {u \in r.signalled : r.status[u] = "STALLED" /\ r.reason[u] = "JOIN"}

(* Nobody can execute, although nothing has failed. *)
Stuck(s, w) ==
    /\ \A t \in Threads : w[t] \notin {"created", "user", "check"}
    /\ ~s.disable /\ s.failed = {}

(* The inductive invariant, which holds between critical sections.  When  *)
(* nobody can execute the barrier has not been reached, for the step that *)
(* reached it has released it.                                            *)
ThreadInv ==
    /\ Mid(sys, where, here) /\ Settled(sys) /\ Held(sys)
    /\ Woken(sys, where, abandoned) /\ abandoned \subseteq Threads
    /\ sys.signalled = {} /\ sys.next <= MaxTime
    /\ Stuck(sys, where) => ~IsBarrierReached(sys)
    /\ where \in [Threads -> Places] /\ here \in [Threads -> Cores \union {NoCore}]

(* A set of naturals that has an element has a least one. *)
LEMMA Least ==
  ASSUME NEW S \in SUBSET Nat, S # {}
  PROVE  \E i \in S : \A j \in S : i <= j
<1>1. PICK R : R = {p \in Nat \X Nat : p[1] < p[2]}
  BY Zenon
<1>2. IsWellFoundedOn(R, Nat)
  BY <1>1, NatLessThanWellFounded DEF OpToRel
<1>3. PICK i \in S : \A j \in S : ~ (<<j, i>> \in R)
  BY Zenon, <1>2, WFMin
<1>4. ASSUME NEW j \in S PROVE i <= j
  <2>1. j \in Nat /\ i \in Nat
    OBVIOUS
  <2>2. ASSUME j < i PROVE FALSE
    <3>1. <<j, i>> \in {p \in Nat \X Nat : p[1] < p[2]}
      BY <2>1, <2>2
    <3>2. QED
      BY <1>1, <1>3, <3>1
  <2>3. QED
    BY <2>1, <2>2
<1>5. QED
  BY <1>4

(* Induction over the naturals, for a set in place of a predicate. *)
LEMMA Induction ==
  ASSUME NEW P, 0 \in P, \A n \in Nat : n \in P => n + 1 \in P
  PROVE  Nat \subseteq P
<1>1. SUFFICES ASSUME Nat \ P # {} PROVE FALSE
  OBVIOUS
<1>2. Nat \ P \in SUBSET Nat
  OBVIOUS
<1>3. PICK m \in Nat \ P : \A j \in Nat \ P : m <= j
  BY Zenon, <1>1, <1>2, Least
<1>4. m # 0 /\ m - 1 \in Nat
  BY <1>3
<1>5. m - 1 \in P
  BY <1>3, <1>4
<1>6. QED
  BY <1>3, <1>4, <1>5

(* What the three recursive functions of the model do from one value to the *)
(* next.                                                                    *)
Turn(loop, n, x, p) ==
    CASE loop = "resumes" -> FillOne(x)
      [] loop = "cores" -> PeriodicCore(x, n - 1, p)
      [] loop = "rounds" -> NextRound(x, p[1], p[2])

(* f is the recursive function that runs one of the loops from `start`. *)
Loops(f, loop, start, p) == f = [n \in Nat |-> IF n = 0 THEN start ELSE Turn(loop, n, f[n - 1], p)]

(* Each of the three functions exists. *)
LEMMA LoopDefined ==
  ASSUME NEW loop, NEW p, NEW start
  PROVE  \E f : Loops(f, loop, start, p)
<1> DEFINE Approx(g, n) == g[0] = start /\ \A i \in 1 .. n : g[i] = Turn(loop, i, g[i - 1], p)
           E == {n \in Nat : \E g : Approx(g, n)}
           U == {n \in Nat : \A g, f : (Approx(g, n) /\ Approx(f, n)) => g[n] = f[n]}
           body(f) == [n \in Nat |-> IF n = 0 THEN start ELSE Turn(loop, n, f[n - 1], p)]
           F == [n \in Nat |-> (CHOOSE g : Approx(g, n))[n]]
<1>1. Nat \subseteq E
  <2>1. 0 \in E
    <3>1. Approx([k \in {0} |-> start], 0)
      OBVIOUS
    <3>2. QED
      BY Zenon, <3>1
  <2>2. ASSUME NEW n \in Nat, n \in E PROVE n + 1 \in E
    <3>1. PICK g : Approx(g, n)
      BY <2>2
    <3> DEFINE g1 == [k \in 0 .. (n + 1) |-> IF k = n + 1 THEN Turn(loop, n + 1, g[n], p) ELSE g[k]]
    <3>2. g1[0] = start
      BY <3>1
    <3>3. ASSUME NEW i \in 1 .. (n + 1) PROVE g1[i] = Turn(loop, i, g1[i - 1], p)
      <4>1. i \in 0 .. (n + 1) /\ i - 1 \in 0 .. (n + 1) /\ i - 1 # n + 1
        OBVIOUS
      <4>2. CASE i = n + 1
        <5>1. i - 1 = n
          BY <4>2
        <5>2. QED
          BY <4>1, <4>2, <5>1
      <4>3. CASE i # n + 1
        <5>1. i \in 1 .. n
          BY <4>3
        <5>2. g[i] = Turn(loop, i, g[i - 1], p)
          BY <5>1, <3>1
        <5>3. QED
          BY <4>1, <4>3, <5>2
      <4>4. QED
        BY <4>2, <4>3
    <3>4. Approx(g1, n + 1)
      BY Zenon, <3>2, <3>3
    <3> HIDE DEF g1
    <3>5. QED
      BY <3>4
  <2> HIDE DEF E
  <2>3. QED
    BY <2>1, <2>2, Induction
<1>2. ASSUME NEW n \in Nat, NEW g, Approx(g, n + 1) PROVE Approx(g, n) /\ g[n + 1] = Turn(loop, n + 1, g[n], p)
  <2>1. 1 .. n \subseteq 1 .. (n + 1) /\ n + 1 \in 1 .. (n + 1) /\ (n + 1) - 1 = n
    OBVIOUS
  <2>2. QED
    BY <1>2, <2>1
<1> HIDE DEF Approx
<1>3. Nat \subseteq U
  <2>1. 0 \in U
    BY DEF Approx
  <2>2. ASSUME NEW n \in Nat, n \in U PROVE n + 1 \in U
    <3>1. ASSUME NEW g, NEW f, Approx(g, n + 1), Approx(f, n + 1) PROVE g[n + 1] = f[n + 1]
      <4>1. Approx(g, n) /\ g[n + 1] = Turn(loop, n + 1, g[n], p)
        BY <1>2, <3>1
      <4>2. Approx(f, n) /\ f[n + 1] = Turn(loop, n + 1, f[n], p)
        BY <1>2, <3>1
      <4>3. g[n] = f[n]
        BY <2>2, <4>1, <4>2
      <4>4. QED
        BY <4>1, <4>2, <4>3
    <3>2. QED
      BY <3>1
  <2> HIDE DEF U
  <2>3. QED
    BY <2>1, <2>2, Induction
<1>4. ASSUME NEW n \in Nat PROVE Approx(CHOOSE g : Approx(g, n), n)
  <2>1. \E g : Approx(g, n)
    BY <1>1
  <2>2. QED
    BY <2>1
<1>5. ASSUME NEW n \in Nat, NEW g, Approx(g, n) PROVE F[n] = g[n]
  BY <1>3, <1>4, <1>5
<1>6. ASSUME NEW n \in Nat PROVE F[n] = IF n = 0 THEN start ELSE Turn(loop, n, F[n - 1], p)
  <2>1. CASE n = 0
    <3>1. PICK g : Approx(g, 0)
      BY <1>1
    <3>2. F[0] = g[0]
      BY <1>5, <3>1
    <3>3. g[0] = start
      BY <3>1 DEF Approx
    <3>4. QED
      BY <2>1, <3>2, <3>3
  <2>2. CASE n # 0
    <3>1. n - 1 \in Nat /\ (n - 1) + 1 = n
      BY <2>2
    <3>2. PICK g : Approx(g, n)
      BY <1>1
    <3>3. Approx(g, n - 1) /\ g[n] = Turn(loop, n, g[n - 1], p)
      BY <1>2, <3>1, <3>2
    <3>4. F[n] = g[n] /\ F[n - 1] = g[n - 1]
      BY <1>5, <3>1, <3>2, <3>3
    <3>5. QED
      BY <2>2, <3>3, <3>4
  <2>3. QED
    BY <2>1, <2>2
<1>7. F = [n \in Nat |-> IF n = 0 THEN start ELSE Turn(loop, n, F[n - 1], p)]
  <2>1. F = [n \in Nat |-> F[n]]
    OBVIOUS
  <2> HIDE DEF F
  <2>2. QED
    BY Zenon, <2>1, <1>6
<1> HIDE DEF F
<1>8. QED
  BY <1>7 DEF Loops

(* The nested resumes, one level from the next. *)
LEMMA ResumesDefined ==
  Resumes = [n \in Nat |-> IF n = 0 THEN NoMoreCores ELSE FillOne(Resumes[n - 1])]
<1>1. PICK f : Loops(f, "resumes", NoMoreCores, 0)
  BY LoopDefined
<1>2. f = [n \in Nat |-> IF n = 0 THEN NoMoreCores ELSE FillOne(f[n - 1])]
  BY <1>1 DEF Turn, Loops
<1>3. QED
  BY <1>2 DEF Resumes

(* The ids that stand for no core and no thread name none. *)
LEMMA CoresAndThreads ==
  /\ NoCore \notin Cores /\ NoThread \notin Threads
  /\ Cores \subseteq Int /\ Threads \subseteq Int
BY ThreadSystemAssumption DEF NoCore, NoThread

(* What rescheduling leaves alone. *)
SameRest(s, r) ==
    /\ r.waiter = s.waiter /\ r.affinity = s.affinity /\ r.policy = s.policy /\ r.nextCore = s.nextCore
    /\ r.acquired = s.acquired /\ r.slot = s.slot /\ r.next = s.next
    /\ r.fastforward = s.fastforward /\ r.disable = s.disable /\ r.aborted = s.aborted
    /\ r.sleeping = s.sleeping /\ r.lastPeriodic = s.lastPeriodic /\ r.failed = s.failed

(* What the servers hold of the threads is the same. *)
SameThreads(s, r) ==
    r.status = s.status /\ r.reason = s.reason /\ r.runnable = s.runnable /\ r.signalled = s.signalled

(* The clocks after BarrierSyncServer::releaseThread. *)
Cleared(s, t) == [c \in Cores |-> IF s.acquired[c] /\ s.slot[c] = t THEN 0 ELSE s.clock[c]]

(* Thread t has been taken off core c. *)
Vacates(s, v, c, t) ==
    /\ v \in Systems /\ SameRest(s, v) /\ SameThreads(s, v)
    /\ v.coreRunning = [s.coreRunning EXCEPT ![t] = NoCore]
    /\ v.core = [s.core EXCEPT ![t] = NoCore]
    /\ v.running = [s.running EXCEPT ![c] = NoThread]
    /\ v.cthread = [s.cthread EXCEPT ![c] = NoThread]
    /\ v.cstate = [s.cstate EXCEPT ![c] = "IDLE"]
    /\ v.clock = Cleared(s, t)

(* The state in the middle of reschedule(), after its first move. *)
Vacated(s, c, t, resume) == [TakeOff(s, t, resume) EXCEPT !.running[c] = NoThread]

(* The types of the fields. *)
LEMMA SystemsType ==
  ASSUME NEW s \in Systems
  PROVE  /\ s.status \in [Threads -> Statuses] /\ s.reason \in [Threads -> Reasons]
         /\ s.waiter \in [Threads -> Threads \union {NoThread}]
         /\ s.core \in [Threads -> Cores \union {NoCore}]
         /\ s.cthread \in [Cores -> Threads \union {NoThread}]
         /\ s.cstate \in [Cores -> {"IDLE", "INITIALIZING", "RUNNING"}]
         /\ s.runnable \in [Threads -> BOOLEAN] /\ s.affinity \in [Threads -> SUBSET Cores]
         /\ s.coreRunning \in [Threads -> Cores \union {NoCore}]
         /\ s.lastScheduled \in [Threads -> Nat]
         /\ s.running \in [Cores -> Threads \union {NoThread}]
         /\ s.quantumLeft \in [Cores -> 0 .. Quantum]
         /\ s.lastPeriodic \in Nat /\ s.nextCore \in Cores
         /\ s.acquired \in [Cores -> BOOLEAN] /\ s.clock \in [Cores -> Nat]
         /\ s.slot \in [Cores -> Threads \union {NoThread}] /\ s.next \in Nat \ {0}
         /\ s.fastforward \in BOOLEAN /\ s.disable \in BOOLEAN
         /\ s.sleeping \in Seq(Threads) /\ s.wakeAt \in [Threads -> Nat]
         /\ s.signalled \in SUBSET Threads
         /\ s.failed \in SUBSET Assertions /\ s.aborted \in BOOLEAN
BY Zenon DEF Systems

(* The first move of reschedule() takes the thread off its core. *)
LEMMA VacateIs ==
  ASSUME NEW s \in Systems, Tables(s), NEW c \in Cores, NEW t \in Threads, s.running[c] = t, NEW resume
  PROVE  Vacates(s, Vacated(s, c, t, resume), c, t)
<1> DEFINE a == [s EXCEPT !.coreRunning[t] = NoCore, !.lastScheduled[t] = Now(s)]
           b == [a EXCEPT !.core[t] = NoCore, !.cthread[c] = NoThread, !.cstate[c] = "IDLE"]
           d == [b EXCEPT !.clock = Cleared(s, t), !.running[c] = NoThread]
<1>0. t # NoThread /\ c # NoCore
  BY CoresAndThreads
<1>a. Now(s) \in Nat
  BY SystemsType DEF Now
<1>1. a \in Systems /\ a.core = s.core /\ a.cthread = s.cthread /\ a.cstate = s.cstate
  BY Zenon, <1>a DEF Systems
<1>t. /\ s.core \in [Threads -> Cores \union {NoCore}] /\ s.cthread \in [Cores -> Threads \union {NoThread}]
      /\ s.cstate \in [Cores -> {"IDLE", "INITIALIZING", "RUNNING"}]
      /\ s.coreRunning \in [Threads -> Cores \union {NoCore}]
  BY SystemsType
<1> HIDE DEF a
<1>2. s.core[t] = NoCore => s.cthread[c] = NoThread /\ s.cstate[c] = "IDLE"
  BY <1>t, <1>0 DEF Tables
<1>3. s.core[t] \in {NoCore, c}
  BY <1>t DEF Tables
<1>4. SetCore(SetState(a, a.core[t], "IDLE"), t, NoCore) = b
  <2>1. CASE s.core[t] = NoCore
    <3>1. SetState(a, a.core[t], "IDLE") = a
      BY <1>1, <2>1 DEF SetState
    <3>2. SetCore(a, t, NoCore) = [a EXCEPT !.core[t] = NoCore]
      BY <1>1, <2>1 DEF SetCore, AssertIn
    <3>3. [a.cthread EXCEPT ![c] = NoThread] = a.cthread /\ [a.cstate EXCEPT ![c] = "IDLE"] = a.cstate
      BY <1>1, <1>t, <1>2, <2>1
    <3>4. b = [a EXCEPT !.core[t] = NoCore]
      BY ZenonT(40), <3>3, <1>1 DEF Systems
    <3>5. QED
      BY <3>1, <3>2, <3>4
  <2>2. CASE s.core[t] = c
    <3>1. SetState(a, a.core[t], "IDLE") = [a EXCEPT !.cstate[c] = "IDLE"]
      BY <1>1, <2>2, <1>0 DEF SetState
    <3>2. [a EXCEPT !.cstate[c] = "IDLE"].core[t] = c /\ [a EXCEPT !.cstate[c] = "IDLE"] \in Systems
      BY Zenon, <1>1, <2>2 DEF Systems
    <3>3. PICK e : e = [a EXCEPT !.cstate[c] = "IDLE"]
      BY Zenon
    <3>4. e.core[t] = c /\ c # NoCore
      BY <1>0, <3>2, <3>3
    <3>5. SetCore(e, t, NoCore) = [[e EXCEPT !.cthread[c] = NoThread] EXCEPT !.core[t] = NoCore]
      BY <3>4 DEF SetCore, AssertIn
    <3>6. [[e EXCEPT !.cthread[c] = NoThread] EXCEPT !.core[t] = NoCore] = b
      BY Zenon, <1>1, <3>3 DEF Systems
    <3>7. QED
      BY <3>1, <3>3, <3>5, <3>6
  <2>3. QED
    BY <1>3, <2>1, <2>2
<1>5. TakeOff(s, t, resume) = ReleaseThread(b, t)
  BY <1>0, <1>4 DEF TakeOff, MoveThread, a
<1>6. b \in Systems
  BY ZenonT(40), <1>0, <1>1 DEF Systems
<1>7. /\ b.acquired = s.acquired /\ b.slot = s.slot /\ b.clock = s.clock
  BY <1>a DEF Systems, a
<1>b. SameRest(s, b) /\ SameThreads(s, b) /\ b.running = s.running
  BY DEF SameRest, SameThreads, Systems, a
<1>c. /\ b.coreRunning = [s.coreRunning EXCEPT ![t] = NoCore] /\ b.core = [s.core EXCEPT ![t] = NoCore]
      /\ b.cthread = [s.cthread EXCEPT ![c] = NoThread] /\ b.cstate = [s.cstate EXCEPT ![c] = "IDLE"]
  BY DEF Systems, a
<1> HIDE DEF b
<1>8. ReleaseThread(b, t) = [b EXCEPT !.clock = Cleared(s, t)]
  BY <1>6, <1>7 DEF ReleaseThread, Cleared, Systems
<1>9. Vacated(s, c, t, resume) = d
  BY <1>5, <1>8 DEF Vacated
<1>10. Cleared(s, t) \in [Cores -> Nat]
  BY SystemsType DEF Cleared
<1>11. d \in Systems
  BY Zenon, <1>6, <1>10 DEF Systems
<1>12. SameRest(s, d) /\ SameThreads(s, d)
  BY <1>6, <1>b DEF SameRest, SameThreads, Systems
<1>13. /\ d.coreRunning = [s.coreRunning EXCEPT ![t] = NoCore] /\ d.core = [s.core EXCEPT ![t] = NoCore]
       /\ d.running = [s.running EXCEPT ![c] = NoThread] /\ d.cthread = [s.cthread EXCEPT ![c] = NoThread]
       /\ d.cstate = [s.cstate EXCEPT ![c] = "IDLE"] /\ d.clock = Cleared(s, t)
  BY Zenon, <1>6, <1>b, <1>c DEF Systems
<1>14. QED
  BY <1>9, <1>11, <1>12, <1>13 DEF Vacates

(* Thread t was waiting for a core, and runs. *)
Awakens(s, r, t) ==
    /\ s.status[t] = "STALLED" /\ s.reason[t] = "UNSCHEDULED" /\ s.runnable[t]
    /\ r.status[t] = "RUNNING" /\ r.runnable[t] /\ t \in r.signalled

(* What a chain of reschedules and resumes may do: wake threads that wait   *)
(* for a core, and signal them; move to a core threads that had none; touch *)
(* no clock but those of threads that had no core.  The threads of E may    *)
(* also lose the core they had.                                             *)
Moves(s, r, E) ==
    /\ SameRest(s, r) /\ s.signalled \subseteq r.signalled
    /\ \A t \in Threads : t \in r.signalled => t \in s.signalled \/ r.status[t] = "RUNNING"
    /\ \A t \in Threads :
         \/ r.status[t] = s.status[t] /\ r.reason[t] = s.reason[t] /\ r.runnable[t] = s.runnable[t]
         \/ Awakens(s, r, t)
    /\ \A t \in Threads : (t \notin E /\ s.coreRunning[t] # NoCore) =>
         r.coreRunning[t] = s.coreRunning[t] /\ r.core[t] = s.core[t]
    /\ \A t \in Threads : (~s.runnable[t] /\ s.coreRunning[t] = NoCore) => r.coreRunning[t] = NoCore
    /\ \A t \in Threads :
         \/ r.core[t] = r.coreRunning[t]
         \/ r.core[t] = s.core[t] /\ r.coreRunning[t] = s.coreRunning[t]
    /\ \A c \in Cores :
         \/ r.clock[c] = s.clock[c]
         \/ s.acquired[c] /\ (s.slot[c] \in E \/ s.coreRunning[s.slot[c]] = NoCore)

(* Taking a thread off its core keeps the invariant, for a thread that is *)
(* not executing.                                                         *)
LEMMA VacateMid ==
  ASSUME NEW w, NEW h, NEW s, Mid(s, w, h), NEW c \in Cores, NEW t \in Threads, s.running[c] = t,
         w[t] # "user", s.runnable[t] => s.status[t] # "IDLE", NEW v, Vacates(s, v, c, t)
  PROVE  Mid(v, w, h) /\ Moves(s, v, {t}) /\ v.running[c] = NoThread
<1>s. s \in Systems /\ v \in Systems /\ Tables(s)
  BY Zenon DEF Mid, Vacates
<1>t. /\ s.core \in [Threads -> Cores \union {NoCore}] /\ s.cthread \in [Cores -> Threads \union {NoThread}]
      /\ s.cstate \in [Cores -> {"IDLE", "INITIALIZING", "RUNNING"}]
      /\ s.coreRunning \in [Threads -> Cores \union {NoCore}]
      /\ s.running \in [Cores -> Threads \union {NoThread}]
  BY <1>s, SystemsType
<1>n. NoCore \notin Cores /\ NoThread \notin Threads
  BY CoresAndThreads
<1>c. s.clock \in [Cores -> Nat] /\ s.acquired \in [Cores -> BOOLEAN] /\ s.next \in Nat \ {0}
  BY <1>s, SystemsType
<1>v. /\ SameRest(s, v) /\ SameThreads(s, v)
      /\ v.coreRunning = [s.coreRunning EXCEPT ![t] = NoCore]
      /\ v.core = [s.core EXCEPT ![t] = NoCore]
      /\ v.running = [s.running EXCEPT ![c] = NoThread]
      /\ v.cthread = [s.cthread EXCEPT ![c] = NoThread]
      /\ v.cstate = [s.cstate EXCEPT ![c] = "IDLE"]
      /\ v.clock = Cleared(s, t)
  BY DEF Vacates
<1>k. \A d \in Cores : v.clock[d] = IF s.acquired[d] /\ s.slot[d] = t THEN 0 ELSE s.clock[d]
  BY <1>v DEF Cleared
<1>p. \A u \in Threads : s.core[u] = c => u = t
  BY <1>s, <1>t, <1>n DEF Tables
<1>q. s.coreRunning[t] = c /\ s.core[t] \in {NoCore, c}
  BY <1>s, <1>t DEF Tables
<1>m. Placed(s, w) /\ Ready(s) /\ AtPlaces(s, w, h) /\ Waits(s, w) /\ Asleep(s, w) /\ InBarrier(s, w, h)
  BY Zenon DEF Mid
<1>a. v.status = s.status /\ v.reason = s.reason /\ v.runnable = s.runnable /\ v.signalled = s.signalled
  BY <1>v DEF SameThreads
<1>b. /\ v.waiter = s.waiter /\ v.sleeping = s.sleeping /\ v.acquired = s.acquired /\ v.slot = s.slot
      /\ v.next = s.next /\ v.disable = s.disable /\ v.aborted = s.aborted
      /\ v.lastPeriodic = s.lastPeriodic
  BY <1>v DEF SameRest
<1>d. /\ \A u \in Threads : v.core[u] = IF u = t THEN NoCore ELSE s.core[u]
      /\ \A u \in Threads : v.coreRunning[u] = IF u = t THEN NoCore ELSE s.coreRunning[u]
      /\ \A d \in Cores : v.cstate[d] = IF d = c THEN "IDLE" ELSE s.cstate[d]
  BY <1>v, <1>t
<1>1. Tables(v)
  BY <1>s, <1>t, <1>n, <1>v, <1>p, <1>q DEF Tables
<1>2. Placed(v, w)
  BY <1>m, <1>a, <1>d, <1>n, <1>p, <1>q, <1>t DEF Placed
<1>3. Ready(v)
  <2>1. SUFFICES ASSUME NEW u \in Threads, v.runnable[u]
                 PROVE  \/ v.status[u] = "RUNNING"
                        \/ v.status[u] = "STALLED" /\ v.reason[u] = "UNSCHEDULED"
                        \/ v.status[u] = "IDLE" /\ v.coreRunning[u] # NoCore
    BY DEF Ready
  <2>2. s.runnable[u] /\ v.status[u] = s.status[u] /\ v.reason[u] = s.reason[u]
    BY <1>a, <2>1
  <2>3. CASE u = t
    BY <1>m, <2>2, <2>3 DEF Ready
  <2>4. CASE u # t
    BY <1>m, <1>d, <2>2, <2>4 DEF Ready
  <2>5. QED
    BY <2>3, <2>4
<1>4. AtPlaces(v, w, h)
  BY <1>m, <1>a, <1>d, <1>n DEF AtPlaces
<1>5. Waits(v, w)
  BY <1>m, <1>a, <1>b DEF Waits
<1>6. Asleep(v, w)
  BY <1>m, <1>a, <1>b DEF Asleep
<1>7. InBarrier(v, w, h)
  <2>1. \A d \in Cores : s.acquired[d] =>
          /\ s.slot[d] \in Threads /\ s.slot[d] \notin s.signalled
          /\ w[s.slot[d]] = "barrier" /\ h[s.slot[d]] = d
          /\ s.core[s.slot[d]] = d \/ s.clock[d] = 0
    BY <1>m DEF InBarrier
  <2>2. \A d \in Cores : s.acquired[d] => v.core[s.slot[d]] = d \/ v.clock[d] = 0
    BY <2>1, <1>d, <1>k
  <2>3. \A d \in Cores : (~s.acquired[d] /\ ~s.aborted) => v.clock[d] < s.next
    BY <1>k, <1>c, <1>m DEF InBarrier
  <2>4. QED
    BY <2>1, <2>2, <2>3, <1>m, <1>a, <1>b DEF InBarrier
<1>8. Mid(v, w, h)
  BY Zenon, <1>1, <1>2, <1>3, <1>4, <1>5, <1>6, <1>7, <1>v, <1>s DEF Mid, SameRest
<1>9. Moves(s, v, {t})
  BY <1>t, <1>v, <1>k DEF Moves, SameThreads
<1>10. QED
  BY <1>8, <1>9, <1>v, <1>t

(* A change of the tables alone keeps what is said about the threads' *)
(* states.                                                            *)
LEMMA KeepsThreads ==
  ASSUME NEW w, NEW s, NEW r, SameThreads(s, r), r.waiter = s.waiter, r.sleeping = s.sleeping
  PROVE  /\ Waits(s, w) => Waits(r, w)
         /\ Asleep(s, w) => Asleep(r, w)
<1>1. r.status = s.status /\ r.reason = s.reason /\ r.runnable = s.runnable /\ r.signalled = s.signalled
  BY DEF SameThreads
<1>3. Waits(s, w) => Waits(r, w)
  BY <1>1 DEF Waits
<1>4. Asleep(s, w) => Asleep(r, w)
  BY <1>1 DEF Asleep
<1>5. QED
  BY <1>3, <1>4

(* Giving cores keeps ready threads ready. *)
LEMMA KeepsReady ==
  ASSUME NEW s, NEW r, SameThreads(s, r), Ready(s),
         \A t \in Threads : s.coreRunning[t] # NoCore => r.coreRunning[t] # NoCore
  PROVE  Ready(r)
BY DEF SameThreads, Ready

(* The placement of the threads is the same. *)
SameTables(s, r) ==
    /\ r.core = s.core /\ r.cthread = s.cthread /\ r.cstate = s.cstate
    /\ r.coreRunning = s.coreRunning /\ r.running = s.running

(* Thread::signal changes nothing but who is signalled. *)
LEMMA SignalIs ==
  ASSUME NEW s \in Systems, NEW t \in Threads, NEW r, r = SignalThread(s, t)
  PROVE  /\ r \in Systems /\ SameRest(s, r) /\ SameTables(s, r) /\ r.clock = s.clock
         /\ r.status = s.status /\ r.reason = s.reason /\ r.runnable = s.runnable
         /\ r.signalled = s.signalled \union {t}
<1>1. s.signalled \union {t} \in SUBSET Threads
  BY SystemsType
<1>2. r = [s EXCEPT !.signalled = s.signalled \union {t}]
  BY DEF SignalThread
<1>3. r \in Systems /\ r.signalled = s.signalled \union {t}
  BY ZenonT(40), <1>1, <1>2 DEF Systems
<1>4. SameRest(s, r) /\ SameTables(s, r) /\ r.clock = s.clock
  BY <1>2 DEF SameRest, SameTables, Systems
<1>5. r.status = s.status /\ r.reason = s.reason /\ r.runnable = s.runnable
  BY <1>2 DEF Systems
<1>6. QED
  BY <1>3, <1>4, <1>5

(* A signal keeps the invariant when nobody has noted the thread as waiting *)
(* for another.                                                             *)
LEMMA SignalMid ==
  ASSUME NEW w, NEW h, NEW s, Mid(s, w, h), NEW t \in Threads, w[t] # "barrier",
         \A u \in Threads : s.waiter[u] # t, NEW r, r = SignalThread(s, t)
  PROVE  Mid(r, w, h)
<1>s. s \in Systems
  BY Zenon DEF Mid
<1>r. /\ r \in Systems /\ SameRest(s, r) /\ SameTables(s, r) /\ r.clock = s.clock
      /\ r.status = s.status /\ r.reason = s.reason /\ r.runnable = s.runnable
      /\ r.signalled = s.signalled \union {t}
  BY <1>s, SignalIs
<1>m. /\ Tables(s) /\ Placed(s, w) /\ Ready(s) /\ AtPlaces(s, w, h) /\ Waits(s, w) /\ Asleep(s, w)
      /\ InBarrier(s, w, h)
  BY Zenon DEF Mid
<1>b. /\ r.waiter = s.waiter /\ r.sleeping = s.sleeping /\ r.acquired = s.acquired /\ r.slot = s.slot
      /\ r.next = s.next /\ r.disable = s.disable /\ r.aborted = s.aborted
      /\ r.lastPeriodic = s.lastPeriodic
  BY <1>r DEF SameRest
<1>1. Tables(r) /\ Placed(r, w) /\ Ready(r)
  BY <1>m, <1>r DEF Tables, Placed, Ready, SameTables
<1>2. AtPlaces(r, w, h)
  BY <1>m, <1>r DEF AtPlaces, SameTables
<1>3. Waits(r, w) /\ Asleep(r, w)
  BY <1>m, <1>r, <1>b DEF Waits, Asleep
<1>4. InBarrier(r, w, h)
  BY <1>m, <1>r, <1>b DEF InBarrier, SameTables
<1>5. QED
  BY Zenon, <1>1, <1>2, <1>3, <1>4, <1>r DEF Mid, SameRest

(* Thread t runs again. *)
Ups(s, r, t) ==
    /\ r \in Systems /\ SameRest(s, r) /\ SameTables(s, r) /\ r.clock = s.clock
    /\ r.signalled = s.signalled
    /\ r.status = [s.status EXCEPT ![t] = "RUNNING"]
    /\ r.reason = [s.reason EXCEPT ![t] = "none"]
    /\ r.runnable = [s.runnable EXCEPT ![t] = TRUE]

(* The first half of resumeThread_async makes the thread run. *)
LEMMA UpIs ==
  ASSUME NEW s \in Systems, NEW t \in Threads
  PROVE  Ups(s, Up(s, t), t)
<1> DEFINE r == Up(s, t)
<1>1. r \in Systems
  BY Zenon DEF Up, Systems, Statuses, Reasons
<1>2. SameRest(s, r) /\ SameTables(s, r) /\ r.clock = s.clock /\ r.signalled = s.signalled
  BY DEF SameRest, SameTables, Up, Systems
<1>3. /\ r.status = [s.status EXCEPT ![t] = "RUNNING"]
      /\ r.reason = [s.reason EXCEPT ![t] = "none"]
      /\ r.runnable = [s.runnable EXCEPT ![t] = TRUE]
  BY DEF Up, Systems
<1>4. QED
  BY <1>1, <1>2, <1>3 DEF Ups

(* Whom the servers may wake: thread t waits for nothing else. *)
Wakable(s, w, t) ==
    /\ w[t] \in {"check", "stalled", "acting"}
    /\ w[t] = "stalled" => t \in s.signalled
    /\ w[t] # "acting" => s.coreRunning[t] = NoCore
    /\ \A u \in Threads : s.waiter[u] # t
    /\ \A i \in DOMAIN s.sleeping : s.sleeping[i] # t

(* It keeps the invariant for a thread that waits for nothing else. *)
LEMMA UpMid ==
  ASSUME NEW w, NEW h, NEW s, Mid(s, w, h), NEW t \in Threads, Wakable(s, w, t)
  PROVE  Mid(Up(s, t), w, h)
<1>s. s \in Systems
  BY Zenon DEF Mid
<1> DEFINE r == Up(s, t)
<1>r. Ups(s, r, t)
  BY <1>s, UpIs
<1> HIDE DEF r
<1>t. /\ s.status \in [Threads -> Statuses] /\ s.reason \in [Threads -> Reasons]
      /\ s.runnable \in [Threads -> BOOLEAN]
  BY <1>s, SystemsType
<1>a. /\ \A u \in Threads : r.status[u] = IF u = t THEN "RUNNING" ELSE s.status[u]
      /\ \A u \in Threads : r.reason[u] = IF u = t THEN "none" ELSE s.reason[u]
      /\ \A u \in Threads : r.runnable[u] = IF u = t THEN TRUE ELSE s.runnable[u]
      /\ r.signalled = s.signalled
  BY Zenon, <1>r, <1>t DEF Ups
<1>m. /\ Tables(s) /\ Placed(s, w) /\ Ready(s) /\ AtPlaces(s, w, h) /\ Waits(s, w) /\ Asleep(s, w)
      /\ InBarrier(s, w, h)
  BY Zenon DEF Mid
<1>b. /\ r.waiter = s.waiter /\ r.sleeping = s.sleeping /\ r.acquired = s.acquired /\ r.slot = s.slot
      /\ r.next = s.next /\ r.disable = s.disable /\ r.aborted = s.aborted
      /\ r.lastPeriodic = s.lastPeriodic
  BY <1>r DEF SameRest, Ups
<1>c. /\ r.core = s.core /\ r.cthread = s.cthread /\ r.cstate = s.cstate
      /\ r.coreRunning = s.coreRunning /\ r.running = s.running /\ r.clock = s.clock
  BY <1>r DEF SameTables, Ups
<1>w. Wakable(s, w, t)
  OBVIOUS
<1>1. Tables(r)
  BY <1>m, <1>c DEF Tables
<1>2. Placed(r, w)
  BY <1>m, <1>c, <1>a, <1>w DEF Placed, Wakable
<1>3. Ready(r)
  BY ZenonT(40), <1>m, <1>a, <1>c DEF Ready
<1>4. AtPlaces(r, w, h)
  BY <1>m, <1>a, <1>c, <1>w DEF AtPlaces, Wakable
<1>5. Waits(r, w)
  <2>1. s.waiter \in [Threads -> Threads \union {NoThread}]
    BY <1>s, SystemsType
  <2>2. \A u \in Threads : s.waiter[u] # t
    BY <1>w DEF Wakable
  <2>3. QED
    BY <1>m, <1>a, <1>b, <2>1, <2>2 DEF Waits
<1>6. Asleep(r, w)
  <2>1. \A i \in DOMAIN s.sleeping : s.sleeping[i] \in Threads
    BY <1>s, SystemsType
  <2>2. \A i \in DOMAIN s.sleeping : s.sleeping[i] # t
    BY <1>w DEF Wakable
  <2>3. QED
    BY <1>m, <1>a, <1>b, <2>1, <2>2 DEF Asleep
<1>7. InBarrier(r, w, h)
  BY <1>m, <1>a, <1>b, <1>c DEF InBarrier
<1>8. Mid(r, w, h)
  BY Zenon, <1>1, <1>2, <1>3, <1>4, <1>5, <1>6, <1>7, <1>r DEF Mid, Ups, SameRest
<1>9. QED
  BY <1>8 DEF r

(* Core c is promised to thread t. *)
Marks(s, m, c, t) ==
    /\ m \in Systems /\ SameRest(s, m) /\ SameThreads(s, m) /\ m.clock = s.clock
    /\ m.running = [s.running EXCEPT ![c] = t]
    /\ m.coreRunning = [s.coreRunning EXCEPT ![t] = c]
    /\ m.core = s.core /\ m.cthread = s.cthread /\ m.cstate = s.cstate

(* The scheduler's tables give core c to thread t. *)
Mark(s, c, t) == [s EXCEPT !.running[c] = t, !.coreRunning[t] = c]

(* What this promise changes. *)
LEMMA MarkIs ==
  ASSUME NEW s \in Systems, NEW t \in Threads, NEW c \in Cores
  PROVE  Marks(s, Mark(s, c, t), c, t)
<1> DEFINE m == Mark(s, c, t)
<1>1. m \in Systems
  BY Zenon DEF Mark, Systems
<1>2. SameRest(s, m) /\ SameThreads(s, m) /\ m.clock = s.clock
  BY DEF SameRest, SameThreads, Mark, Systems
<1>3. /\ m.running = [s.running EXCEPT ![c] = t]
      /\ m.coreRunning = [s.coreRunning EXCEPT ![t] = c]
      /\ m.core = s.core /\ m.cthread = s.cthread /\ m.cstate = s.cstate
  BY DEF Mark, Systems
<1>4. QED
  BY <1>1, <1>2, <1>3 DEF Marks

(* It keeps the invariant when the core is free and the thread runs. *)
LEMMA MarkMid ==
  ASSUME NEW w, NEW h, NEW s, Mid(s, w, h), NEW c \in Cores, s.running[c] = NoThread,
         NEW t \in Threads, s.coreRunning[t] = NoCore, s.status[t] = "RUNNING"
  PROVE  Mid(Mark(s, c, t), w, h)
<1> DEFINE m == Mark(s, c, t)
<1>s. s \in Systems /\ Tables(s)
  BY Zenon DEF Mid
<1>v. Marks(s, m, c, t)
  BY <1>s, MarkIs
<1> HIDE DEF m
<1>t. /\ s.core \in [Threads -> Cores \union {NoCore}] /\ s.cthread \in [Cores -> Threads \union {NoThread}]
      /\ s.coreRunning \in [Threads -> Cores \union {NoCore}]
      /\ s.running \in [Cores -> Threads \union {NoThread}]
  BY <1>s, SystemsType
<1>n. NoCore \notin Cores /\ NoThread \notin Threads
  BY CoresAndThreads
<1>m. /\ Placed(s, w) /\ Ready(s) /\ AtPlaces(s, w, h) /\ Waits(s, w) /\ Asleep(s, w)
      /\ InBarrier(s, w, h)
  BY Zenon DEF Mid
<1>a. m.status = s.status /\ m.reason = s.reason /\ m.runnable = s.runnable /\ m.signalled = s.signalled
  BY <1>v DEF SameThreads, Marks
<1>b. /\ m.waiter = s.waiter /\ m.sleeping = s.sleeping /\ m.acquired = s.acquired /\ m.slot = s.slot
      /\ m.next = s.next /\ m.disable = s.disable /\ m.aborted = s.aborted
      /\ m.lastPeriodic = s.lastPeriodic
  BY <1>v DEF SameRest, Marks
<1>c. m.core = s.core /\ m.cthread = s.cthread /\ m.cstate = s.cstate /\ m.clock = s.clock
  BY <1>v DEF Marks
<1>d. /\ \A u \in Threads : m.coreRunning[u] = IF u = t THEN c ELSE s.coreRunning[u]
      /\ \A d \in Cores : m.running[d] = IF d = c THEN t ELSE s.running[d]
  BY <1>v, <1>t DEF Marks
<1>o. s.core[t] = NoCore
  BY <1>s DEF Tables
<1>1. Tables(m)
  BY <1>s, <1>t, <1>n, <1>c, <1>d, <1>o DEF Tables
<1>2. Placed(m, w)
  BY <1>m, <1>a, <1>c, <1>d, <1>o DEF Placed
<1>3. Ready(m) /\ Waits(m, w) /\ Asleep(m, w)
  <2>1. \A u \in Threads : s.coreRunning[u] # NoCore => m.coreRunning[u] # NoCore
    BY <1>d, <1>n
  <2>2. SameThreads(s, m)
    BY <1>v DEF Marks
  <2>3. Ready(m)
    BY <1>m, <2>1, <2>2, KeepsReady
  <2>4. QED
    BY <1>m, <1>b, <2>2, <2>3, KeepsThreads
<1>4. AtPlaces(m, w, h)
  BY <1>m, <1>a, <1>c, <1>d DEF AtPlaces
<1>5. InBarrier(m, w, h)
  BY <1>m, <1>a, <1>b, <1>c DEF InBarrier
<1>6. Mid(m, w, h)
  BY Zenon, <1>1, <1>2, <1>3, <1>4, <1>5, <1>v DEF Mid, Marks, SameRest
<1>7. QED
  BY <1>6 DEF m

(* Thread t gets the core that was promised to it. *)
Seats(s, f, c, t) ==
    /\ f \in Systems /\ SameRest(s, f) /\ SameThreads(s, f)
    /\ f.coreRunning = s.coreRunning /\ f.running = s.running
    /\ f.core = [s.core EXCEPT ![t] = c]
    /\ f.cthread = [s.cthread EXCEPT ![c] = t]
    /\ f.cstate = [s.cstate EXCEPT ![c] = "RUNNING"]
    /\ f.clock = Cleared(s, t)

(* The rest of moveThread: the thread gets the core. *)
Seat(s, c, t) == ReleaseThread(RunUnlessStalled(SetCore(s, t, c), t, c), t)

(* What this changes: Thread::setCore asserts nothing that fails. *)
LEMMA SeatIs ==
  ASSUME NEW s \in Systems, NEW t \in Threads, NEW c \in Cores,
         s.core[t] = NoCore, s.cthread[c] = NoThread, s.status[t] # "STALLED"
  PROVE  Seats(s, Seat(s, c, t), c, t)
<1> DEFINE b == [s EXCEPT !.core[t] = c, !.cthread[c] = t, !.cstate[c] = "RUNNING"]
           f == [b EXCEPT !.clock = Cleared(s, t)]
<1>0. c # NoCore
  BY CoresAndThreads
<1>1. SetCore(s, t, c) = [s EXCEPT !.core[t] = c, !.cthread[c] = t]
  BY <1>0 DEF SetCore, AssertIn
<1>2. [s EXCEPT !.core[t] = c, !.cthread[c] = t].status = s.status
  BY DEF Systems
<1>3. RunUnlessStalled(SetCore(s, t, c), t, c) = b
  BY <1>0, <1>1, <1>2 DEF RunUnlessStalled, SetState
<1>4. b \in Systems
  <2>1. [s.core EXCEPT ![t] = c] \in [Threads -> Cores \union {NoCore}]
    BY SystemsType
  <2>2. [s.cthread EXCEPT ![c] = t] \in [Cores -> Threads \union {NoThread}]
    BY SystemsType
  <2>3. [s.cstate EXCEPT ![c] = "RUNNING"] \in [Cores -> {"IDLE", "INITIALIZING", "RUNNING"}]
    BY SystemsType
  <2>4. QED
    BY ZenonT(40), <2>1, <2>2, <2>3 DEF Systems
<1>5. /\ b.acquired = s.acquired /\ b.slot = s.slot /\ b.clock = s.clock
  BY DEF Systems
<1>6. SameRest(s, b) /\ SameThreads(s, b) /\ b.running = s.running /\ b.coreRunning = s.coreRunning
  BY DEF SameRest, SameThreads, Systems
<1>7. /\ b.core = [s.core EXCEPT ![t] = c]
      /\ b.cthread = [s.cthread EXCEPT ![c] = t] /\ b.cstate = [s.cstate EXCEPT ![c] = "RUNNING"]
  BY DEF Systems
<1> HIDE DEF b
<1>8. Seat(s, c, t) = f
  BY <1>3, <1>4, <1>5 DEF ReleaseThread, Cleared, Systems, Seat
<1>9. Cleared(s, t) \in [Cores -> Nat]
  BY SystemsType DEF Cleared
<1>10. f \in Systems
  <2>1. QED
    BY ONLY Zenon, <1>4, <1>9 DEF Systems
<1>11. SameRest(s, f) /\ SameThreads(s, f)
  BY <1>4, <1>6 DEF SameRest, SameThreads, Systems
<1>12. /\ f.coreRunning = b.coreRunning /\ f.running = b.running /\ f.core = b.core
       /\ f.cthread = b.cthread /\ f.cstate = b.cstate /\ f.clock = Cleared(s, t)
  BY <1>4 DEF Systems
<1> HIDE DEF f
<1>13. /\ f.coreRunning = s.coreRunning /\ f.running = s.running
       /\ f.core = [s.core EXCEPT ![t] = c]
       /\ f.cthread = [s.cthread EXCEPT ![c] = t] /\ f.cstate = [s.cstate EXCEPT ![c] = "RUNNING"]
       /\ f.clock = Cleared(s, t)
  BY Zenon, <1>6, <1>7, <1>12
<1>14. QED
  BY Zenon, <1>8, <1>10, <1>11, <1>13 DEF Seats

(* It keeps the invariant for a thread that runs and has been promised the *)
(* core.                                                                   *)
LEMMA SeatMid ==
  ASSUME NEW w, NEW h, NEW s, Mid(s, w, h), NEW c \in Cores, NEW t \in Threads,
         s.coreRunning[t] = c, s.core[t] = NoCore, s.status[t] = "RUNNING"
  PROVE  Mid(Seat(s, c, t), w, h) /\ Seats(s, Seat(s, c, t), c, t)
<1> DEFINE f == Seat(s, c, t)
<1>s. s \in Systems /\ Tables(s)
  BY Zenon DEF Mid
<1>t. /\ s.core \in [Threads -> Cores \union {NoCore}] /\ s.cthread \in [Cores -> Threads \union {NoThread}]
      /\ s.coreRunning \in [Threads -> Cores \union {NoCore}]
      /\ s.running \in [Cores -> Threads \union {NoThread}]
      /\ s.cstate \in [Cores -> {"IDLE", "INITIALIZING", "RUNNING"}]
  BY <1>s, SystemsType
<1>n. NoCore \notin Cores /\ NoThread \notin Threads
  BY CoresAndThreads
<1>o. s.cthread[c] = NoThread
  BY <1>s, <1>t, <1>n DEF Tables
<1>v. Seats(s, f, c, t)
  BY <1>s, <1>o, SeatIs
<1> HIDE DEF f
<1>c. s.clock \in [Cores -> Nat] /\ s.acquired \in [Cores -> BOOLEAN] /\ s.next \in Nat \ {0}
  BY <1>s, SystemsType
<1>m. /\ Placed(s, w) /\ Ready(s) /\ AtPlaces(s, w, h) /\ Waits(s, w) /\ Asleep(s, w)
      /\ InBarrier(s, w, h)
  BY Zenon DEF Mid
<1>a. f.status = s.status /\ f.reason = s.reason /\ f.runnable = s.runnable /\ f.signalled = s.signalled
  BY <1>v DEF SameThreads, Seats
<1>b. /\ f.waiter = s.waiter /\ f.sleeping = s.sleeping /\ f.acquired = s.acquired /\ f.slot = s.slot
      /\ f.next = s.next /\ f.disable = s.disable /\ f.aborted = s.aborted
      /\ f.lastPeriodic = s.lastPeriodic
  BY <1>v DEF SameRest, Seats
<1>e. f.coreRunning = s.coreRunning /\ f.running = s.running
  BY <1>v DEF Seats
<1>d. /\ \A u \in Threads : f.core[u] = IF u = t THEN c ELSE s.core[u]
      /\ \A d \in Cores : f.cthread[d] = IF d = c THEN t ELSE s.cthread[d]
      /\ \A d \in Cores : f.cstate[d] = IF d = c THEN "RUNNING" ELSE s.cstate[d]
  BY <1>v, <1>t DEF Seats
<1>k. \A d \in Cores : f.clock[d] = IF s.acquired[d] /\ s.slot[d] = t THEN 0 ELSE s.clock[d]
  BY <1>v DEF Cleared, Seats
<1>p. \A u \in Threads : s.core[u] # c
  BY <1>s, <1>o, <1>n DEF Tables
<1>1. Tables(f)
  BY <1>s, <1>t, <1>n, <1>e, <1>d, <1>p DEF Tables
<1>2. Placed(f, w)
  BY <1>m, <1>a, <1>e, <1>d, <1>p, <1>t DEF Placed
<1>3. Ready(f) /\ Waits(f, w) /\ Asleep(f, w)
  <2>1. SameThreads(s, f) /\ f.coreRunning = s.coreRunning
    BY <1>v DEF Seats
  <2>2. Ready(f)
    BY <1>m, <2>1, KeepsReady
  <2>3. QED
    BY <1>m, <1>b, <2>1, <2>2, KeepsThreads
<1>4. AtPlaces(f, w, h)
  BY <1>m, <1>a, <1>e, <1>d, <1>n DEF AtPlaces
<1>5. InBarrier(f, w, h)
  <2>1. \A d \in Cores : s.acquired[d] =>
          /\ s.slot[d] \in Threads /\ s.slot[d] \notin s.signalled
          /\ w[s.slot[d]] = "barrier" /\ h[s.slot[d]] = d
          /\ s.core[s.slot[d]] = d \/ s.clock[d] = 0
    BY <1>m DEF InBarrier
  <2>2. \A d \in Cores : s.acquired[d] => f.core[s.slot[d]] = d \/ f.clock[d] = 0
    BY <2>1, <1>d, <1>k
  <2>3. \A d \in Cores : (~s.acquired[d] /\ ~s.aborted) => f.clock[d] < s.next
    BY <1>k, <1>c, <1>m DEF InBarrier
  <2>4. QED
    BY <2>1, <2>2, <2>3, <1>m, <1>a, <1>b DEF InBarrier
<1>6. Mid(f, w, h)
  BY Zenon, <1>1, <1>2, <1>3, <1>4, <1>5, <1>v DEF Mid, Seats, SameRest
<1>7. QED
  BY <1>6, <1>v DEF f

(* The cores that no thread has been given. *)
Free(s) == {c \in Cores : s.running[c] = NoThread}

(* `resume` is right for every state with at most k free cores: the *)
(* hypothesis of the induction over nested resumes.                 *)
Works(resume, k, w, h) ==
    \A s \in Systems : \A t \in Threads :
      (Mid(Up(s, t), w, h) /\ Cardinality(Free(s)) <= k) =>
        Mid(resume[s][t], w, h) /\ Moves(Up(s, t), resume[s][t], {})

(* Core c has been promised to thread t, which has been woken for it. *)
Promises(s, m, c, t) ==
    /\ SameRest(s, m) /\ s.signalled \subseteq m.signalled /\ m.clock = s.clock /\ m.core = s.core
    /\ \A u \in Threads : u \in m.signalled => u \in s.signalled \/ u = t
    /\ \A u \in Threads : u # t =>
         /\ m.status[u] = s.status[u] /\ m.reason[u] = s.reason[u] /\ m.runnable[u] = s.runnable[u]
         /\ m.coreRunning[u] = s.coreRunning[u]
    /\ m.coreRunning[t] = c /\ m.status[t] = "RUNNING"
    /\ \/ m.status[t] = s.status[t] /\ m.reason[t] = s.reason[t] /\ m.runnable[t] = s.runnable[t]
       \/ Awakens(s, m, t)

(* A thread that was promised a core gets it, whatever the resume in between *)
(* has moved.                                                                *)
LEMMA SeatMoves ==
  ASSUME NEW w, NEW h, NEW s, Mid(s, w, h), NEW c \in Cores, NEW t \in Threads,
         s.coreRunning[t] = NoCore, s.runnable[t],
         NEW m, Promises(s, m, c, t), NEW a, a = m \/ Moves(m, a, {}), Mid(a, w, h)
  PROVE  /\ Mid(Seat(a, c, t), w, h) /\ Moves(s, Seat(a, c, t), {})
         /\ Seat(a, c, t).core[t] = c /\ Seat(a, c, t).coreRunning[t] = c
<1> DEFINE f == Seat(a, c, t)
<1>s. s \in Systems /\ Tables(s) /\ a \in Systems
  BY Zenon DEF Mid
<1>n. NoCore \notin Cores /\ NoThread \notin Threads
  BY CoresAndThreads
<1>o. s.core[t] = NoCore
  BY <1>s DEF Tables
<1>p. /\ SameRest(s, m) /\ s.signalled \subseteq m.signalled /\ m.clock = s.clock /\ m.core = s.core
      /\ \A u \in Threads : u # t =>
           /\ m.status[u] = s.status[u] /\ m.reason[u] = s.reason[u] /\ m.runnable[u] = s.runnable[u]
           /\ m.coreRunning[u] = s.coreRunning[u]
      /\ m.coreRunning[t] = c /\ m.status[t] = "RUNNING"
      /\ \/ m.status[t] = s.status[t] /\ m.reason[t] = s.reason[t] /\ m.runnable[t] = s.runnable[t]
         \/ Awakens(s, m, t)
  BY Zenon DEF Promises
<1>q. /\ SameRest(m, a) /\ m.signalled \subseteq a.signalled
      /\ \A u \in Threads : (~m.runnable[u] /\ m.coreRunning[u] = NoCore) => a.coreRunning[u] = NoCore
      /\ \A u \in Threads :
         \/ a.status[u] = m.status[u] /\ a.reason[u] = m.reason[u] /\ a.runnable[u] = m.runnable[u]
         \/ Awakens(m, a, u)
      /\ \A u \in Threads : m.coreRunning[u] # NoCore =>
           a.coreRunning[u] = m.coreRunning[u] /\ a.core[u] = m.core[u]
      /\ \A u \in Threads :
           \/ a.core[u] = a.coreRunning[u]
           \/ a.core[u] = m.core[u] /\ a.coreRunning[u] = m.coreRunning[u]
      /\ \A d \in Cores :
           \/ a.clock[d] = m.clock[d]
           \/ m.acquired[d] /\ m.coreRunning[m.slot[d]] = NoCore
  <2>1. CASE a = m
    BY <2>1 DEF SameRest
  <2>2. CASE Moves(m, a, {})
    BY <2>2 DEF Moves
  <2>3. QED
    BY <2>1, <2>2
<1>1. a.coreRunning[t] = c /\ a.core[t] = NoCore /\ a.status[t] = "RUNNING"
  BY <1>p, <1>q, <1>o, <1>n DEF Awakens
<1>2. Mid(f, w, h) /\ Seats(a, f, c, t)
  BY <1>1, SeatMid
<1> HIDE DEF f
<1>t. a.core \in [Threads -> Cores \union {NoCore}]
  BY <1>s, SystemsType
<1>v. /\ SameRest(a, f) /\ SameThreads(a, f) /\ f.coreRunning = a.coreRunning
      /\ \A u \in Threads : f.core[u] = IF u = t THEN c ELSE a.core[u]
      /\ \A d \in Cores : f.clock[d] = IF a.acquired[d] /\ a.slot[d] = t THEN 0 ELSE a.clock[d]
  BY <1>2, <1>t DEF Seats, Cleared
<1>a. f.status = a.status /\ f.reason = a.reason /\ f.runnable = a.runnable /\ f.signalled = a.signalled
  BY <1>v DEF SameThreads
<1>b. /\ m.acquired = s.acquired /\ m.slot = s.slot /\ a.acquired = s.acquired /\ a.slot = s.slot
  BY <1>p, <1>q DEF SameRest
<1>3. SameRest(s, f) /\ s.signalled \subseteq f.signalled
  BY <1>p, <1>q, <1>v, <1>a DEF SameRest
<1>4. ASSUME NEW u \in Threads
      PROVE  \/ f.status[u] = s.status[u] /\ f.reason[u] = s.reason[u] /\ f.runnable[u] = s.runnable[u]
             \/ Awakens(s, f, u)
  <2>1. CASE u # t
    <3>1. /\ m.status[u] = s.status[u] /\ m.reason[u] = s.reason[u] /\ m.runnable[u] = s.runnable[u]
      BY <1>p, <2>1
    <3>2. CASE a.status[u] = m.status[u] /\ a.reason[u] = m.reason[u] /\ a.runnable[u] = m.runnable[u]
      BY <3>1, <3>2, <1>a
    <3>3. CASE Awakens(m, a, u)
      BY Zenon, <3>1, <3>3, <1>a DEF Awakens
    <3>4. QED
      BY <1>q, <3>2, <3>3
  <2>2. CASE u = t
    <3>1. a.status[t] = m.status[t] /\ a.reason[t] = m.reason[t] /\ a.runnable[t] = m.runnable[t]
      BY <1>p, <1>q DEF Awakens
    <3>2. CASE m.status[t] = s.status[t] /\ m.reason[t] = s.reason[t] /\ m.runnable[t] = s.runnable[t]
      BY Zenon, <2>2, <3>1, <3>2, <1>a
    <3>3. CASE Awakens(s, m, t)
      BY <2>2, <3>1, <3>3, <1>a, <1>q DEF Awakens
    <3>4. QED
      BY Zenon, <1>p, <3>2, <3>3
  <2>3. QED
    BY <2>1, <2>2
<1>5. ASSUME NEW u \in Threads, s.coreRunning[u] # NoCore
      PROVE  f.coreRunning[u] = s.coreRunning[u] /\ f.core[u] = s.core[u]
  BY <1>5, <1>p, <1>q, <1>v
<1>6. ASSUME NEW u \in Threads
      PROVE  \/ f.core[u] = f.coreRunning[u]
             \/ f.core[u] = s.core[u] /\ f.coreRunning[u] = s.coreRunning[u]
  BY <1>p, <1>q, <1>v, <1>1
<1>7. ASSUME NEW d \in Cores
      PROVE  f.clock[d] = s.clock[d] \/ (s.acquired[d] /\ s.coreRunning[s.slot[d]] = NoCore)
  <2>1. s.acquired[d] => s.slot[d] \in Threads
    BY Zenon DEF Mid, InBarrier
  <2>2. QED
    BY <2>1, <1>p, <1>q, <1>v, <1>b, <1>n
<1>d. ASSUME NEW u \in Threads, ~s.runnable[u], s.coreRunning[u] = NoCore
      PROVE  f.coreRunning[u] = NoCore
  BY <1>d, <1>p, <1>q, <1>v
<1>e. ASSUME NEW u \in Threads, u \in f.signalled
      PROVE  u \in s.signalled \/ f.status[u] = "RUNNING"
  <2>1. u \in m.signalled \/ a.status[u] = "RUNNING"
    BY <1>e, <1>a DEF Moves
  <2>2. u \in m.signalled => u \in s.signalled \/ u = t
    BY DEF Promises
  <2>3. a.status[t] = "RUNNING"
    BY <1>p, <1>q DEF Awakens
  <2>4. QED
    BY <2>1, <2>2, <2>3, <1>a
<1>8. Moves(s, f, {})
  BY <1>d, <1>e, <1>3, <1>4, <1>5, <1>6, <1>7 DEF Moves
<1>9. f.core[t] = c /\ f.coreRunning[t] = c
  BY <1>v, <1>1
<1>10. QED
  BY <1>2, <1>8, <1>9 DEF f

(* There are as many free cores as cores at most. *)
LEMMA FreeFinite ==
  ASSUME NEW s
  PROVE  /\ IsFiniteSet(Free(s)) /\ Cardinality(Free(s)) \in Nat
         /\ Cardinality(Free(s)) <= Cardinality(Cores)
<1>1. IsFiniteSet(Cores)
  BY ThreadSystemAssumption, FS_Interval
<1>2. Free(s) \subseteq Cores
  BY DEF Free
<1>3. QED
  BY <1>1, <1>2, FS_Subset, FS_CardinalityType

(* Taking a free core leaves one less. *)
LEMMA FreeShrinks ==
  ASSUME NEW s, NEW c \in Cores, s.running[c] = NoThread, NEW r,
         Free(r) = Free(s) \ {c}
  PROVE  Cardinality(Free(r)) = Cardinality(Free(s)) - 1
<1>1. c \in Free(s) /\ IsFiniteSet(Free(s))
  BY FreeFinite DEF Free
<1>2. QED
  BY Zenon, <1>1, FS_RemoveElement

(* Who may be put on a free core. *)
MayRun(s, t) == s.coreRunning[t] = NoCore /\ s.runnable[t]

(* A stalled thread the scheduler may pick waits for a core and for nothing *)
(* else.                                                                    *)
LEMMA MayRunWakable ==
  ASSUME NEW w, NEW h, NEW s, Mid(s, w, h), NEW t \in Threads, MayRun(s, t), s.status[t] = "STALLED",
         w \in [Threads -> Places \union {"acting"}]
  PROVE  /\ w[t] # "barrier" /\ s.reason[t] = "UNSCHEDULED" /\ Wakable(SignalThread(s, t), w, t)
         /\ \A u \in Threads : s.waiter[u] # t
<1>s. s \in Systems
  BY Zenon DEF Mid
<1>m. Ready(s) /\ AtPlaces(s, w, h) /\ Waits(s, w) /\ Asleep(s, w)
  BY Zenon DEF Mid
<1>1. s.reason[t] = "UNSCHEDULED"
  BY <1>m DEF Ready, MayRun
<1>2. w[t] \in {"check", "stalled", "acting"}
  BY <1>m, <1>1 DEF AtPlaces, Places
<1>3. \A u \in Threads : s.waiter[u] # t
  <2>1. NoThread \notin Threads
    BY CoresAndThreads
  <2>2. QED
    BY <1>m, <1>1, <1>2, <2>1 DEF Waits
<1>4. \A i \in DOMAIN s.sleeping : s.sleeping[i] # t
  BY <1>m, <1>1 DEF Asleep
<1>5. PICK r : r = SignalThread(s, t)
  OBVIOUS
<1>6. /\ r.waiter = s.waiter /\ r.sleeping = s.sleeping /\ r.coreRunning = s.coreRunning
      /\ r.signalled = s.signalled \union {t}
  BY <1>5, <1>s, SignalIs DEF SameRest, SameTables
<1>7. QED
  BY <1>1, <1>2, <1>3, <1>4, <1>5, <1>6 DEF Wakable, MayRun

(* To promise a core and to resume the thread is the same in either order. *)
LEMMA UpMark ==
  ASSUME NEW s \in Systems, NEW c \in Cores, NEW t \in Threads
  PROVE  Up(SignalThread(Mark(s, c, t), t), t) = Mark(Up(SignalThread(s, t), t), c, t)
<1>1. SignalThread(Mark(s, c, t), t) = Mark(SignalThread(s, t), c, t)
  BY Zenon DEF SignalThread, Mark, Systems
<1>2. PICK r : r = SignalThread(s, t)
  OBVIOUS
<1>3. r \in Systems
  BY <1>2, SignalIs
<1>4. Up(Mark(r, c, t), t) = Mark(Up(r, t), c, t)
  <2>1. PICK f, g : f = [r.running EXCEPT ![c] = t] /\ g = [r.coreRunning EXCEPT ![t] = c]
    BY Zenon
  <2>2. PICK A, B, C, D : /\ A = [r.status EXCEPT ![t] = "RUNNING"] /\ B = [r.reason EXCEPT ![t] = "none"]
                          /\ C = [r.wakeAt EXCEPT ![t] = 0] /\ D = [r.runnable EXCEPT ![t] = TRUE]
    BY Zenon
  <2>3. Mark(r, c, t) = [r EXCEPT !.running = f, !.coreRunning = g]
    BY <2>1 DEF Mark
  <2>4. Up(Mark(r, c, t), t) = [[r EXCEPT !.running = f, !.coreRunning = g] EXCEPT
                                  !.status = A, !.reason = B, !.wakeAt = C, !.runnable = D]
    BY <1>3, <2>2, <2>3 DEF Up, Systems
  <2>5. Up(r, t) = [r EXCEPT !.status = A, !.reason = B, !.wakeAt = C, !.runnable = D]
    BY <2>2 DEF Up
  <2>6. Mark(Up(r, t), c, t) = [[r EXCEPT !.status = A, !.reason = B, !.wakeAt = C, !.runnable = D] EXCEPT
                                  !.running = f, !.coreRunning = g]
    BY <1>3, <2>1, <2>5 DEF Mark, Systems
  <2>7. QED
    BY Zenon, <2>4, <2>6
<1>5. QED
  BY <1>1, <1>2, <1>4

(* The second move of reschedule(), step by step. *)
LEMMA MoveOn ==
  ASSUME NEW s \in Systems, NEW c \in Cores, NEW t \in Threads, s.core[t] = NoCore, NEW resume
  PROVE  LET y == SignalThread(Mark(s, c, t), t)
             a == IF s.status[t] = "STALLED" /\ s.reason[t] = "UNSCHEDULED"
                  THEN resume[y][t] ELSE Mark(s, c, t)
         IN  PutOn(s, c, t, resume) = Seat(a, c, t)
<1>1. PICK m : m = Mark(s, c, t)
  OBVIOUS
<1>2. m.core = s.core /\ m.status = s.status /\ m.reason = s.reason
  BY Zenon, <1>1, MarkIs DEF Marks, SameThreads
<1>3. c # NoCore /\ t # NoThread
  BY CoresAndThreads
<1>4. SetState(m, m.core[t], "IDLE") = m
  BY <1>2 DEF SetState
<1>5. PutOn(s, c, t, resume) = MoveThread(m, t, c, resume)
  BY <1>1, <1>3 DEF PutOn, Mark
<1>6. MoveThread(m, t, c, resume) =
        LET a == IF s.status[t] = "STALLED" /\ s.reason[t] = "UNSCHEDULED"
                 THEN resume[SignalThread(m, t)][t] ELSE m
        IN  Seat(a, c, t)
  BY <1>2, <1>3, <1>4 DEF MoveThread, Seat
<1>7. QED
  BY <1>1, <1>5, <1>6

(* The second move of reschedule() keeps the invariant and gives the core to *)
(* the thread.                                                               *)
LEMMA PutOnMid ==
  ASSUME NEW w \in [Threads -> Places \union {"acting"}], NEW h, NEW s, Mid(s, w, h),
         NEW c \in Cores, s.running[c] = NoThread,
         NEW t \in Threads, MayRun(s, t),
         NEW k \in Nat, NEW resume, Works(resume, k, w, h), Cardinality(Free(s)) <= k + 1
  PROVE  /\ Mid(PutOn(s, c, t, resume), w, h) /\ Moves(s, PutOn(s, c, t, resume), {})
         /\ PutOn(s, c, t, resume).core[t] = c /\ PutOn(s, c, t, resume).coreRunning[t] = c
<1>s. s \in Systems /\ Tables(s) /\ Ready(s)
  BY Zenon DEF Mid
<1>n. NoCore \notin Cores /\ NoThread \notin Threads
  BY CoresAndThreads
<1>o. s.core[t] = NoCore /\ s.coreRunning[t] = NoCore
  BY <1>s DEF Tables, MayRun
<1>t. /\ s.coreRunning \in [Threads -> Cores \union {NoCore}] /\ s.status \in [Threads -> Statuses]
      /\ s.running \in [Cores -> Threads \union {NoThread}]
      /\ s.reason \in [Threads -> Reasons] /\ s.runnable \in [Threads -> BOOLEAN]
  BY <1>s, SystemsType
<1>1. s.status[t] = "RUNNING" \/ (s.status[t] = "STALLED" /\ s.reason[t] = "UNSCHEDULED")
  BY <1>s DEF Ready, MayRun
<1>2. CASE s.status[t] = "RUNNING"
  <2>1. PICK m : m = Mark(s, c, t)
    OBVIOUS
  <2>2. Mid(m, w, h)
    BY <1>o, <1>2, <2>1, MarkMid
  <2>3. Marks(s, m, c, t)
    BY <1>s, <2>1, MarkIs
  <2>4. Promises(s, m, c, t)
    BY <2>3, <1>2, <1>t DEF Promises, Marks, SameThreads
  <2>5. PutOn(s, c, t, resume) = Seat(m, c, t)
    BY <1>s, <1>o, <1>2, <2>1, MoveOn
  <2>6. QED
    BY <2>2, <2>4, <2>5, <1>o, SeatMoves DEF MayRun
<1>3. CASE s.status[t] = "STALLED" /\ s.reason[t] = "UNSCHEDULED"
  <2>1. PICK x : x = SignalThread(s, t)
    OBVIOUS
  <2>2. PICK u : u = Up(x, t)
    OBVIOUS
  <2>3. PICK m : m = Mark(u, c, t)
    OBVIOUS
  <2>4. PICK y : y = SignalThread(Mark(s, c, t), t)
    OBVIOUS
  <2>5. w[t] # "barrier" /\ Wakable(x, w, t) /\ \A v \in Threads : s.waiter[v] # t
    BY <1>3, <2>1, MayRunWakable
  <2>6. Mid(x, w, h)
    BY <2>1, <2>5, SignalMid
  <2>7. x \in Systems /\ Mid(u, w, h)
    BY Zenon, <2>2, <2>5, <2>6, UpMid DEF Mid
  <2>8. /\ SameRest(s, x) /\ SameTables(s, x) /\ x.clock = s.clock
        /\ x.status = s.status /\ x.reason = s.reason /\ x.runnable = s.runnable
        /\ x.signalled = s.signalled \union {t}
    BY <1>s, <2>1, SignalIs
  <2>9. Ups(x, u, t) /\ u \in Systems
    BY Zenon, <2>2, <2>7, UpIs DEF Ups
  <2>10. /\ SameRest(s, u) /\ SameTables(s, u) /\ u.clock = s.clock
         /\ u.status = [s.status EXCEPT ![t] = "RUNNING"]
         /\ u.reason = [s.reason EXCEPT ![t] = "none"]
         /\ u.runnable = [s.runnable EXCEPT ![t] = TRUE]
         /\ u.signalled = s.signalled \union {t}
    BY <2>8, <2>9 DEF Ups, SameRest, SameTables
  <2>11. u.running[c] = NoThread /\ u.coreRunning[t] = NoCore /\ u.status[t] = "RUNNING"
    BY <2>10, <1>o, <1>t DEF SameTables
  <2>12. Mid(m, w, h) /\ Marks(u, m, c, t)
    BY <2>3, <2>7, <2>9, <2>11, MarkMid, MarkIs
  <2>13. y \in Systems /\ m = Up(y, t)
    <3>1. PICK z : z = Mark(s, c, t)
      OBVIOUS
    <3>2. z \in Systems
      BY Zenon, <1>s, <3>1, MarkIs DEF Marks
    <3>3. y \in Systems
      BY <2>4, <3>1, <3>2, SignalIs
    <3>4. Up(y, t) = m
      BY <1>s, <2>1, <2>2, <2>3, <2>4, UpMark
    <3>5. QED
      BY <3>3, <3>4
  <2>14. Free(y) = Free(s) \ {c}
    <3>1. y.running = m.running
      BY Zenon, <2>13, UpIs DEF Ups, SameTables
    <3>2. m.running = [s.running EXCEPT ![c] = t]
      BY <2>12, <2>10 DEF Marks, SameTables
    <3>3. QED
      BY <3>1, <3>2, <1>t, <1>n DEF Free
  <2>15. Cardinality(Free(y)) <= k
    <3>1. Cardinality(Free(y)) = Cardinality(Free(s)) - 1
      BY Zenon, <2>14, FreeShrinks
    <3>2. Cardinality(Free(s)) \in Nat
      BY FreeFinite
    <3>3. QED
      BY <3>1, <3>2
  <2>16. PICK a : a = resume[y][t]
    OBVIOUS
  <2>17. Mid(a, w, h) /\ Moves(m, a, {})
    BY <2>12, <2>13, <2>15, <2>16 DEF Works
  <2>18. Promises(s, m, c, t)
    <3>1. SameRest(s, m)
      BY <2>10, <2>12 DEF Marks, SameRest
    <3>2. /\ m.signalled = s.signalled \union {t} /\ m.clock = s.clock /\ m.core = s.core
          /\ m.status = [s.status EXCEPT ![t] = "RUNNING"]
          /\ m.reason = [s.reason EXCEPT ![t] = "none"]
          /\ m.runnable = [s.runnable EXCEPT ![t] = TRUE]
          /\ m.coreRunning = [s.coreRunning EXCEPT ![t] = c]
      BY <2>10, <2>12 DEF Marks, SameThreads, SameTables
    <3>3. Awakens(s, m, t)
      BY <3>2, <1>3, <1>t DEF Awakens, MayRun
    <3>4. QED
      BY <3>1, <3>2, <3>3, <1>t DEF Promises
  <2>19. PutOn(s, c, t, resume) = Seat(a, c, t)
    BY <1>s, <1>o, <1>3, <2>4, <2>16, MoveOn
  <2>20. QED
    BY <2>17, <2>18, <2>19, <1>o, SeatMoves DEF MayRun
<1>4. QED
  BY <1>1, <1>2, <1>3

(* Nothing the invariant speaks of has changed. *)
Same(s, r) ==
    /\ r \in Systems /\ SameRest(s, r) /\ SameThreads(s, r) /\ SameTables(s, r) /\ r.clock = s.clock

(* Such a change keeps the invariant. *)
LEMMA SameMid ==
  ASSUME NEW w, NEW h, NEW s, Mid(s, w, h), NEW r, Same(s, r)
  PROVE  Mid(r, w, h) /\ Moves(s, r, {})
<1>r. /\ r \in Systems /\ SameRest(s, r) /\ SameThreads(s, r) /\ r.clock = s.clock
      /\ r.core = s.core /\ r.cthread = s.cthread /\ r.cstate = s.cstate
      /\ r.coreRunning = s.coreRunning /\ r.running = s.running
  BY DEF Same, SameTables
<1>m. /\ Tables(s) /\ Placed(s, w) /\ Ready(s) /\ AtPlaces(s, w, h) /\ Waits(s, w) /\ Asleep(s, w)
      /\ InBarrier(s, w, h)
  BY Zenon DEF Mid
<1>a. r.status = s.status /\ r.reason = s.reason /\ r.runnable = s.runnable /\ r.signalled = s.signalled
  BY <1>r DEF SameThreads
<1>b. /\ r.waiter = s.waiter /\ r.sleeping = s.sleeping /\ r.acquired = s.acquired /\ r.slot = s.slot
      /\ r.next = s.next /\ r.disable = s.disable /\ r.aborted = s.aborted
      /\ r.lastPeriodic = s.lastPeriodic
  BY <1>r DEF SameRest
<1>1. Tables(r)
  BY <1>m, <1>r DEF Tables
<1>2. Placed(r, w)
  BY <1>m, <1>r, <1>a DEF Placed
<1>3. AtPlaces(r, w, h)
  BY <1>m, <1>r, <1>a DEF AtPlaces
<1>4. Ready(r) /\ Waits(r, w) /\ Asleep(r, w)
  <2>1. Ready(r)
    BY <1>m, <1>r, KeepsReady
  <2>2. QED
    BY <1>m, <1>r, <1>b, <2>1, KeepsThreads
<1>5. InBarrier(r, w, h)
  BY <1>m, <1>r, <1>a, <1>b DEF InBarrier
<1>6. Mid(r, w, h)
  BY Zenon, <1>1, <1>2, <1>3, <1>4, <1>5, <1>r DEF Mid, SameRest
<1>7. Moves(s, r, {})
  BY <1>r, <1>a DEF Moves
<1>8. QED
  BY <1>6, <1>7

(* More threads may lose their core. *)
LEMMA MovesMore ==
  ASSUME NEW s, NEW r, NEW E, NEW F, E \subseteq F, Moves(s, r, E)
  PROVE  Moves(s, r, F)
BY DEF Moves

(* One chain of moves after another is a chain of moves. *)
LEMMA MovesTransitive ==
  ASSUME NEW w, NEW h, NEW s, Mid(s, w, h), NEW q, NEW r, NEW E, Moves(s, q, E), Moves(q, r, E)
  PROVE  Moves(s, r, E)
<1>1. /\ SameRest(s, q) /\ s.signalled \subseteq q.signalled
      /\ \A t \in Threads :
           \/ q.status[t] = s.status[t] /\ q.reason[t] = s.reason[t] /\ q.runnable[t] = s.runnable[t]
           \/ Awakens(s, q, t)
      /\ \A t \in Threads : (t \notin E /\ s.coreRunning[t] # NoCore) =>
           q.coreRunning[t] = s.coreRunning[t] /\ q.core[t] = s.core[t]
      /\ \A t \in Threads : (~s.runnable[t] /\ s.coreRunning[t] = NoCore) => q.coreRunning[t] = NoCore
      /\ \A t \in Threads :
           \/ q.core[t] = q.coreRunning[t]
           \/ q.core[t] = s.core[t] /\ q.coreRunning[t] = s.coreRunning[t]
      /\ \A c \in Cores :
           \/ q.clock[c] = s.clock[c]
           \/ s.acquired[c] /\ (s.slot[c] \in E \/ s.coreRunning[s.slot[c]] = NoCore)
  BY DEF Moves
<1>2. /\ SameRest(q, r) /\ q.signalled \subseteq r.signalled
      /\ \A t \in Threads :
           \/ r.status[t] = q.status[t] /\ r.reason[t] = q.reason[t] /\ r.runnable[t] = q.runnable[t]
           \/ Awakens(q, r, t)
      /\ \A t \in Threads : (t \notin E /\ q.coreRunning[t] # NoCore) =>
           r.coreRunning[t] = q.coreRunning[t] /\ r.core[t] = q.core[t]
      /\ \A t \in Threads : (~q.runnable[t] /\ q.coreRunning[t] = NoCore) => r.coreRunning[t] = NoCore
      /\ \A t \in Threads :
           \/ r.core[t] = r.coreRunning[t]
           \/ r.core[t] = q.core[t] /\ r.coreRunning[t] = q.coreRunning[t]
      /\ \A c \in Cores :
           \/ r.clock[c] = q.clock[c]
           \/ q.acquired[c] /\ (q.slot[c] \in E \/ q.coreRunning[q.slot[c]] = NoCore)
  BY DEF Moves
<1>3. SameRest(s, r) /\ s.signalled \subseteq r.signalled
  BY <1>1, <1>2 DEF SameRest
<1>4. ASSUME NEW t \in Threads
      PROVE  \/ r.status[t] = s.status[t] /\ r.reason[t] = s.reason[t] /\ r.runnable[t] = s.runnable[t]
             \/ Awakens(s, r, t)
  <2>1. CASE q.status[t] = s.status[t] /\ q.reason[t] = s.reason[t] /\ q.runnable[t] = s.runnable[t]
    <3>1. CASE r.status[t] = q.status[t] /\ r.reason[t] = q.reason[t] /\ r.runnable[t] = q.runnable[t]
      BY <2>1, <3>1
    <3>2. CASE Awakens(q, r, t)
      BY <2>1, <3>2 DEF Awakens
    <3>3. QED
      BY <1>2, <3>1, <3>2
  <2>2. CASE Awakens(s, q, t)
    <3>1. r.status[t] = q.status[t]
      BY <1>2, <2>2 DEF Awakens
    <3>2. QED
      BY <1>2, <2>2, <3>1 DEF Awakens
  <2>3. QED
    BY <1>1, <2>1, <2>2
<1>5. ASSUME NEW t \in Threads, t \notin E, s.coreRunning[t] # NoCore
      PROVE  r.coreRunning[t] = s.coreRunning[t] /\ r.core[t] = s.core[t]
  BY <1>1, <1>2, <1>5
<1>6. ASSUME NEW t \in Threads, ~s.runnable[t], s.coreRunning[t] = NoCore
      PROVE  r.coreRunning[t] = NoCore
  <2>1. ~q.runnable[t]
    BY <1>1, <1>6 DEF Awakens
  <2>2. QED
    BY <1>1, <1>2, <1>6, <2>1
<1>7. ASSUME NEW t \in Threads
      PROVE  \/ r.core[t] = r.coreRunning[t]
             \/ r.core[t] = s.core[t] /\ r.coreRunning[t] = s.coreRunning[t]
  BY <1>1, <1>2
<1>8. ASSUME NEW c \in Cores
      PROVE  \/ r.clock[c] = s.clock[c]
             \/ s.acquired[c] /\ (s.slot[c] \in E \/ s.coreRunning[s.slot[c]] = NoCore)
  <2>1. s.acquired[c] => s.slot[c] \in Threads
    BY Zenon DEF Mid, InBarrier
  <2>2. q.acquired = s.acquired /\ q.slot = s.slot
    BY <1>1 DEF SameRest
  <2>3. QED
    BY <1>1, <1>2, <2>1, <2>2
<1>s. ASSUME NEW t \in Threads, t \in r.signalled
      PROVE  t \in s.signalled \/ r.status[t] = "RUNNING"
  <2>1. t \in q.signalled \/ r.status[t] = "RUNNING"
    BY <1>s DEF Moves
  <2>2. t \in q.signalled => t \in s.signalled \/ q.status[t] = "RUNNING"
    BY DEF Moves
  <2>3. q.status[t] = "RUNNING" => r.status[t] = "RUNNING"
    BY <1>2 DEF Awakens
  <2>4. QED
    BY <2>1, <2>2, <2>3
<1>9. QED
  BY <1>s, <1>3, <1>4, <1>5, <1>6, <1>7, <1>8 DEF Moves

(* The scheduler picks one of the candidates. *)
LEMMA LongestAgoIn ==
  ASSUME NEW last \in [Threads -> Nat], NEW S \in SUBSET Threads, S # {}
  PROVE  LongestAgo(last, S) \in S
<1>1. S \subseteq Nat
  BY ThreadSystemAssumption
<1>2. PICK m \in {last[t] : t \in S} : \A n \in {last[t] : t \in S} : m <= n
  <2>1. {last[t] : t \in S} \in SUBSET Nat /\ {last[t] : t \in S} # {}
    OBVIOUS
  <2>2. QED
    BY Zenon, <2>1, Least
<1>3. PICK t \in {u \in S : last[u] = m} : \A u \in {x \in S : last[x] = m} : t <= u
  <2>1. {u \in S : last[u] = m} \in SUBSET Nat /\ {u \in S : last[u] = m} # {}
    BY Zenon, <1>1, <1>2
  <2>2. QED
    BY Zenon, <2>1, Least
<1>4. ASSUME NEW u \in S PROVE last[t] < last[u] \/ (last[t] = last[u] /\ t <= u)
  <2>1. last[t] <= last[u] /\ last[t] \in Nat /\ last[u] \in Nat
    BY <1>2, <1>3
  <2>2. CASE last[u] = m
    BY <1>3, <2>1, <2>2
  <2>3. CASE last[u] # m
    BY <1>3, <2>1, <2>3
  <2>4. QED
    BY <2>2, <2>3
<1>5. \E x \in S : \A u \in S : last[x] < last[u] \/ (last[x] = last[u] /\ x <= u)
  BY <1>3, <1>4
<1>6. QED
  BY <1>5 DEF LongestAgo

(* The second move overwrites the entry the first one left. *)
LEMMA PutOnVacated ==
  ASSUME NEW x, NEW c, NEW t, NEW resume
  PROVE  PutOn(x, c, t, resume) = PutOn([x EXCEPT !.running[c] = NoThread], c, t, resume)
<1>1. PICK v : v = [x EXCEPT !.running[c] = NoThread]
  BY Zenon
<1>2. [x EXCEPT !.running[c] = t] = [v EXCEPT !.running[c] = t]
  BY Zenon, <1>1
<1>3. [x EXCEPT !.running[c] = t, !.coreRunning[t] = c] = [v EXCEPT !.running[c] = t, !.coreRunning[t] = c]
  BY Zenon, <1>1
<1>4. PutOn(x, c, t, resume) = PutOn(v, c, t, resume)
  BY <1>2, <1>3 DEF PutOn
<1>5. QED
  BY <1>1, <1>4

(* As many resumes may be nested as there are free cores but one. *)
Enough(s, c, k) ==
    \/ Cardinality(Cores) <= k
    \/ s.running[c] = NoThread /\ Cardinality(Free(s)) <= k + 1

(* Time stamps of the scheduler are nothing the invariant speaks of. *)
LEMMA AgedIs ==
  ASSUME NEW s \in Systems, NEW last \in [Threads -> Nat], NEW r, r = [s EXCEPT !.lastScheduled = last]
  PROVE  Same(s, r) /\ r.affinity = s.affinity
<1>1. r \in Systems
  BY Zenon DEF Systems
<1>2. SameRest(s, r) /\ SameThreads(s, r) /\ SameTables(s, r) /\ r.clock = s.clock
  BY DEF SameRest, SameThreads, SameTables, Systems
<1>3. QED
  BY <1>1, <1>2 DEF Same, SameRest

(* Nor are the remaining quanta. *)
LEMMA QuantumIs ==
  ASSUME NEW s \in Systems, NEW c \in Cores, NEW n \in 0 .. Quantum, NEW r,
         r = [s EXCEPT !.quantumLeft[c] = n]
  PROVE  Same(s, r)
<1>1. r \in Systems
  <2>1. [s.quantumLeft EXCEPT ![c] = n] \in [Cores -> 0 .. Quantum]
    BY SystemsType
  <2>2. QED
    BY Zenon, <2>1 DEF Systems
<1>2. SameRest(s, r) /\ SameThreads(s, r) /\ SameTables(s, r) /\ r.clock = s.clock
  BY DEF SameRest, SameThreads, SameTables, Systems
<1>3. QED
  BY <1>1, <1>2 DEF Same

(* The thread on core c may be taken off it. *)
Movable(s, w, c) ==
    \A t \in Threads : s.running[c] = t =>
      w[t] # "user" /\ (s.runnable[t] => s.status[t] # "IDLE")

(* SchedulerPinnedBase::reschedule keeps the invariant, moves nobody but the *)
(* thread that was on the core and threads that had none, and takes a thread *)
(* that may not run off its core.                                            *)
LEMMA RescheduleMid ==
  ASSUME NEW w \in [Threads -> Places \union {"acting"}], NEW h, NEW s, Mid(s, w, h),
         NEW c \in Cores, Movable(s, w, c),
         NEW k \in Nat, NEW resume, Works(resume, k, w, h), Enough(s, c, k)
  PROVE  /\ Mid(Reschedule(s, c, resume), w, h)
         /\ Moves(s, Reschedule(s, c, resume), {s.running[c]})
         /\ \A t \in Threads :
              (s.running[c] = t /\ ~s.runnable[t] /\ s.status[t] # "INITIALIZING") =>
                Reschedule(s, c, resume).coreRunning[t] = NoCore
<1>s. s \in Systems /\ Tables(s)
  BY Zenon DEF Mid
<1>t. /\ s.coreRunning \in [Threads -> Cores \union {NoCore}] /\ s.lastScheduled \in [Threads -> Nat]
      /\ s.running \in [Cores -> Threads \union {NoThread}]
  BY <1>s, SystemsType
<1>n. NoCore \notin Cores /\ NoThread \notin Threads
  BY CoresAndThreads
<1>w. Now(s) \in Nat
  <2>1. s.next \in Nat \ {0}
    BY <1>s, SystemsType
  <2>2. QED
    BY <2>1 DEF Now
<1> DEFINE now == s.running[c]
           ready == Candidates(s, c)
<1>1. PICK last : last = IF now \in ready THEN [s.lastScheduled EXCEPT ![now] = Now(s)] ELSE s.lastScheduled
  BY Zenon
<1>2. last \in [Threads -> Nat] /\ ready \in SUBSET Threads
  BY <1>1, <1>t, <1>w DEF Candidates
<1>3. PICK new : new = LongestAgo(last, ready)
  OBVIOUS
<1>4. new = NoThread \/ new \in ready
  <2>1. CASE ready = {}
    BY <1>3, <2>1 DEF LongestAgo
  <2>2. CASE ready # {}
    BY <1>2, <1>3, <2>2, LongestAgoIn
  <2>3. QED
    BY <2>1, <2>2
<1>5. PICK aged : aged = [s EXCEPT !.lastScheduled = last]
  BY Zenon
<1>6. Same(s, aged) /\ Mid(aged, w, h) /\ Moves(s, aged, {})
  BY <1>s, <1>2, <1>5, AgedIs, SameMid
<1>a. /\ aged \in Systems /\ aged.running = s.running /\ aged.coreRunning = s.coreRunning
      /\ aged.runnable = s.runnable /\ aged.status = s.status /\ Tables(aged)
  BY Zenon, <1>6 DEF Same, SameTables, SameThreads, Mid
<1>7. PICK done : done = IF new = now THEN aged ELSE PutOn(TakeOff(aged, now, resume), c, new, resume)
  OBVIOUS
<1>8. Reschedule(s, c, resume) = IF now # NoThread /\ s.status[now] = "INITIALIZING" THEN s
                                 ELSE [done EXCEPT !.quantumLeft[c] = Quantum]
  BY <1>1, <1>3, <1>5, <1>7 DEF Reschedule
<1>9. ASSUME NEW t \in Threads, t = new, new # now, NEW v, v.coreRunning[t] = s.coreRunning[t],
             v.runnable[t] = s.runnable[t]
      PROVE  MayRun(v, t)
  <2>1. s.runnable[t] /\ s.coreRunning[t] \in {NoCore, c}
    BY <1>4, <1>9, <1>n DEF Candidates
  <2>2. s.coreRunning[t] # c
    BY <1>s, <1>9 DEF Tables
  <2>3. QED
    BY <1>9, <2>1, <2>2 DEF MayRun
<1> HIDE DEF ready
<1>10. /\ Mid(done, w, h) /\ Moves(s, done, {now})
       /\ \A t \in Threads : (now = t /\ ~s.runnable[t]) => done.coreRunning[t] = NoCore
  <2>1. CASE new = now
    <3>1. done = aged
      BY <1>7, <2>1
    <3>2. \A t \in Threads : now = t => s.runnable[t]
      BY <1>4, <1>n, <2>1 DEF Candidates, ready
    <3>3. Moves(s, aged, {now})
      BY <1>6, MovesMore
    <3>4. QED
      BY <1>6, <3>1, <3>2, <3>3
  <2>2. CASE new # now /\ now = NoThread
    <3>1. TakeOff(aged, now, resume) = aged
      BY <2>2 DEF TakeOff
    <3>2. new \in Threads
      BY <1>2, <1>4, <2>2
    <3>3. MayRun(aged, new)
      BY <1>9, <1>a, <2>2, <3>2
    <3>4. Cardinality(Free(aged)) <= k + 1
      <4>1. Free(aged) = Free(s)
        BY <1>a DEF Free
      <4>2. Cardinality(Free(s)) \in Nat /\ Cardinality(Free(s)) <= Cardinality(Cores)
            /\ Cardinality(Cores) \in Nat
        BY FreeFinite, ThreadSystemAssumption
      <4>3. QED
        BY <4>1, <4>2 DEF Enough
    <3>5. aged.running[c] = NoThread
      BY <1>a, <2>2
    <3>6. Mid(done, w, h) /\ Moves(aged, done, {})
      BY <1>6, <1>7, <2>2, <3>1, <3>2, <3>3, <3>4, <3>5, PutOnMid
    <3>7. Moves(s, done, {})
      BY <1>6, <3>6, MovesTransitive
    <3>8. Moves(s, done, {now})
      BY <3>7, MovesMore
    <3>9. QED
      BY <3>6, <3>8, <2>2, <1>n
  <2>3. CASE new # now /\ now \in Threads
    <3>1. PICK v : v = Vacated(aged, c, now, resume)
      OBVIOUS
    <3>2. Vacates(aged, v, c, now)
      BY <1>a, <2>3, <3>1, VacateIs
    <3>3. Mid(v, w, h) /\ Moves(aged, v, {now}) /\ v.running[c] = NoThread
      <4>1. w[now] # "user" /\ (aged.runnable[now] => aged.status[now] # "IDLE")
        BY <1>a, <2>3 DEF Movable
      <4>2. QED
        BY <1>6, <1>a, <2>3, <3>2, <4>1, VacateMid
    <3>4. Moves(s, v, {now})
      <4>1. Moves(s, aged, {now})
        BY <1>6, MovesMore
      <4>2. QED
        BY <3>3, <4>1, MovesTransitive
    <3>5. done = PutOn(v, c, new, resume)
      <4>1. done = PutOn(TakeOff(aged, now, resume), c, new, resume)
        BY <1>7, <2>3
      <4>2. QED
        BY <3>1, <4>1, PutOnVacated DEF Vacated
    <3>6. v.coreRunning[now] = NoCore /\ v.runnable = s.runnable
      BY <3>2, <1>a, <1>t, <2>3 DEF Vacates, SameThreads
    <3>7. CASE new = NoThread
      <4>1. done = [v EXCEPT !.running[c] = NoThread]
        BY <3>5, <3>7 DEF PutOn
      <4>2. done = v
        <5>1. v.running \in [Cores -> Threads \union {NoThread}] /\ v \in Systems
          BY Zenon, <3>2, SystemsType DEF Vacates
        <5>2. [v.running EXCEPT ![c] = NoThread] = v.running
          BY <3>3, <5>1
        <5>3. QED
          BY <4>1, <5>1, <5>2 DEF Systems
      <4>3. QED
        BY <3>3, <3>4, <3>6, <4>2
    <3>8. CASE new \in Threads
      <4>1. v.coreRunning[new] = s.coreRunning[new] /\ v.runnable[new] = s.runnable[new]
        BY <3>2, <3>8, <1>a, <1>t, <2>3 DEF Vacates, SameThreads
      <4>2. MayRun(v, new)
        BY <1>9, <2>3, <3>8, <4>1
      <4>3. Cardinality(Free(v)) <= k + 1
        <5>1. Cardinality(Cores) <= k
          BY <1>n, <2>3 DEF Enough
        <5>2. Cardinality(Free(v)) \in Nat /\ Cardinality(Free(v)) <= Cardinality(Cores)
              /\ Cardinality(Cores) \in Nat
          BY FreeFinite, ThreadSystemAssumption
        <5>3. QED
          BY <5>1, <5>2
      <4>4. Mid(done, w, h) /\ Moves(v, done, {})
        BY <3>3, <3>5, <3>8, <4>2, <4>3, PutOnMid
      <4>5. Moves(s, done, {now})
        <5>1. Moves(v, done, {now})
          BY <4>4, MovesMore
        <5>2. QED
          BY <3>4, <5>1, MovesTransitive
      <4>6. ~s.runnable[now] => done.coreRunning[now] = NoCore
        BY <3>6, <4>4, <2>3 DEF Moves
      <4>7. QED
        BY <4>4, <4>5, <4>6
    <3>9. QED
      BY <1>2, <1>4, <3>7, <3>8
  <2>4. QED
    BY <1>t, <2>1, <2>2, <2>3
<1>11. PICK r : r = [done EXCEPT !.quantumLeft[c] = Quantum]
  BY Zenon
<1>12. Same(done, r)
  <2>1. Quantum \in 0 .. Quantum
    BY ThreadSystemAssumption
  <2>2. done \in Systems
    BY Zenon, <1>10 DEF Mid
  <2>3. QED
    BY <1>11, <2>1, <2>2, QuantumIs
<1>13. Mid(r, w, h) /\ Moves(done, r, {})
  BY <1>10, <1>12, SameMid
<1>14. Moves(s, r, {now})
  <2>1. Moves(done, r, {now})
    BY <1>13, MovesMore
  <2>2. QED
    BY <1>10, <2>1, MovesTransitive
<1>15. r.coreRunning = done.coreRunning
  BY <1>12 DEF Same, SameTables
<1>16. CASE now # NoThread /\ s.status[now] = "INITIALIZING"
  <2>1. Same(s, s)
    BY <1>s DEF Same, SameRest, SameThreads, SameTables
  <2>2. Moves(s, s, {now})
    BY <2>1, SameMid, MovesMore
  <2>3. QED
    BY <1>8, <1>16, <2>2
<1>17. CASE ~(now # NoThread /\ s.status[now] = "INITIALIZING")
  BY <1>8, <1>10, <1>11, <1>13, <1>14, <1>15, <1>17
<1>18. QED
  BY <1>16, <1>17

(* findFreeCoreForThread finds a free core. *)
LEMMA FindFreeCore ==
  ASSUME NEW s \in Systems, NEW t \in Threads, FindFreeCoreForThread(s, t) # NoCore
  PROVE  FindFreeCoreForThread(s, t) \in Cores /\ s.running[FindFreeCoreForThread(s, t)] = NoThread
<1>1. s.affinity[t] \in SUBSET Cores
  BY SystemsType
<1>2. FreeCores(s, t) \in SUBSET Nat /\ FreeCores(s, t) \subseteq Cores
  BY <1>1, ThreadSystemAssumption DEF FreeCores
<1>3. FreeCores(s, t) # {}
  BY DEF FindFreeCoreForThread
<1>4. \E c \in FreeCores(s, t) : \A d \in FreeCores(s, t) : c <= d
  BY <1>2, <1>3, Least
<1>5. FindFreeCoreForThread(s, t) \in FreeCores(s, t)
  BY <1>3, <1>4 DEF FindFreeCoreForThread
<1>6. QED
  BY <1>2, <1>5 DEF FreeCores

(* No thread is no thread that could lose its core. *)
LEMMA MovesNoThread ==
  ASSUME NEW w, NEW h, NEW s, Mid(s, w, h), NEW r, Moves(s, r, {NoThread})
  PROVE  Moves(s, r, {})
<1>1. \A c \in Cores : s.acquired[c] => s.slot[c] # NoThread
  BY ZenonT(40), CoresAndThreads DEF Mid, InBarrier
<1>2. \A t \in Threads : t # NoThread
  BY CoresAndThreads
<1>3. QED
  BY <1>1, <1>2 DEF Moves

(* To do nothing is a move. *)
LEMMA NoMoveMoves ==
  ASSUME NEW w, NEW h, NEW s, Mid(s, w, h), NEW E
  PROVE  Moves(s, s, E)
<1>1. Same(s, s)
  BY Zenon DEF Same, SameRest, SameThreads, SameTables, Mid
<1>2. QED
  BY <1>1, SameMid, MovesMore

(* Rescheduling a free core. *)
LEMMA RescheduleFree ==
  ASSUME NEW w \in [Threads -> Places \union {"acting"}], NEW h, NEW s, Mid(s, w, h),
         NEW c \in Cores, s.running[c] = NoThread,
         NEW k \in Nat, NEW resume, Works(resume, k, w, h), Cardinality(Free(s)) <= k + 1
  PROVE  /\ Mid(Reschedule(s, c, resume), w, h)
         /\ Moves(s, Reschedule(s, c, resume), {})
<1>1. Movable(s, w, c)
  BY CoresAndThreads DEF Movable
<1>2. Enough(s, c, k)
  BY DEF Enough
<1>3. QED
  BY Zenon, <1>1, <1>2, RescheduleMid, MovesNoThread

(* A resume that finds no free core does not reschedule. *)
LEMMA NoMoreWorks ==
  ASSUME NEW w, NEW h
  PROVE  Works(NoMoreCores, 0, w, h)
<1>1. SUFFICES ASSUME NEW s \in Systems, NEW t \in Threads, Mid(Up(s, t), w, h), Cardinality(Free(s)) <= 0
               PROVE  /\ Mid(NoMoreCores[s][t], w, h)
                      /\ Moves(Up(s, t), NoMoreCores[s][t], {})
  BY DEF Works
<1>2. PICK u : u = Up(s, t)
  OBVIOUS
<1>3. u \in Systems /\ u.running = s.running
  BY Zenon, <1>2, UpIs DEF Ups, SameTables
<1>4. Free(s) = {}
  BY <1>1, FreeFinite, FS_EmptySet
<1>5. FindFreeCoreForThread(u, t) = NoCore
  BY <1>3, <1>4, FindFreeCore DEF Free
<1>6. NoMoreCores[s][t] = u
  BY <1>2, <1>5 DEF NoMoreCores
<1>7. QED
  BY <1>1, <1>2, <1>6, NoMoveMoves

(* One more nested resume is enough for one more free core. *)
LEMMA FillWorks ==
  ASSUME NEW w \in [Threads -> Places \union {"acting"}], NEW h, NEW k \in Nat, NEW resume, Works(resume, k, w, h)
  PROVE  Works(FillOne(resume), k + 1, w, h)
<1>1. SUFFICES ASSUME NEW s \in Systems, NEW t \in Threads, Mid(Up(s, t), w, h),
                      Cardinality(Free(s)) <= k + 1
               PROVE  /\ Mid(FillOne(resume)[s][t], w, h)
                      /\ Moves(Up(s, t), FillOne(resume)[s][t], {})
  BY DEF Works
<1>2. PICK u : u = Up(s, t)
  OBVIOUS
<1>3. u \in Systems /\ u.running = s.running
  BY Zenon, <1>2, UpIs DEF Ups, SameTables
<1>4. PICK free : free = FindFreeCoreForThread(u, t)
  OBVIOUS
<1>5. FillOne(resume)[s][t] = IF free = NoCore THEN u ELSE Reschedule(u, free, resume)
  BY <1>2, <1>4 DEF FillOne
<1>6. Mid(u, w, h)
  BY <1>1, <1>2
<1>7. CASE free = NoCore
  BY <1>2, <1>5, <1>6, <1>7, NoMoveMoves
<1>8. CASE free # NoCore
  <2>1. free \in Cores /\ u.running[free] = NoThread
    BY <1>3, <1>4, <1>8, FindFreeCore
  <2>2. Free(u) = Free(s)
    BY <1>3 DEF Free
  <2>3. Mid(Reschedule(u, free, resume), w, h) /\ Moves(u, Reschedule(u, free, resume), {})
    BY <1>1, <1>6, <2>1, <2>2, RescheduleFree
  <2>4. QED
    BY <1>2, <1>5, <1>8, <2>3
<1>9. QED
  BY <1>7, <1>8

(* n nested resumes are enough for n free cores: rescheduling does not *)
(* recurse for ever.                                                   *)
LEMMA ResumesWork ==
  ASSUME NEW w \in [Threads -> Places \union {"acting"}], NEW h, NEW n \in Nat
  PROVE  Works(Resumes[n], n, w, h)
<1> DEFINE P == {k \in Nat : Works(Resumes[k], k, w, h)}
<1>1. 0 \in P
  <2>1. Resumes[0] = NoMoreCores
    BY ResumesDefined
  <2>2. QED
    BY <2>1, NoMoreWorks
<1>2. ASSUME NEW k \in Nat, k \in P PROVE k + 1 \in P
  <2>1. Resumes[k + 1] = FillOne(Resumes[k])
    <3>1. k + 1 \in Nat /\ k + 1 # 0 /\ (k + 1) - 1 = k
      OBVIOUS
    <3>2. QED
      BY <3>1, ResumesDefined
  <2>2. Works(FillOne(Resumes[k]), k + 1, w, h)
    BY <1>2, FillWorks
  <2>3. QED
    BY <2>1, <2>2
<1> HIDE DEF P
<1>3. Nat \subseteq P
  BY <1>1, <1>2, Induction
<1>4. QED
  BY <1>3 DEF P

(* What rescheduling a core and resuming a thread do, for every caller. *)
LEMMA RescheduleCoreMid ==
  ASSUME NEW w \in [Threads -> Places \union {"acting"}], NEW h, NEW s, Mid(s, w, h),
         NEW c \in Cores, Movable(s, w, c)
  PROVE  /\ Mid(RescheduleCore(s, c), w, h)
         /\ Moves(s, RescheduleCore(s, c), {s.running[c]})
         /\ \A t \in Threads :
              (s.running[c] = t /\ ~s.runnable[t] /\ s.status[t] # "INITIALIZING") =>
                RescheduleCore(s, c).coreRunning[t] = NoCore
<1>1. PICK k : k = Cardinality(Cores)
  OBVIOUS
<1>2. k \in Nat /\ Works(Resumes[k], k, w, h)
  BY Zenon, <1>1, ThreadSystemAssumption, ResumesWork
<1>3. Enough(s, c, k)
  BY <1>1, <1>2 DEF Enough
<1>4. RescheduleCore(s, c) = Reschedule(s, c, Resumes[k])
  BY <1>1 DEF RescheduleCore
<1>5. QED
  BY <1>2, <1>3, <1>4, RescheduleMid

(* Rescheduling a free core moves nobody off a core. *)
LEMMA RescheduleFreeCoreMid ==
  ASSUME NEW w \in [Threads -> Places \union {"acting"}], NEW h, NEW s, Mid(s, w, h),
         NEW c \in Cores, s.running[c] = NoThread
  PROVE  Mid(RescheduleCore(s, c), w, h) /\ Moves(s, RescheduleCore(s, c), {})
<1>1. Movable(s, w, c)
  BY CoresAndThreads DEF Movable
<1>2. QED
  BY Zenon, <1>1, RescheduleCoreMid, MovesNoThread

(* resumeThread_async keeps the invariant for a thread that waits for *)
(* nothing else.                                                      *)
LEMMA ResumeMid ==
  ASSUME NEW w \in [Threads -> Places \union {"acting"}], NEW h, NEW s, Mid(s, w, h),
         NEW t \in Threads, Wakable(s, w, t)
  PROVE  /\ Mid(ResumeThread_async(s, t), w, h)
         /\ Moves(Up(s, t), ResumeThread_async(s, t), {})
<1>1. PICK k : k = Cardinality(Cores)
  OBVIOUS
<1>2. k \in Nat /\ Works(Resumes[k], k, w, h)
  BY Zenon, <1>1, ThreadSystemAssumption, ResumesWork
<1>3. s \in Systems /\ Mid(Up(s, t), w, h)
  BY Zenon, UpMid DEF Mid
<1>4. Cardinality(Free(s)) <= k
  BY <1>1, FreeFinite
<1>5. ResumeThread_async(s, t) = Resumes[k][s][t]
  BY <1>1 DEF ResumeThread_async
<1>6. QED
  BY <1>2, <1>3, <1>4, <1>5 DEF Works

(* Erasing an element leaves the others in their order. *)
LEMMA RemoveAtFacts ==
  ASSUME NEW S, NEW s \in Seq(S), NEW i \in 1..Len(s)
  PROVE  /\ RemoveAt(s, i) \in Seq(S) /\ DOMAIN RemoveAt(s, i) = 1..(Len(s) - 1)
         /\ \A k \in 1..(Len(s) - 1) : RemoveAt(s, i)[k] = IF k < i THEN s[k] ELSE s[k + 1]
<1> DEFINE a == SubSeq(s, 1, i - 1)
           b == SubSeq(s, i + 1, Len(s))
<1>1. Len(s) \in Nat /\ i \in Int /\ \A k \in 1..Len(s) : s[k] \in S
  BY LenProperties, ElementOfSeq
<1>2. /\ a \in Seq(S) /\ Len(a) = i - 1
      /\ \A k \in 1..(i - 1) : a[k] = s[k]
  <2>1. \A k \in 1..(i - 1) : s[k] \in S
    BY <1>1
  <2>2. /\ a \in Seq(S) /\ Len(a) = IF 1 <= i - 1 THEN (i - 1) - 1 + 1 ELSE 0
        /\ \A k \in 1..((i - 1) - 1 + 1) : a[k] = s[1 + k - 1]
    BY <1>1, <2>1, SubSeqProperties
  <2>3. QED
    BY <1>1, <2>2
<1>3. /\ b \in Seq(S) /\ Len(b) = Len(s) - i
      /\ \A k \in 1..(Len(s) - i) : b[k] = s[i + k]
  <2>1. \A k \in (i + 1)..Len(s) : s[k] \in S
    BY <1>1
  <2>2. /\ b \in Seq(S) /\ Len(b) = IF i + 1 <= Len(s) THEN Len(s) - (i + 1) + 1 ELSE 0
        /\ \A k \in 1..(Len(s) - (i + 1) + 1) : b[k] = s[(i + 1) + k - 1]
    BY <1>1, <2>1, SubSeqProperties
  <2>3. QED
    BY <1>1, <2>2
<1> HIDE DEF a, b
<1>4. /\ a \o b \in Seq(S) /\ Len(a \o b) = Len(a) + Len(b)
      /\ \A k \in 1..(Len(a) + Len(b)) : (a \o b)[k] = IF k <= Len(a) THEN a[k] ELSE b[k - Len(a)]
  BY Zenon, <1>2, <1>3, ConcatProperties
<1>5. Len(a) + Len(b) = Len(s) - 1 /\ DOMAIN (a \o b) = 1..(Len(s) - 1)
  BY <1>1, <1>2, <1>3, <1>4, LenProperties
<1>6. ASSUME NEW k \in 1..(Len(s) - 1)
      PROVE  (a \o b)[k] = IF k < i THEN s[k] ELSE s[k + 1]
  <2>1. CASE k < i
    BY <1>1, <1>2, <1>4, <1>5, <2>1
  <2>2. CASE ~(k < i)
    <3>1. (a \o b)[k] = b[k - (i - 1)]
      BY <1>1, <1>2, <1>4, <1>5, <2>2
    <3>2. k - (i - 1) \in 1..(Len(s) - i) /\ i + (k - (i - 1)) = k + 1
      BY <1>1, <2>2
    <3>3. QED
      BY <1>3, <2>2, <3>1, <3>2
  <2>3. QED
    BY Zenon, <2>1, <2>2
<1>7. QED
  BY Zenon, <1>4, <1>5, <1>6 DEF RemoveAt, a, b

(* What was erased from a list without repetitions is not in it any more. *)
LEMMA RemovedIsGone ==
  ASSUME NEW S, NEW x \in Seq(S), NEW i \in 1 .. Len(x), \A j, k \in 1 .. Len(x) : x[j] = x[k] => j = k,
         NEW q, q = RemoveAt(x, i)
  PROVE  /\ \A k \in DOMAIN q : q[k] # x[i]
         /\ \A j, k \in DOMAIN q : q[j] = q[k] => j = k
<1>1. PICK n \in Nat : n = Len(x)
  BY LenProperties
<1>2. /\ DOMAIN q = 1 .. (n - 1)
      /\ \A k \in 1 .. (n - 1) : q[k] = IF k < i THEN x[k] ELSE x[k + 1]
  BY <1>1, RemoveAtFacts
<1>3. i \in 1 .. n
  BY <1>1
<1> DEFINE to(k) == IF k < i THEN k ELSE k + 1
<1>4. ASSUME NEW k \in DOMAIN q PROVE to(k) \in 1 .. n /\ to(k) # i /\ q[k] = x[to(k)]
  BY <1>2, <1>3, <1>4
<1>5. ASSUME NEW j \in DOMAIN q, NEW k \in DOMAIN q, to(j) = to(k) PROVE j = k
  BY <1>2, <1>3, <1>5
<1> HIDE DEF to
<1>6. QED
  BY <1>1, <1>3, <1>4, <1>5

(* Nobody executes application code, or holds the lock in a handler. *)
NoUser(w) == \A t \in Threads : w[t] \notin {"user", "acting"}

(* A thread is what it was: the scheduler still may choose it if it could, *)
(* and the periodic hook still knows it if it sleeps.                      *)
Rests(s, r, t) ==
    /\ r.status[t] = s.status[t] /\ r.reason[t] = s.reason[t]
    /\ (s.status[t] # "IDLE" /\ s.runnable[t]) => r.runnable[t]
    /\ t \in Sleepers(s) => t \in Sleepers(r)

(* Whoever is signalled runs, a status changes only to that, and nobody's *)
(* waiter is forgotten.                                                   *)
Signals(s, r) ==
    /\ r.waiter = s.waiter
    /\ \A t \in Threads :
         /\ t \in r.signalled => t \in s.signalled \/ r.status[t] = "RUNNING"
         /\ (r.status[t] = "RUNNING" /\ r.runnable[t]) \/ Rests(s, r, t)

(* One after the other. *)
LEMMA SignalsTransitive ==
  ASSUME NEW s, NEW q, NEW r, Signals(s, q), Signals(q, r)
  PROVE  Signals(s, r)
BY DEF Signals, Rests

(* Whoever is to wake somebody still is, if only such things have happened. *)
LEMMA WokenOn ==
  ASSUME NEW s, NEW r, Signals(s, r), NEW w, NEW v, NEW A, NEW B, Woken(s, w, A),
         \A t \in A : t \in B \/ (t \in Threads /\ r.status[t] = "RUNNING"),
         \A t \in Threads : (w[t] = "paused" /\ r.status[t] = "STALLED") => v[t] = "paused"
  PROVE  Woken(r, v, B)
<1>1. SUFFICES ASSUME NEW t \in Threads
               PROVE  /\ r.status[t] = "RUNNING" => r.runnable[t]
                      /\ (r.status[t] = "STALLED" /\ t \notin B) =>
                           Waker(r, t) \/ (r.reason[t] = "PAUSE" /\ v[t] = "paused")
  BY DEF Woken
<1>2. CASE r.status[t] = "RUNNING" /\ r.runnable[t]
  BY <1>2
<1>3. CASE Rests(s, r, t)
  <2>1. /\ r.status[t] = s.status[t] /\ r.reason[t] = s.reason[t]
        /\ (s.status[t] # "IDLE" /\ s.runnable[t]) => r.runnable[t]
        /\ t \in Sleepers(s) => t \in Sleepers(r)
    BY <1>3 DEF Rests
  <2>2. \A u \in Threads : r.status[u] \in {"none", "IDLE"} => s.status[u] \in {"none", "IDLE"}
    BY DEF Signals, Rests
  <2>3. r.waiter = s.waiter
    BY DEF Signals
  <2>4. QED
    BY <2>1, <2>2, <2>3 DEF Woken, Waker
<1>4. QED
  BY <1>2, <1>3 DEF Signals

(* Nothing that wakes anybody has changed. *)
LEMMA SameWoken ==
  ASSUME NEW s, NEW r, NEW w, NEW A, NEW B, A \subseteq B, Woken(s, w, A),
         r.status = s.status, r.reason = s.reason, r.runnable = s.runnable, r.waiter = s.waiter,
         r.sleeping = s.sleeping
  PROVE  Woken(r, w, B)
BY DEF Woken, Waker, Sleepers

(* Nobody is signalled. *)
LEMMA SameSignals ==
  ASSUME NEW s, NEW r, r.status = s.status, r.reason = s.reason, r.signalled = s.signalled,
         r.runnable = s.runnable, r.waiter = s.waiter, r.sleeping = s.sleeping
  PROVE  Signals(s, r)
BY DEF Signals, Rests, Sleepers

(* What HOOK_PERIODIC keeps. *)
Turns(s, r) ==
    /\ Signals(s, r)
    /\ r.acquired = s.acquired /\ r.slot = s.slot /\ r.next = s.next
    /\ r.fastforward = s.fastforward /\ r.disable = s.disable /\ r.aborted = s.aborted
    /\ r.failed = s.failed
    /\ \A t \in Threads :
         \/ r.core[t] = r.coreRunning[t]
         \/ r.core[t] = s.core[t] /\ r.coreRunning[t] = s.coreRunning[t]

(* One after the other. *)
LEMMA TurnsTransitive ==
  ASSUME NEW s, NEW q, NEW r, Turns(s, q), Turns(q, r)
  PROVE  Turns(s, r)
<1>1. Signals(s, r)
  BY SignalsTransitive DEF Turns
<1>2. QED
  BY <1>1 DEF Turns

(* Rescheduling keeps it. *)
LEMMA MovesTurns ==
  ASSUME NEW s, NEW r, NEW E, Moves(s, r, E)
  PROVE  Turns(s, r) /\ r.lastPeriodic = s.lastPeriodic
<1>1. Signals(s, r)
  BY DEF Moves, Awakens, SameRest, Signals, Rests, Sleepers
<1>2. QED
  BY <1>1 DEF Moves, Turns, SameRest

(* A change of the list of sleepers changes nothing else. *)
LEMMA SleepersIs ==
  ASSUME NEW s \in Systems, NEW q \in Seq(Threads), NEW r, r = [s EXCEPT !.sleeping = q]
  PROVE  /\ r \in Systems /\ SameThreads(s, r) /\ SameTables(s, r) /\ r.clock = s.clock
         /\ r.sleeping = q /\ r.waiter = s.waiter /\ r.lastPeriodic = s.lastPeriodic
         /\ r.acquired = s.acquired /\ r.slot = s.slot /\ r.next = s.next
         /\ r.fastforward = s.fastforward /\ r.disable = s.disable /\ r.aborted = s.aborted
         /\ r.failed = s.failed
<1>1. r \in Systems
  BY Zenon DEF Systems
<1>2. SameThreads(s, r) /\ SameTables(s, r) /\ r.clock = s.clock
  BY DEF SameThreads, SameTables, Systems
<1>3. /\ r.sleeping = q /\ r.waiter = s.waiter /\ r.lastPeriodic = s.lastPeriodic
      /\ r.acquired = s.acquired /\ r.slot = s.slot /\ r.next = s.next
      /\ r.fastforward = s.fastforward /\ r.disable = s.disable /\ r.aborted = s.aborted
      /\ r.failed = s.failed
  BY DEF Systems
<1>4. QED
  BY <1>1, <1>2, <1>3

(* It keeps the invariant when whoever is left in the list sleeps. *)
LEMMA SleepersMid ==
  ASSUME NEW w, NEW h, NEW s, Mid(s, w, h), NEW q \in Seq(Threads), NEW r, r = [s EXCEPT !.sleeping = q],
         Asleep(r, w)
  PROVE  Mid(r, w, h)
<1>s. s \in Systems
  BY Zenon DEF Mid
<1>r. /\ r \in Systems /\ SameThreads(s, r) /\ SameTables(s, r) /\ r.clock = s.clock
      /\ r.sleeping = q /\ r.waiter = s.waiter /\ r.lastPeriodic = s.lastPeriodic
      /\ r.acquired = s.acquired /\ r.slot = s.slot /\ r.next = s.next
      /\ r.fastforward = s.fastforward /\ r.disable = s.disable /\ r.aborted = s.aborted
      /\ r.failed = s.failed
  BY <1>s, SleepersIs
<1>m. /\ Tables(s) /\ Placed(s, w) /\ Ready(s) /\ AtPlaces(s, w, h) /\ Waits(s, w)
      /\ InBarrier(s, w, h)
  BY Zenon DEF Mid
<1>a. r.status = s.status /\ r.reason = s.reason /\ r.runnable = s.runnable /\ r.signalled = s.signalled
  BY <1>r DEF SameThreads
<1>c. /\ r.core = s.core /\ r.cthread = s.cthread /\ r.cstate = s.cstate
      /\ r.coreRunning = s.coreRunning /\ r.running = s.running /\ r.clock = s.clock
  BY <1>r DEF SameTables
<1>1. Tables(r)
  BY <1>m, <1>c DEF Tables
<1>2. Placed(r, w)
  BY <1>m, <1>c, <1>a DEF Placed
<1>3. AtPlaces(r, w, h)
  BY <1>m, <1>c, <1>a DEF AtPlaces
<1>4. Ready(r) /\ Waits(r, w)
  BY <1>m, <1>a, <1>r DEF Ready, Waits
<1>5. InBarrier(r, w, h)
  BY <1>m, <1>r, <1>a, <1>c DEF InBarrier
<1>6. QED
  BY Zenon, <1>1, <1>2, <1>3, <1>4, <1>5, <1>r DEF Mid

(* SyscallServer::futexPeriodic keeps the invariant: it wakes a thread that *)
(* sleeps, once.                                                            *)
LEMMA WakeSleeperMid ==
  ASSUME NEW w \in [Threads -> Places \union {"acting"}], NEW h, NEW s, Mid(s, w, h), NEW time
  PROVE  /\ Mid(WakeSleeper(s, time), w, h) /\ Turns(s, WakeSleeper(s, time))
         /\ WakeSleeper(s, time).lastPeriodic = s.lastPeriodic
<1>s. s \in Systems /\ s.sleeping \in Seq(Threads)
  BY Zenon, SystemsType DEF Mid
<1> DEFINE due == {i \in DOMAIN s.sleeping : s.wakeAt[s.sleeping[i]] <= time}
<1>1. CASE due = {}
  <2>1. Signals(s, s)
    BY SameSignals
  <2>2. QED
    BY <1>1, <2>1 DEF WakeSleeper, Turns
<1>2. CASE due # {}
  <2>1. due \in SUBSET Nat /\ DOMAIN s.sleeping = 1 .. Len(s.sleeping) /\ Len(s.sleeping) \in Nat
    BY <1>s, LenProperties
  <2>2. PICK first : first = CHOOSE i \in due : \A j \in due : i <= j
    OBVIOUS
  <2>3. first \in due
    <3>1. \E i \in due : \A j \in due : i <= j
      BY Zenon, <1>2, <2>1, Least
    <3>2. QED
      BY <2>2, <3>1
  <2>4. first \in 1 .. Len(s.sleeping)
    BY <2>1, <2>3
  <2>5. PICK t : t = s.sleeping[first]
    OBVIOUS
  <2>6. PICK q : q = RemoveAt(s.sleeping, first)
    OBVIOUS
  <2>7. /\ q \in Seq(Threads) /\ DOMAIN q = 1 .. (Len(s.sleeping) - 1)
        /\ \A k \in 1 .. (Len(s.sleeping) - 1) :
             q[k] = IF k < first THEN s.sleeping[k] ELSE s.sleeping[k + 1]
    BY <1>s, <2>4, <2>6, RemoveAtFacts
  <2>8. PICK r : r = [s EXCEPT !.sleeping = q]
    BY Zenon
  <2>9. WakeSleeper(s, time) = ResumeThread(r, t)
    BY <1>2, <2>2, <2>5, <2>6, <2>8 DEF WakeSleeper
  <2>10. /\ t \in Threads /\ w[t] \in {"stalled", "acting"} /\ s.status[t] = "STALLED" /\ s.reason[t] = "SLEEP"
         /\ \A i, j \in DOMAIN s.sleeping : s.sleeping[i] = s.sleeping[j] => i = j
    <3>1. t \in Threads
      BY <1>s, <2>1, <2>4, <2>5
    <3>2. QED
      BY Zenon, <3>1, <2>1, <2>4, <2>5 DEF Mid, Asleep
  <2>11. /\ r \in Systems /\ SameThreads(s, r) /\ SameTables(s, r) /\ r.clock = s.clock
         /\ r.sleeping = q /\ r.waiter = s.waiter /\ r.lastPeriodic = s.lastPeriodic
    BY <1>s, <2>7, <2>8, SleepersIs
  <2>12. \A k \in DOMAIN q : q[k] # t
    <3>1. \A i, j \in 1 .. Len(s.sleeping) : s.sleeping[i] = s.sleeping[j] => i = j
      BY <2>1, <2>10
    <3>2. QED
      BY <1>s, <2>4, <2>5, <2>6, <3>1, RemovedIsGone
  <2>13. Asleep(r, w)
    <3>0. \A i \in DOMAIN s.sleeping :
            /\ w[s.sleeping[i]] \in {"stalled", "acting"}
            /\ s.status[s.sleeping[i]] = "STALLED" /\ s.reason[s.sleeping[i]] = "SLEEP"
      BY Zenon DEF Mid, Asleep
    <3>1. ASSUME NEW k \in DOMAIN q
          PROVE  w[q[k]] \in {"stalled", "acting"} /\ s.status[q[k]] = "STALLED" /\ s.reason[q[k]] = "SLEEP"
      <4>1. k \in 1 .. Len(s.sleeping) /\ k + 1 \in 1 .. Len(s.sleeping)
        BY <2>1, <2>7
      <4>2. q[k] = s.sleeping[k] \/ q[k] = s.sleeping[k + 1]
        BY Zenon, <2>7
      <4>3. QED
        BY <3>0, <4>1, <4>2, <2>1
    <3>2. ASSUME NEW i \in DOMAIN q, NEW j \in DOMAIN q, q[i] = q[j] PROVE i = j
      <4>1. \A k, m \in 1 .. Len(s.sleeping) : s.sleeping[k] = s.sleeping[m] => k = m
        BY <2>1, <2>10
      <4>2. QED
        BY <1>s, <2>4, <2>6, <3>2, <4>1, RemovedIsGone
    <3>3. QED
      BY <3>1, <3>2, <2>11 DEF Asleep, SameThreads
  <2>14. Mid(r, w, h)
    BY <2>7, <2>8, <2>13, SleepersMid
  <2>o. \A u \in Threads : (u # t /\ u \in Sleepers(s)) => u \in Sleepers(r)
    <3>1. SUFFICES ASSUME NEW u \in Threads, u # t, u \in Sleepers(s) PROVE \E k \in DOMAIN q : q[k] = u
      BY <2>11 DEF Sleepers, ToSet
    <3>2. PICK i \in 1 .. Len(s.sleeping) : s.sleeping[i] = u
      BY <2>1, <3>1 DEF Sleepers, ToSet
    <3>3. i # first
      BY <2>5, <3>1, <3>2
    <3>4. Len(s.sleeping) \in Nat
      BY <1>s, LenProperties
    <3>5. CASE i < first
      <4>1. i \in 1 .. (Len(s.sleeping) - 1)
        BY <2>4, <3>4, <3>5
      <4>2. QED
        BY <2>7, <3>2, <3>5, <4>1
    <3>6. CASE i > first
      <4>1. i - 1 \in 1 .. (Len(s.sleeping) - 1) /\ ~(i - 1 < first) /\ (i - 1) + 1 = i
        BY <2>4, <3>4, <3>6
      <4>2. q[i - 1] = s.sleeping[(i - 1) + 1]
        BY <2>7, <4>1
      <4>3. QED
        BY <2>7, <3>2, <4>1, <4>2
    <3>7. QED
      BY <2>4, <3>3, <3>5, <3>6
  <2>15. PICK y : y = SignalThread(r, t)
    OBVIOUS
  <2>w. \A u \in Threads : s.waiter[u] # t
    <3>1. Waits(s, w) /\ NoThread \notin Threads
      BY Zenon, CoresAndThreads DEF Mid
    <3>2. QED
      BY <2>10, <3>1 DEF Waits
  <2>16. Mid(y, w, h)
    <3>1. w[t] # "barrier" /\ \A u \in Threads : r.waiter[u] # t
      BY <2>10, <2>11, <2>w
    <3>2. QED
      BY <2>10, <2>14, <2>15, <3>1, SignalMid
  <2>17. /\ y \in Systems /\ SameRest(r, y) /\ SameTables(r, y) /\ y.clock = r.clock
         /\ y.status = r.status /\ y.reason = r.reason /\ y.runnable = r.runnable
         /\ y.signalled = r.signalled \union {t}
    BY <2>10, <2>11, <2>15, SignalIs
  <2>18. Wakable(y, w, t)
    <3>1. y.waiter = s.waiter /\ y.sleeping = q /\ y.coreRunning = s.coreRunning /\ t \in y.signalled
      BY <2>11, <2>17 DEF SameRest, SameTables
    <3>3. w[t] # "acting" => s.coreRunning[t] = NoCore
      BY Zenon, <2>10 DEF Mid, Placed
    <3>4. QED
      BY <2>10, <2>12, <2>w, <3>1, <3>3 DEF Wakable
  <2>19. PICK z : z = ResumeThread_async(y, t)
    OBVIOUS
  <2>20. Mid(z, w, h) /\ Moves(Up(y, t), z, {})
    BY <2>10, <2>16, <2>18, <2>19, ResumeMid
  <2>21. Turns(s, Up(y, t)) /\ Up(y, t).lastPeriodic = s.lastPeriodic
    <3>1. Ups(y, Up(y, t), t)
      BY <2>10, <2>17, UpIs
    <3>2. /\ s.status \in [Threads -> Statuses] /\ s.reason \in [Threads -> Reasons]
          /\ s.runnable \in [Threads -> BOOLEAN]
      BY <1>s, SystemsType
    <3>3. Signals(s, Up(y, t))
      <4>1. PICK v : v = Up(y, t)
        OBVIOUS
      <4>2. /\ v.status = [s.status EXCEPT ![t] = "RUNNING"] /\ v.reason = [s.reason EXCEPT ![t] = "none"]
            /\ v.signalled = s.signalled \union {t} /\ v.runnable = [s.runnable EXCEPT ![t] = TRUE]
            /\ v.waiter = s.waiter /\ v.sleeping = r.sleeping
        BY <3>1, <4>1, <2>11, <2>17 DEF Ups, SameThreads, SameRest
      <4>3. \A u \in Threads : (u # t /\ u \in Sleepers(s)) => u \in Sleepers(v)
        BY <2>o, <4>2 DEF Sleepers
      <4>4. Signals(s, v)
        BY <3>2, <4>2, <4>3, <2>10 DEF Signals, Rests
      <4>5. QED
        BY <4>1, <4>4
    <3>4. /\ r.acquired = s.acquired /\ r.slot = s.slot /\ r.next = s.next /\ r.lastPeriodic = s.lastPeriodic
          /\ r.fastforward = s.fastforward /\ r.disable = s.disable /\ r.aborted = s.aborted
          /\ r.failed = s.failed
      BY <1>s, <2>7, <2>8, SleepersIs
    <3>5. QED
      BY <3>1, <3>3, <3>4, <2>11, <2>17 DEF Ups, Turns, SameRest, SameTables
  <2>23. Turns(Up(y, t), z) /\ z.lastPeriodic = Up(y, t).lastPeriodic
    BY <2>20, MovesTurns
  <2>24. Turns(s, z) /\ z.lastPeriodic = s.lastPeriodic
    BY <2>21, <2>23, TurnsTransitive
  <2>25. WakeSleeper(s, time) = z
    BY <2>9, <2>15, <2>19 DEF ResumeThread
  <2>26. QED
    BY <2>20, <2>24, <2>25
<1>3. QED
  BY <1>1, <1>2

(* HOOK_PERIODIC keeps the invariant, over one core and over all of them. *)
LEMMA PeriodicCoreMid ==
  ASSUME NEW w \in [Threads -> Places \union {"acting"}], NEW h, NEW s, Mid(s, w, h), NoUser(w),
         NEW c \in Cores, NEW delta \in Nat
  PROVE  /\ Mid(PeriodicCore(s, c, delta), w, h) /\ Turns(s, PeriodicCore(s, c, delta))
         /\ PeriodicCore(s, c, delta).lastPeriodic = s.lastPeriodic
<1>1. Movable(s, w, c)
  <2>1. SUFFICES ASSUME NEW t \in Threads, s.running[c] = t PROVE w[t] # "user" /\ s.status[t] # "IDLE"
    BY DEF Movable
  <2>2. Tables(s) /\ Placed(s, w) /\ c # NoCore
    BY Zenon, CoresAndThreads DEF Mid
  <2>3. QED
    BY <2>1, <2>2 DEF NoUser, Tables, Placed
<1>2. s \in Systems /\ s.quantumLeft[c] \in 0 .. Quantum /\ Quantum \in Nat
  BY Zenon, SystemsType, ThreadSystemAssumption DEF Mid
<1>3. CASE delta > s.quantumLeft[c] \/ s.running[c] = NoThread
  <2>1. PeriodicCore(s, c, delta) = RescheduleCore(s, c)
    BY <1>3 DEF PeriodicCore
  <2>2. Mid(RescheduleCore(s, c), w, h) /\ Moves(s, RescheduleCore(s, c), {s.running[c]})
    BY <1>1, RescheduleCoreMid
  <2>3. QED
    BY <2>1, <2>2, MovesTurns
<1>4. CASE ~(delta > s.quantumLeft[c] \/ s.running[c] = NoThread)
  <2>1. PICK n : n = s.quantumLeft[c] - delta
    OBVIOUS
  <2>2. n \in 0 .. Quantum
    BY <1>2, <1>4, <2>1
  <2>3. PeriodicCore(s, c, delta) = [s EXCEPT !.quantumLeft[c] = n]
    BY <1>4, <2>1 DEF PeriodicCore
  <2>4. Same(s, PeriodicCore(s, c, delta))
    BY <1>2, <2>2, <2>3, QuantumIs
  <2>5. QED
    BY <2>4, SameMid, MovesTurns
<1>5. QED
  BY <1>3, <1>4

(* The barrier's time may go on, and the run may fail. *)
Calm(s, r) ==
    /\ r \in Systems /\ SameThreads(s, r) /\ SameTables(s, r) /\ r.clock = s.clock
    /\ r.waiter = s.waiter /\ r.sleeping = s.sleeping /\ r.acquired = s.acquired /\ r.slot = s.slot
    /\ r.fastforward = s.fastforward /\ r.disable = s.disable /\ r.aborted = s.aborted
    /\ r.failed \subseteq {"application deadlocked", "advance spins"}
    /\ s.next <= r.next /\ r.lastPeriodic <= r.next

(* Such a change keeps the invariant. *)
LEMMA CalmMid ==
  ASSUME NEW w, NEW h, NEW s, Mid(s, w, h), NEW r, Calm(s, r)
  PROVE  Mid(r, w, h)
<1>a. r.status = s.status /\ r.reason = s.reason /\ r.runnable = s.runnable /\ r.signalled = s.signalled
  BY Zenon DEF Calm, SameThreads
<1>c. /\ r.core = s.core /\ r.cthread = s.cthread /\ r.cstate = s.cstate
      /\ r.coreRunning = s.coreRunning /\ r.running = s.running
  BY Zenon DEF Calm, SameTables
<1>b. /\ r \in Systems /\ r.clock = s.clock /\ r.acquired = s.acquired /\ r.slot = s.slot
      /\ r.disable = s.disable /\ r.aborted = s.aborted
      /\ r.failed \subseteq {"application deadlocked", "advance spins"}
      /\ r.waiter = s.waiter /\ r.sleeping = s.sleeping
  BY Zenon DEF Calm
<1>n. s.next <= r.next /\ r.lastPeriodic <= r.next
  BY Zenon DEF Calm
<1>k. SameThreads(s, r) /\ r.waiter = s.waiter /\ r.sleeping = s.sleeping
  BY Zenon DEF Calm
<1>m. /\ s \in Systems /\ Tables(s) /\ Placed(s, w) /\ Ready(s) /\ AtPlaces(s, w, h)
      /\ Waits(s, w) /\ Asleep(s, w) /\ InBarrier(s, w, h)
  BY Zenon DEF Mid
<1>2. Tables(r)
  BY <1>m, <1>c DEF Tables
<1>3. Placed(r, w) /\ Ready(r)
  BY <1>m, <1>a, <1>c DEF Placed, Ready
<1>4. AtPlaces(r, w, h)
  BY <1>m, <1>a, <1>c DEF AtPlaces
<1>5. Waits(r, w) /\ Asleep(r, w)
  BY <1>m, <1>k, KeepsThreads
<1>6. InBarrier(r, w, h)
  <2>1. s.next \in Nat /\ r.next \in Nat /\ s.clock \in [Cores -> Nat]
    BY Zenon, <1>m, <1>b, SystemsType
  <2>2. \A c \in Cores : (~s.acquired[c] /\ ~s.aborted) => s.clock[c] < s.next
    BY <1>m DEF InBarrier
  <2>3. ASSUME NEW c \in Cores, ~r.acquired[c], ~r.aborted PROVE r.clock[c] < r.next
    <3>1. r.clock[c] = s.clock[c] /\ s.clock[c] \in Nat /\ s.clock[c] < s.next
      BY Zenon, <2>1, <2>2, <2>3, <1>b
    <3>2. QED
      BY <3>1, <2>1, <1>n
  <2>4. /\ \A c \in Cores : r.acquired[c] =>
             /\ r.slot[c] \in Threads /\ r.slot[c] \notin r.signalled
             /\ w[r.slot[c]] = "barrier" /\ h[r.slot[c]] = c
             /\ r.core[r.slot[c]] = c \/ r.clock[c] = 0
        /\ \A t \in Threads : w[t] = "barrier" =>
             h[t] \in Cores /\ (t \in r.signalled \/ (r.acquired[h[t]] /\ r.slot[h[t]] = t))
        /\ r.disable => \A c \in Cores : ~r.acquired[c]
    <3>1. \A c \in Cores : s.acquired[c] =>
             /\ s.slot[c] \in Threads /\ s.slot[c] \notin s.signalled
             /\ w[s.slot[c]] = "barrier" /\ h[s.slot[c]] = c
             /\ s.core[s.slot[c]] = c \/ s.clock[c] = 0
      BY <1>m DEF InBarrier
    <3>2. \A t \in Threads : w[t] = "barrier" =>
             h[t] \in Cores /\ (t \in s.signalled \/ (s.acquired[h[t]] /\ s.slot[h[t]] = t))
      BY <1>m DEF InBarrier
    <3>3. s.disable => \A c \in Cores : ~s.acquired[c]
      BY <1>m DEF InBarrier
    <3>e. r.acquired = s.acquired /\ r.slot = s.slot /\ r.clock = s.clock /\ r.core = s.core
          /\ r.signalled = s.signalled /\ r.disable = s.disable
      BY Zenon, <1>a, <1>b, <1>c
    <3>4. \A c \in Cores : r.acquired[c] =>
             /\ r.slot[c] \in Threads /\ r.slot[c] \notin r.signalled
             /\ w[r.slot[c]] = "barrier" /\ h[r.slot[c]] = c
             /\ r.core[r.slot[c]] = c \/ r.clock[c] = 0
      BY <3>1, <3>e
    <3>5. \A t \in Threads : w[t] = "barrier" =>
             h[t] \in Cores /\ (t \in r.signalled \/ (r.acquired[h[t]] /\ r.slot[h[t]] = t))
      BY <3>2, <3>e
    <3>6. QED
      BY <3>3, <3>4, <3>5, <3>e
  <2>5. QED
    BY <2>3, <2>4, <1>n DEF InBarrier
<1>7. QED
  BY Zenon, <1>2, <1>3, <1>4, <1>5, <1>6, <1>b DEF Mid

(* The time of the scheduler's last turn. *)
LEMMA LastPeriodicIs ==
  ASSUME NEW w, NEW h, NEW s, Mid(s, w, h), NEW time \in Nat, time <= s.next,
         NEW r, r = [s EXCEPT !.lastPeriodic = time]
  PROVE  Mid(r, w, h) /\ Turns(s, r)
<1>s. s \in Systems /\ s.next \in Nat
  BY Zenon, SystemsType DEF Mid
<1>1. r \in Systems
  BY Zenon, <1>s DEF Systems
<1>a. SameThreads(s, r) /\ SameTables(s, r) /\ r.clock = s.clock /\ r.waiter = s.waiter /\ r.sleeping = s.sleeping
  BY <1>s DEF Systems, SameThreads, SameTables
<1>b. /\ r.lastPeriodic = time /\ r.acquired = s.acquired /\ r.slot = s.slot /\ r.next = s.next
      /\ r.fastforward = s.fastforward /\ r.disable = s.disable /\ r.aborted = s.aborted
      /\ r.failed = s.failed
  BY <1>s DEF Systems
<1>2. s.failed \subseteq {"application deadlocked", "advance spins"}
  BY Zenon DEF Mid
<1>3. Calm(s, r)
  <2>1. s.next <= r.next /\ r.lastPeriodic <= r.next
    BY <1>s, <1>b
  <2>2. QED
    BY Zenon, <2>1, <1>1, <1>2, <1>a, <1>b DEF Calm
<1>4. Turns(s, r)
  <2>1. Signals(s, r)
    BY Zenon, <1>a, SameSignals DEF SameThreads
  <2>2. QED
    BY <2>1, <1>a, <1>b DEF Turns, SameTables
<1>5. QED
  BY <1>3, <1>4, CalmMid

(* HOOK_PERIODIC, with all that its handlers do, keeps the invariant while *)
(* nobody executes.                                                        *)
LEMMA PeriodicMid ==
  ASSUME NEW w \in [Threads -> Places \union {"acting"}], NEW h, NEW s, Mid(s, w, h), NoUser(w)
  PROVE  Mid(Periodic(s, s.next), w, h) /\ Turns(s, Periodic(s, s.next))
<1>1. PICK time : time = s.next
  OBVIOUS
<1>2. PICK delta : delta = time - s.lastPeriodic
  OBVIOUS
<1>3. time \in Nat /\ delta \in Nat
  <2>1. s.next \in Nat /\ s.lastPeriodic \in Nat /\ s.lastPeriodic <= s.next
    BY Zenon, SystemsType DEF Mid, InBarrier
  <2>2. QED
    BY <1>1, <1>2, <2>1
<1>4. PICK woken : woken = WakeSleeper(s, time)
  OBVIOUS
<1>5. Mid(woken, w, h) /\ Turns(s, woken)
  BY <1>4, WakeSleeperMid
<1> DEFINE each(f) == [n \in Nat |-> IF n = 0 THEN woken ELSE PeriodicCore(f[n - 1], n - 1, delta)]
<1>6. \E f : f = each(f)
  <2>1. PICK f : Loops(f, "cores", woken, delta)
    BY LoopDefined
  <2>2. f = each(f)
    BY <2>1 DEF Turn, Loops
  <2>3. QED
    BY <2>2
<1>7. PICK g : g = CHOOSE f : f = each(f)
  OBVIOUS
<1>8. g = each(g)
  BY <1>6, <1>7
<1>9. Periodic(s, time) = [g[Cardinality(Cores)] EXCEPT !.lastPeriodic = time]
  BY <1>2, <1>4, <1>7 DEF Periodic
<1> HIDE DEF each
<1>10. g[0] = woken /\ \A n \in Nat : g[n + 1] = PeriodicCore(g[n], n, delta)
  <2>1. g = [n \in Nat |-> IF n = 0 THEN woken ELSE PeriodicCore(g[n - 1], n - 1, delta)]
    BY <1>8 DEF each
  <2>2. ASSUME NEW n \in Nat PROVE g[n + 1] = PeriodicCore(g[n], n, delta)
    <3>1. n + 1 \in Nat /\ n + 1 # 0 /\ (n + 1) - 1 = n
      OBVIOUS
    <3>2. QED
      BY <2>1, <3>1
  <2>3. g[0] = woken
    BY <2>1
  <2>4. QED
    BY <2>2, <2>3
<1> DEFINE P == {n \in Nat : n <= Cardinality(Cores) => Mid(g[n], w, h) /\ Turns(s, g[n])}
<1>11. 0 \in P
  BY <1>5, <1>10
<1>12. ASSUME NEW n \in Nat, n \in P PROVE n + 1 \in P
  <2>1. SUFFICES ASSUME n + 1 <= Cardinality(Cores) PROVE Mid(g[n + 1], w, h) /\ Turns(s, g[n + 1])
    OBVIOUS
  <2>2. n \in Cores /\ n <= Cardinality(Cores)
    BY <2>1, ThreadSystemAssumption
  <2>3. Mid(g[n], w, h) /\ Turns(s, g[n])
    BY <1>12, <2>2
  <2>4. Mid(PeriodicCore(g[n], n, delta), w, h) /\ Turns(g[n], PeriodicCore(g[n], n, delta))
    BY <1>3, <2>2, <2>3, PeriodicCoreMid
  <2>5. QED
    BY <1>10, <2>3, <2>4, TurnsTransitive
<1> HIDE DEF P
<1>13. Nat \subseteq P
  BY <1>11, <1>12, Induction
<1>14. PICK x : x = g[Cardinality(Cores)]
  OBVIOUS
<1>15. Mid(x, w, h) /\ Turns(s, x)
  BY <1>13, <1>14, ThreadSystemAssumption DEF P
<1>16. time <= x.next
  BY <1>1, <1>3, <1>15 DEF Turns
<1>17. Periodic(s, time) = [x EXCEPT !.lastPeriodic = time]
  BY <1>9, <1>14
<1>18. Mid(Periodic(s, time), w, h) /\ Turns(x, Periodic(s, time))
  BY <1>3, <1>15, <1>16, <1>17, LastPeriodicIs
<1>19. QED
  BY <1>1, <1>15, <1>18, TurnsTransitive

(* What of the barrier the cores and threads agree on, whatever the clocks *)
(* are.                                                                    *)
Clocks(r) ==
    /\ \A c \in Cores : (~r.acquired[c] /\ ~r.aborted) => r.clock[c] < r.next
    /\ r.disable => \A c \in Cores : ~r.acquired[c]
    /\ r.lastPeriodic <= r.next

(* r is s after the cores of S have left the barrier. *)
Leaves(s, r, S, caller) ==
    /\ r \in Systems /\ SameTables(s, r)
    /\ r.status = s.status /\ r.reason = s.reason /\ r.runnable = s.runnable
    /\ r.waiter = s.waiter /\ r.sleeping = s.sleeping
    /\ r.failed \subseteq {"application deadlocked", "advance spins"}
    /\ \A c \in Cores : r.acquired[c] <=> (s.acquired[c] /\ c \notin S)
    /\ \A c \in Cores \ S : r.slot[c] = s.slot[c] /\ r.clock[c] = s.clock[c]
    /\ r.signalled = s.signalled \union ({s.slot[c] : c \in S} \ {caller})

(* The caller of barrierRelease goes on if it is one of the freed. *)
Back(w, caller, gone) == IF gone THEN [w EXCEPT ![caller] = "check"] ELSE w

(* Cores leave the barrier: whoever waited at them is signalled, or is the *)
(* caller.                                                                 *)
LEMMA LeavesMid ==
  ASSUME NEW w \in [Threads -> Places \union {"acting"}], NEW h, NEW s, Mid(s, w, h),
         NEW S \in SUBSET Cores, \A c \in S : s.acquired[c],
         NEW caller \in Threads \union {NoThread}, NEW r, Leaves(s, r, S, caller), Clocks(r),
         NEW gone, gone <=> caller \in {s.slot[c] : c \in S}
  PROVE  Mid(r, Back(w, caller, gone), h)
<1>n. NoThread \notin Threads
  BY CoresAndThreads
<1>1. PICK v : v = Back(w, caller, gone)
  OBVIOUS
<1>m. /\ s \in Systems /\ Tables(s) /\ Placed(s, w) /\ Ready(s) /\ AtPlaces(s, w, h)
      /\ Waits(s, w) /\ Asleep(s, w)
  BY Zenon DEF Mid
<1>i. /\ \A c \in Cores : s.acquired[c] =>
           /\ s.slot[c] \in Threads /\ s.slot[c] \notin s.signalled
           /\ w[s.slot[c]] = "barrier" /\ h[s.slot[c]] = c
           /\ s.core[s.slot[c]] = c \/ s.clock[c] = 0
      /\ \A t \in Threads : w[t] = "barrier" =>
           h[t] \in Cores /\ (t \in s.signalled \/ (s.acquired[h[t]] /\ s.slot[h[t]] = t))
  BY Zenon DEF Mid, InBarrier
<1>a. /\ r.status = s.status /\ r.reason = s.reason /\ r.runnable = s.runnable
      /\ r.waiter = s.waiter /\ r.sleeping = s.sleeping
  BY Zenon DEF Leaves
<1>c. /\ r.core = s.core /\ r.cthread = s.cthread /\ r.cstate = s.cstate
      /\ r.coreRunning = s.coreRunning /\ r.running = s.running
  BY Zenon DEF Leaves, SameTables
<1>l. /\ r \in Systems /\ r.failed \subseteq {"application deadlocked", "advance spins"}
      /\ \A c \in Cores : r.acquired[c] <=> (s.acquired[c] /\ c \notin S)
      /\ \A c \in Cores \ S : r.slot[c] = s.slot[c] /\ r.clock[c] = s.clock[c]
      /\ r.signalled = s.signalled \union ({s.slot[c] : c \in S} \ {caller})
  BY Zenon DEF Leaves
<1>g. gone => caller \in Threads /\ w[caller] = "barrier"
  BY <1>i
<1>2. \A t \in Threads : v[t] = IF gone /\ t = caller THEN "check" ELSE w[t]
  BY <1>1, <1>g DEF Back
<1>3. Tables(r) /\ Ready(r)
  BY <1>m, <1>c, <1>a DEF Tables, Ready
<1>4. Placed(r, v)
  BY <1>m, <1>c, <1>a, <1>2, <1>g DEF Placed
<1>5. AtPlaces(r, v, h)
  <2>1. SUFFICES ASSUME NEW t \in Threads
                 PROVE  /\ v[t] = "none" => s.status[t] = "none" /\ s.coreRunning[t] = NoCore
                        /\ v[t] = "created" => s.status[t] = "INITIALIZING" /\ s.core[t] = s.coreRunning[t]
                        /\ v[t] = "user" => s.status[t] = "RUNNING" /\ s.core[t] = h[t] /\ h[t] \in Cores
                        /\ v[t] = "check" => s.status[t] = "RUNNING"
                             \/ (s.status[t] = "STALLED" /\ s.reason[t] \in {"JOIN", "UNSCHEDULED"})
                        /\ v[t] = "stalled" =>
                             s.status[t] = "STALLED" \/ (s.status[t] = "RUNNING" /\ t \in r.signalled)
                        /\ v[t] \in {"startwait", "barrier"} => s.status[t] = "RUNNING"
                        /\ v[t] = "paused" => s.status[t] = "STALLED" /\ s.reason[t] = "PAUSE"
                        /\ v[t] = "exited" => s.status[t] = "IDLE"
    BY <1>a, <1>c DEF AtPlaces
  <2>2. s.signalled \subseteq r.signalled
    BY Zenon, <1>l
  <2>3. CASE gone /\ t = caller
    <3>1. v[t] = "check" /\ s.status[t] = "RUNNING"
      BY <1>m, <1>2, <1>g, <2>3 DEF AtPlaces
    <3>2. QED
      BY <3>1
  <2>4. CASE ~(gone /\ t = caller)
    BY <1>m, <1>2, <2>2, <2>4 DEF AtPlaces
  <2>5. QED
    BY <2>3, <2>4
<1>6. Waits(r, v)
  <2>0. s.signalled \subseteq r.signalled /\ s.waiter \in [Threads -> Threads \union {NoThread}]
    BY Zenon, <1>l, <1>m, SystemsType
  <2>1. ASSUME NEW t \in Threads, s.waiter[t] # NoThread
        PROVE  \/ v[s.waiter[t]] = "startwait" /\ v[t] \in {"created", "acting"}
               \/ /\ v[s.waiter[t]] \in {"stalled", "acting"}
                  /\ s.status[s.waiter[t]] = "STALLED" /\ s.reason[s.waiter[t]] = "JOIN"
    BY <1>m, <1>2, <1>g, <2>0, <2>1 DEF Waits
  <2>2. \A t, u \in Threads : (s.waiter[t] = s.waiter[u] /\ s.waiter[t] # NoThread) => t = u
    BY <1>m DEF Waits
  <2>3. ASSUME NEW u \in Threads, v[u] = "startwait"
        PROVE  \/ u \in r.signalled
               \/ \E t \in Threads : s.waiter[t] = u /\ v[t] \in {"created", "acting"}
    BY <1>m, <1>2, <1>g, <2>0, <2>3 DEF Waits
  <2>5. ASSUME NEW t \in Threads, s.waiter[t] # NoThread PROVE s.waiter[t] \notin r.signalled
    <3>1. s.waiter[t] \notin s.signalled /\ w[s.waiter[t]] # "barrier"
      BY <1>m, <2>5 DEF Waits
    <3>2. \A c \in S : w[s.slot[c]] = "barrier"
      BY <1>i
    <3>3. r.signalled = s.signalled \union ({s.slot[c] : c \in S} \ {caller})
      BY Zenon, <1>l
    <3>4. QED
      BY <3>1, <3>2, <3>3
  <2>4. QED
    BY <2>1, <2>2, <2>3, <2>5, <1>a DEF Waits
<1>7. Asleep(r, v)
  <2>1. \A i \in DOMAIN s.sleeping : s.sleeping[i] \in Threads
    BY <1>m, SystemsType, ElementOfSeq, LenProperties
  <2>2. QED
    BY <1>m, <1>2, <1>g, <1>a, <2>1 DEF Asleep
<1>8. InBarrier(r, v, h)
  <2>1. ASSUME NEW c \in Cores, r.acquired[c]
        PROVE  /\ r.slot[c] \in Threads /\ r.slot[c] \notin r.signalled
               /\ v[r.slot[c]] = "barrier" /\ h[r.slot[c]] = c
               /\ r.core[r.slot[c]] = c \/ r.clock[c] = 0
    <3>1. /\ s.acquired[c] /\ c \notin S /\ r.slot[c] = s.slot[c] /\ r.clock[c] = s.clock[c]
      BY Zenon, <1>l, <2>1
    <3>2. \A d \in S : s.slot[d] # s.slot[c]
      BY <1>i, <3>1
    <3>3. r.slot[c] \notin r.signalled
      <4>1. s.slot[c] \notin s.signalled
        BY <1>i, <3>1
      <4>2. r.signalled = s.signalled \union ({s.slot[d] : d \in S} \ {caller})
        BY Zenon, <1>l
      <4>3. s.slot[c] \notin {s.slot[d] : d \in S}
        BY <3>2
      <4>4. QED
        BY <3>1, <4>1, <4>2, <4>3
    <3>4. v[s.slot[c]] = "barrier"
      BY <1>i, <1>2, <3>1, <3>2
    <3>5. QED
      BY <1>i, <1>c, <3>1, <3>3, <3>4
  <2>2. ASSUME NEW t \in Threads, v[t] = "barrier"
        PROVE  h[t] \in Cores /\ (t \in r.signalled \/ (r.acquired[h[t]] /\ r.slot[h[t]] = t))
    <3>1. w[t] = "barrier" /\ h[t] \in Cores /\ ~(gone /\ t = caller)
      BY <1>2, <1>i, <2>2
    <3>2. CASE t \in s.signalled
      BY Zenon, <1>l, <3>1, <3>2
    <3>3. CASE s.acquired[h[t]] /\ s.slot[h[t]] = t /\ h[t] \in S
      <4>1. t \in {s.slot[c] : c \in S} /\ t # caller
        BY <3>1, <3>3
      <4>2. QED
        BY Zenon, <1>l, <3>1, <4>1
    <3>4. CASE s.acquired[h[t]] /\ s.slot[h[t]] = t /\ h[t] \notin S
      BY Zenon, <1>l, <3>1, <3>4
    <3>5. QED
      BY <1>i, <3>1, <3>2, <3>3, <3>4
  <2>3. QED
    BY <2>1, <2>2 DEF Clocks, InBarrier
<1>9. Mid(r, v, h)
  BY Zenon, <1>3, <1>4, <1>5, <1>6, <1>7, <1>8, <1>l DEF Mid
<1>10. QED
  BY <1>1, <1>9

(* The barrier let somebody go on: the caller, or threads it has signalled. *)
Freed(s, r, w, h, caller) ==
    /\ Settled(r.s) /\ Held(r.s) /\ Mid(r.s, Back(w, caller, ~r.wait), h) /\ Signals(s, r.s)
    /\ ~r.wait => caller \in Threads /\ w[caller] = "barrier"
    /\ r.wait => \E t \in Threads : w[t] = "barrier" /\ t \in r.s.signalled
    /\ \A c \in Cores : (s.acquired[c] /\ s.slot[c] = caller) => caller \notin r.s.signalled
    /\ \E c \in Cores : s.acquired[c]

(* It comes back without having freed anybody. *)
Unmoved(s, r, w, h) ==
    /\ Mid(r.s, w, h) /\ Settled(r.s) /\ Signals(s, r.s)
    /\ r.s.acquired = s.acquired /\ r.s.slot = s.slot

(* The modes of the barrier are the same. *)
SameModes(s, r) ==
    r.fastforward = s.fastforward /\ r.disable = s.disable /\ r.aborted = s.aborted

(* How one round of barrierRelease ends: the loop goes on with a later time, *)
(* somebody has been freed, or the caller did not ask for somebody to be.    *)
After(s, r, w, h, caller, cont) ==
    /\ SameModes(s, r.s) /\ r.wait \in BOOLEAN
    /\ r.again => r.wait /\ Unmoved(s, r, w, h) /\ r.s.next = s.next + 1
    /\ ~r.again => \/ Freed(s, r, w, h, caller)
                   \/ (cont \/ s.disable) /\ Unmoved(s, r, w, h)

(* A number is at most itself. *)
LEMMA AtMostItself == \A m \in Nat : m <= m
OBVIOUS

(* A state with other failures is a state. *)
LEMMA FailedType ==
  ASSUME NEW s \in Systems, NEW f, f \in SUBSET Assertions
  PROVE  [s EXCEPT !.failed = f] \in Systems
BY Zenon DEF Systems

(* A state with another barrier is a state. *)
LEMMA LeftType ==
  ASSUME NEW s \in Systems, NEW acquired \in [Cores -> BOOLEAN],
         NEW slot \in [Cores -> Threads \union {NoThread}], NEW signalled, signalled \in SUBSET Threads
  PROVE  [s EXCEPT !.acquired = acquired, !.slot = slot, !.signalled = signalled] \in Systems
BY Zenon DEF Systems

(* The next quantum begins; or an assertion of the barrier fails. *)
NextOf(s) == [s EXCEPT !.next = @ + 1]

(* Nothing of the barrier has changed but its time. *)
SameBarrier(s, q) ==
    /\ SameModes(s, q) /\ SameTables(s, q) /\ q.acquired = s.acquired /\ q.slot = s.slot
    /\ q.clock = s.clock /\ q.signalled = s.signalled /\ Signals(s, q)

(* The next quantum keeps the invariant. *)
LEMMA NextIs ==
  ASSUME NEW w, NEW h, NEW s, Mid(s, w, h)
  PROVE  /\ Mid(NextOf(s), w, h) /\ SameBarrier(s, NextOf(s))
         /\ NextOf(s).next = s.next + 1 /\ NextOf(s).lastPeriodic <= NextOf(s).next
<1>q. PICK q : q = [s EXCEPT !.next = @ + 1]
  BY Zenon
<1>s. s \in Systems /\ s.next \in Nat /\ s.lastPeriodic \in Nat /\ s.lastPeriodic <= s.next
  BY Zenon, SystemsType DEF Mid, InBarrier
<1>1. PICK n : n = s.next + 1
  OBVIOUS
<1>2. n \in Nat \ {0} /\ q = [s EXCEPT !.next = n]
  BY <1>s, <1>1, <1>q
<1>3. q \in Systems
  BY Zenon, <1>s, <1>2 DEF Systems
<1>4. SameThreads(s, q) /\ SameTables(s, q) /\ SameModes(s, q)
  BY <1>s, <1>2 DEF Systems, SameThreads, SameTables, SameModes
<1>5. /\ q.clock = s.clock /\ q.waiter = s.waiter /\ q.sleeping = s.sleeping /\ q.acquired = s.acquired
      /\ q.slot = s.slot /\ q.failed = s.failed /\ q.lastPeriodic = s.lastPeriodic /\ q.next = n
  BY <1>s, <1>2 DEF Systems
<1>6. s.next <= q.next /\ q.lastPeriodic <= q.next
  BY <1>s, <1>1, <1>5
<1>7. Calm(s, q)
  <2>1. s.failed \subseteq {"application deadlocked", "advance spins"}
    BY Zenon DEF Mid
  <2>2. QED
    BY Zenon, <2>1, <1>3, <1>4, <1>5, <1>6 DEF Calm, SameModes
<1>8. Mid(q, w, h) /\ SameBarrier(s, q)
  BY <1>4, <1>5, <1>7, CalmMid, SameSignals DEF SameThreads, SameBarrier
<1>9. QED
  BY <1>q, <1>1, <1>5, <1>6, <1>8 DEF NextOf

(* So do the two failures that are no mistake of the servers. *)
LEMMA FailMid ==
  ASSUME NEW w, NEW h, NEW s, Mid(s, w, h), NEW what, what \in {"application deadlocked", "advance spins"}
  PROVE  /\ Mid(Fail(s, what), w, h) /\ SameBarrier(s, Fail(s, what))
         /\ Fail(s, what).next = s.next /\ Fail(s, what).failed # {}
<1>r. PICK r : r = Fail(s, what)
  BY Zenon
<1>s. s \in Systems /\ s.next \in Nat /\ s.failed \in SUBSET Assertions
  BY Zenon, SystemsType DEF Mid
<1>n. s.next \in Nat /\ s.lastPeriodic \in Nat
  BY Zenon, SystemsType DEF Mid
<1>f. s.failed \subseteq {"application deadlocked", "advance spins"}
  BY Zenon DEF Mid
<1>1. PICK f : f = s.failed \union {what}
  BY Zenon
<1>2. f \in SUBSET Assertions /\ f \subseteq {"application deadlocked", "advance spins"} /\ f # {}
  BY Zenon, <1>s, <1>f, <1>1 DEF Assertions
<1>3. r = [s EXCEPT !.failed = f]
  BY Zenon, <1>1, <1>r DEF Fail
<1>4. r \in Systems
  <2>1. s \in Systems /\ f \in SUBSET Assertions
    BY Zenon, <1>s, <1>2
  <2>2. QED
    BY Zenon, <2>1, <1>3, FailedType
<1>5. SameThreads(s, r) /\ SameTables(s, r) /\ SameModes(s, r)
  BY Zenon, <1>s, <1>3 DEF Systems, SameThreads, SameTables, SameModes
<1>6. /\ r.clock = s.clock /\ r.waiter = s.waiter /\ r.sleeping = s.sleeping /\ r.acquired = s.acquired
      /\ r.slot = s.slot /\ r.failed = f /\ r.lastPeriodic = s.lastPeriodic /\ r.next = s.next
  BY Zenon, <1>s, <1>3 DEF Systems
<1>7. Calm(s, r)
  <2>0. s.lastPeriodic <= s.next
    BY Zenon DEF Mid, InBarrier
  <2>1. s.next <= r.next /\ r.lastPeriodic <= r.next
    <3>1. PICK m \in Nat : m = s.next
      BY Zenon, <1>n
    <3>2. PICK l \in Nat : l = s.lastPeriodic
      BY Zenon, <1>n
    <3>3. l <= m
      BY Zenon, <2>0, <3>1, <3>2
    <3>4. m <= m
      BY Zenon, AtMostItself
    <3>5. r.next = m /\ r.lastPeriodic = l
      BY Zenon, <1>6, <3>1, <3>2
    <3>6. QED
      BY Zenon, <3>1, <3>3, <3>4, <3>5
  <2>2. QED
    BY Zenon, <2>1, <1>2, <1>4, <1>5, <1>6 DEF Calm, SameModes
<1>8. Mid(r, w, h) /\ SameBarrier(s, r)
  BY Zenon, <1>5, <1>6, <1>7, CalmMid, SameSignals DEF SameThreads, SameBarrier
<1>9. QED
  BY Zenon, <1>r, <1>2, <1>6, <1>8

(* Whoever is still in the barrier after its time has gone on is where it *)
(* was seen last.                                                         *)
LEMMA StillHeld ==
  ASSUME NEW w, NEW h, NEW s, Mid(s, w, h), \A c \in Cores : s.acquired[c] => s.clock[c] >= s.next
  PROVE  Held(s)
<1>1. s.next \in Nat \ {0} /\ s.clock \in [Cores -> Nat]
  BY Zenon, SystemsType DEF Mid
<1>2. ASSUME NEW c \in Cores, s.acquired[c] PROVE s.core[s.slot[c]] = c
  <2>1. s.clock[c] >= s.next /\ s.clock[c] \in Nat
    BY <1>1, <1>2
  <2>2. s.clock[c] # 0
    BY <1>1, <2>1
  <2>3. s.core[s.slot[c]] = c \/ s.clock[c] = 0
    BY Zenon, <1>2 DEF Mid, InBarrier
  <2>4. QED
    BY <2>2, <2>3
<1>3. QED
  BY <1>2 DEF Held

(* The cores of S leave the barrier, and their clocks are reset. *)
Freeing(q, S, caller) ==
    LeaveBarrier([q EXCEPT !.clock = [c \in Cores |-> IF c \in S THEN 0 ELSE @[c]]], S, caller)

(* What this changes. *)
Frees(q, r, S, caller) ==
    /\ Leaves(q, r, S, caller) /\ SameModes(q, r) /\ r.next = q.next
    /\ r.lastPeriodic = q.lastPeriodic /\ \A c \in S : r.clock[c] = 0

(* It changes this. *)
LEMMA FreeIs ==
  ASSUME NEW q \in Systems, NEW S \in SUBSET Cores, NEW caller \in Threads \union {NoThread},
         \A c \in S : q.acquired[c] /\ q.slot[c] \in Threads,
         q.failed \subseteq {"application deadlocked", "advance spins"}
  PROVE  Frees(q, Freeing(q, S, caller), S, caller)
<1>r. PICK r : r = LeaveBarrier([q EXCEPT !.clock = [c \in Cores |-> IF c \in S THEN 0 ELSE @[c]]], S, caller)
  BY Zenon
<1>t. /\ q.acquired \in [Cores -> BOOLEAN] /\ q.clock \in [Cores -> Nat]
      /\ q.slot \in [Cores -> Threads \union {NoThread}] /\ q.signalled \in SUBSET Threads
  BY Zenon, SystemsType
<1>1. PICK clock : clock = [c \in Cores |-> IF c \in S THEN 0 ELSE q.clock[c]]
  BY Zenon
<1>2. PICK acquired : acquired = [c \in Cores |-> q.acquired[c] /\ c \notin S]
  BY Zenon
<1>3. PICK slot : slot = [c \in Cores |-> IF c \in S THEN NoThread ELSE q.slot[c]]
  BY Zenon
<1>4. PICK signalled : signalled = q.signalled \union ({q.slot[c] : c \in S} \ {caller})
  BY Zenon
<1>5. PICK a : a = [q EXCEPT !.clock = clock]
  BY Zenon
<1>6. a.acquired = q.acquired /\ a.slot = q.slot /\ a.signalled = q.signalled /\ a.clock = clock /\ a \in Systems
  <2>1. clock \in [Cores -> Nat]
    BY Zenon, <1>t, <1>1
  <2>2. QED
    BY Zenon, <1>5, <2>1 DEF Systems
<1>7. r = [a EXCEPT !.acquired = acquired, !.slot = slot, !.signalled = signalled]
  <2>1. r = LeaveBarrier(a, S, caller)
    BY Zenon, <1>r, <1>1, <1>5
  <2>2. /\ acquired = [c \in Cores |-> a.acquired[c] /\ c \notin S]
        /\ slot = [c \in Cores |-> IF c \in S THEN NoThread ELSE a.slot[c]]
        /\ signalled = a.signalled \union ({a.slot[c] : c \in S} \ {caller})
    BY Zenon, <1>2, <1>3, <1>4, <1>6
  <2>3. QED
    BY Zenon, <2>1, <2>2 DEF LeaveBarrier
<1>8. acquired \in [Cores -> BOOLEAN] /\ slot \in [Cores -> Threads \union {NoThread}] /\ signalled \in SUBSET Threads
  BY Zenon, <1>t, <1>2, <1>3, <1>4
<1>9. r \in Systems
  <2>1. a \in Systems
    BY Zenon, <1>6
  <2>2. QED
    <3>1. [a EXCEPT !.acquired = acquired, !.slot = slot, !.signalled = signalled] \in Systems
      BY ONLY Zenon, <2>1, <1>8, LeftType
    <3>2. QED
      BY Zenon, <1>7, <3>1
<1>10. r.acquired = acquired /\ r.slot = slot /\ r.signalled = signalled /\ r.clock = clock
  <2>1. a \in Systems /\ a.clock = clock
    BY Zenon, <1>6
  <2>2. QED
    BY Zenon, <2>1, <1>7 DEF Systems
<1>11. /\ a.status = q.status /\ a.reason = q.reason /\ a.runnable = q.runnable /\ a.waiter = q.waiter
       /\ a.sleeping = q.sleeping /\ a.failed = q.failed /\ a.next = q.next /\ a.lastPeriodic = q.lastPeriodic
       /\ SameModes(q, a) /\ SameTables(q, a)
  BY Zenon, <1>5 DEF Systems, SameModes, SameTables
<1>12. /\ r.status = a.status /\ r.reason = a.reason /\ r.runnable = a.runnable /\ r.waiter = a.waiter
       /\ r.sleeping = a.sleeping /\ r.failed = a.failed /\ r.next = a.next /\ r.lastPeriodic = a.lastPeriodic
       /\ SameModes(a, r) /\ SameTables(a, r)
  <2>1. a \in Systems
    BY Zenon, <1>6
  <2>2. QED
    BY Zenon, <2>1, <1>7 DEF Systems, SameModes, SameTables
<1>13. SameModes(q, r) /\ SameTables(q, r)
  BY Zenon, <1>11, <1>12 DEF SameModes, SameTables
<1>14. /\ \A c \in Cores : r.acquired[c] <=> (q.acquired[c] /\ c \notin S)
       /\ \A c \in Cores \ S : r.slot[c] = q.slot[c] /\ r.clock[c] = q.clock[c]
       /\ \A c \in S : r.clock[c] = 0
  <2>1. ASSUME NEW c \in Cores PROVE r.acquired[c] <=> (q.acquired[c] /\ c \notin S)
    BY Zenon, <1>2, <1>10
  <2>2. ASSUME NEW c \in Cores \ S PROVE r.slot[c] = q.slot[c] /\ r.clock[c] = q.clock[c]
    BY Zenon, <1>1, <1>3, <1>10
  <2>3. ASSUME NEW c \in S PROVE r.clock[c] = 0
    BY Zenon, <1>1, <1>10
  <2>4. QED
    BY Zenon, <2>1, <2>2, <2>3
<1>15. Leaves(q, r, S, caller)
  BY Zenon, <1>4, <1>9, <1>10, <1>11, <1>12, <1>13, <1>14 DEF Leaves
<1>16. QED
  BY Zenon, <1>r, <1>11, <1>12, <1>13, <1>14, <1>15 DEF Frees, Freeing

(* When the time has gone on, the cores it frees let somebody go on. *)
LEMMA FreedAfter ==
  ASSUME NEW w \in [Threads -> Places \union {"acting"}], NEW h, NEW s, Mid(s, w, h), Settled(s),
         NEW caller \in Threads \union {NoThread}, NEW q, q = NextOf(s),
         NEW S, S = {c \in Cores : q.acquired[c] /\ q.clock[c] < q.next}, S # {},
         NEW r, r.s = Freeing(q, S, caller),
         r.wait <=> (\A c \in S : q.slot[c] # caller)
  PROVE  SameModes(s, r.s) /\ Freed(s, r, w, h, caller)
<1>1. /\ Mid(q, w, h) /\ SameModes(s, q) /\ SameTables(s, q) /\ q.acquired = s.acquired /\ q.slot = s.slot
      /\ q.clock = s.clock /\ q.next = s.next + 1 /\ q.signalled = s.signalled
      /\ q.lastPeriodic <= q.next
  BY NextIs DEF SameBarrier
<1>2. /\ q \in Systems /\ q.failed \subseteq {"application deadlocked", "advance spins"}
      /\ \A c \in Cores : q.acquired[c] =>
           q.slot[c] \in Threads /\ w[q.slot[c]] = "barrier" /\ h[q.slot[c]] = c
      /\ \A c \in Cores : (~q.acquired[c] /\ ~q.aborted) => q.clock[c] < q.next
      /\ q.disable => \A c \in Cores : ~q.acquired[c]
  BY Zenon, <1>1 DEF Mid, InBarrier
<1>3. S \in SUBSET Cores /\ \A c \in S : q.acquired[c] /\ q.slot[c] \in Threads
  BY Zenon, <1>2
<1>4. PICK x : x = r.s
  OBVIOUS
<1>5. /\ Leaves(q, x, S, caller) /\ SameModes(q, x) /\ x.next = q.next
      /\ x.lastPeriodic = q.lastPeriodic /\ \A c \in S : x.clock[c] = 0
  <2>1. q \in Systems /\ q.failed \subseteq {"application deadlocked", "advance spins"}
    BY Zenon, <1>2
  <2>2. Frees(q, Freeing(q, S, caller), S, caller)
    BY Zenon, <1>3, <2>1, FreeIs
  <2>3. QED
    BY <1>4, <2>2 DEF Frees
<1>t. /\ q.next \in Nat \ {0} /\ x.next \in Nat \ {0} /\ q.clock \in [Cores -> Nat] /\ q.acquired \in [Cores -> BOOLEAN]
  BY Zenon, <1>2, <1>5, SystemsType
<1>6. /\ \A c \in Cores : x.acquired[c] <=> (q.acquired[c] /\ c \notin S)
      /\ \A c \in Cores \ S : x.slot[c] = q.slot[c] /\ x.clock[c] = q.clock[c]
      /\ x.signalled = q.signalled \union ({q.slot[c] : c \in S} \ {caller})
      /\ SameTables(q, x) /\ x \in Systems
  BY Zenon, <1>5 DEF Leaves
<1>7. Clocks(x)
  <2>1. ASSUME NEW c \in Cores, ~x.acquired[c], ~x.aborted PROVE x.clock[c] < x.next
    <3>1. CASE c \in S
      <4>1. x.clock[c] = 0
        BY <1>5, <3>1
      <4>2. QED
        BY <4>1, <1>t
    <3>2. CASE c \notin S
      <4>1. ~q.acquired[c] /\ ~q.aborted /\ x.clock[c] = q.clock[c]
        BY <1>5, <1>6, <2>1, <3>2 DEF SameModes
      <4>2. QED
        BY Zenon, <1>2, <1>5, <4>1
    <3>3. QED
      BY <3>1, <3>2
  <2>2. x.disable => \A c \in Cores : ~x.acquired[c]
    BY Zenon, <1>2, <1>5, <1>6 DEF SameModes
  <2>3. x.lastPeriodic <= x.next
    BY <1>1, <1>5
  <2>4. QED
    BY <2>1, <2>2, <2>3 DEF Clocks
<1>8. \A c \in Cores : x.acquired[c] => x.clock[c] >= x.next
  <2>1. SUFFICES ASSUME NEW c \in Cores, x.acquired[c] PROVE x.clock[c] >= x.next
    OBVIOUS
  <2>2. q.acquired[c] /\ c \notin S /\ x.clock[c] = q.clock[c]
    BY <1>6, <2>1
  <2>3. ~(q.clock[c] < q.next)
    BY <2>2
  <2>4. QED
    BY <2>2, <2>3, <1>t, <1>5
<1>9. (~r.wait) <=> caller \in {q.slot[c] : c \in S}
  OBVIOUS
<1>11. Mid(x, Back(w, caller, ~r.wait), h)
  <2>1. PICK gone : gone = (caller \in {q.slot[c] : c \in S})
    OBVIOUS
  <2>2. \A c \in S : q.acquired[c]
    BY <1>3
  <2>3. Mid(x, Back(w, caller, gone), h)
    <3>1. gone <=> caller \in {q.slot[c] : c \in S}
      BY Zenon, <2>1
    <3>2. Mid(q, w, h) /\ Leaves(q, x, S, caller) /\ S \in SUBSET Cores
      BY <1>1, <1>3, <1>5
    <3>3. w \in [Threads -> Places \union {"acting"}] /\ caller \in Threads \union {NoThread}
      OBVIOUS
    <3>4. QED
      BY ONLY <3>1, <3>2, <3>3, <2>2, <1>7, LeavesMid
  <2>4. Back(w, caller, gone) = Back(w, caller, ~r.wait)
    BY Zenon, <1>9, <2>1 DEF Back
  <2>5. QED
    BY <2>3, <2>4
<1>12. Held(x)
  BY <1>8, <1>11, StillHeld
<1>13. Settled(x)
  BY <1>1, <1>6 DEF Settled, SameTables
<1>14. ~r.wait => caller \in Threads /\ w[caller] = "barrier"
  <2>1. SUFFICES ASSUME ~r.wait PROVE caller \in Threads /\ w[caller] = "barrier"
    OBVIOUS
  <2>2. PICK c \in S : caller = q.slot[c]
    BY <1>9, <2>1
  <2>3. c \in Cores /\ q.acquired[c]
    BY <1>3
  <2>4. QED
    BY Zenon, <1>2, <2>2, <2>3
<1>15. r.wait => \E t \in Threads : w[t] = "barrier" /\ t \in x.signalled
  <2>1. PICK c \in S : TRUE
    OBVIOUS
  <2>2. q.slot[c] \in Threads /\ w[q.slot[c]] = "barrier"
    BY Zenon, <1>2, <1>3, <2>1
  <2>3. r.wait => q.slot[c] \in x.signalled
    BY <1>6, <2>1
  <2>4. QED
    BY <2>2, <2>3
<1>16. \E c \in Cores : s.acquired[c]
  BY <1>1, <1>3
<1>17. SameModes(s, x)
  BY <1>1, <1>5 DEF SameModes
<1>19. Signals(s, x)
  <2>1. \A c \in S : q.status[q.slot[c]] = "RUNNING"
    <3>1. SUFFICES ASSUME NEW c \in S PROVE q.status[q.slot[c]] = "RUNNING"
      OBVIOUS
    <3>2. q.slot[c] \in Threads /\ w[q.slot[c]] = "barrier"
      BY Zenon, <1>2, <1>3
    <3>3. AtPlaces(q, w, h)
      BY Zenon, <1>1 DEF Mid
    <3>4. QED
      BY <3>2, <3>3 DEF AtPlaces
  <2>2. Signals(q, x)
    <3>1. /\ x.status = q.status /\ x.reason = q.reason /\ x.runnable = q.runnable
          /\ x.waiter = q.waiter /\ x.sleeping = q.sleeping
      BY Zenon, <1>5 DEF Leaves
    <3>2. QED
      BY <2>1, <3>1, <1>6 DEF Signals, Rests, Sleepers
  <2>3. Signals(s, q)
    BY NextIs DEF SameBarrier
  <2>4. QED
    BY <2>2, <2>3, SignalsTransitive
<1>20. ASSUME NEW c \in Cores, s.acquired[c], s.slot[c] = caller PROVE caller \notin x.signalled
  <2>1. caller \notin s.signalled
    BY Zenon, <1>20 DEF Mid, InBarrier
  <2>2. QED
    BY <1>1, <1>6, <2>1
<1>18. QED
  BY <1>4, <1>19, <1>20, <1>11, <1>12, <1>13, <1>14, <1>15, <1>16, <1>17 DEF Freed

(* One round of barrierRelease after HOOK_PERIODIC. *)
LEMMA AfterPeriodicEnd ==
  ASSUME NEW w \in [Threads -> Places \union {"acting"}], NEW h, NEW s, Mid(s, w, h), Settled(s),
         NEW caller \in Threads \union {NoThread}, NEW cont \in BOOLEAN,
         NEW r, r = AfterPeriodic(s, caller, cont)
  PROVE  After(s, r, w, h, caller, cont)
<1>s. s \in Systems
  BY Zenon DEF Mid
<1>1. PICK q : q = NextOf(s)
  OBVIOUS
<1>2. PICK S : S = {c \in Cores : q.acquired[c] /\ q.clock[c] < q.next}
  BY Zenon
<1>3. /\ Mid(q, w, h) /\ SameModes(s, q) /\ SameTables(s, q) /\ q.acquired = s.acquired /\ q.next = s.next + 1
      /\ Signals(s, q) /\ q.slot = s.slot
  BY <1>1, NextIs DEF SameBarrier
<1>4. CASE cont /\ AnyThreadRunning(s)
  <2>1. r = Answer(s, FALSE, FALSE)
    BY <1>4 DEF AfterPeriodic
  <2>2. QED
    <3>1. r.s = s /\ r.wait = FALSE /\ r.again = FALSE
      BY <2>1 DEF Answer
    <3>2. SameModes(s, r.s) /\ Unmoved(s, r, w, h)
      BY <3>1, SameSignals DEF SameModes, Unmoved
    <3>3. QED
      BY Zenon, <1>4, <3>1, <3>2 DEF After
<1>5. CASE ~(cont /\ AnyThreadRunning(s)) /\ cont /\ Sleepers(s) = {}
  <2>1. PICK x : x = Fail(s, "application deadlocked")
    BY Zenon
  <2>2. r = Answer(x, FALSE, FALSE)
    BY Zenon, <1>5, <2>1 DEF AfterPeriodic
  <2>3. Mid(x, w, h) /\ SameModes(s, x) /\ SameTables(s, x) /\ x.acquired = s.acquired /\ Signals(s, x)
        /\ x.slot = s.slot
    <3>1. "application deadlocked" \in {"application deadlocked", "advance spins"}
      OBVIOUS
    <3>2. Mid(Fail(s, "application deadlocked"), w, h) /\ SameBarrier(s, Fail(s, "application deadlocked"))
      BY Zenon, <3>1, FailMid
    <3>3. QED
      BY Zenon, <2>1, <3>2 DEF SameBarrier
  <2>4. r.s = x /\ r.wait = FALSE /\ r.again = FALSE
    BY <2>2 DEF Answer
  <2>5. Settled(x)
    BY <2>3 DEF Settled, SameTables
  <2>6. SameModes(s, r.s) /\ Unmoved(s, r, w, h)
    BY <2>3, <2>4, <2>5 DEF Unmoved
  <2>7. QED
    BY Zenon, <1>5, <2>4, <2>6 DEF After
<1>6. CASE ~(cont /\ AnyThreadRunning(s)) /\ ~(cont /\ Sleepers(s) = {}) /\ s.disable
  <2>1. r = Answer(s, FALSE, FALSE)
    BY Zenon, <1>6 DEF AfterPeriodic
  <2>2. QED
    <3>1. r.s = s /\ r.wait = FALSE /\ r.again = FALSE
      BY <2>1 DEF Answer
    <3>2. SameModes(s, r.s) /\ Unmoved(s, r, w, h)
      BY <3>1, SameSignals DEF SameModes, Unmoved
    <3>3. QED
      BY Zenon, <1>6, <3>1, <3>2 DEF After
<1>7. CASE ~(cont /\ AnyThreadRunning(s)) /\ ~(cont /\ Sleepers(s) = {}) /\ ~s.disable /\ S = {}
  <2>1. r = Answer(q, TRUE, TRUE)
    BY Zenon, <1>1, <1>2, <1>7 DEF AfterPeriodic, NextOf
  <2>2. QED
    BY <1>3, <2>1 DEF Answer, After, Unmoved, Settled, SameTables
<1>8. CASE ~(cont /\ AnyThreadRunning(s)) /\ ~(cont /\ Sleepers(s) = {}) /\ ~s.disable /\ S # {}
  <2>1. PICK x : x = Freeing(q, S, caller)
    OBVIOUS
  <2>2. r = Answer(x, \A c \in S : q.slot[c] # caller, FALSE)
    BY Zenon, <1>1, <1>2, <1>8, <2>1 DEF AfterPeriodic, NextOf, Freeing
  <2>3. r.s = x /\ r.wait = (\A c \in S : q.slot[c] # caller) /\ r.again = FALSE
    BY <2>2 DEF Answer
  <2>a. r.wait <=> (\A c \in S : q.slot[c] # caller)
    BY <2>3
  <2>b. S # {} /\ r.s = x
    BY <1>8, <2>3
  <2>4. SameModes(s, r.s) /\ Freed(s, r, w, h, caller)
    BY <1>1, <1>2, <2>1, <2>a, <2>b, FreedAfter
  <2>5. r.wait \in BOOLEAN
    BY <2>3
  <2>6. QED
    BY <2>3, <2>4, <2>5 DEF After
<1>9. QED
  BY <1>4, <1>5, <1>6, <1>7, <1>8

(* HOOK_PERIODIC leaves no promise behind. *)
LEMMA TurnsSettled ==
  ASSUME NEW s, Settled(s), NEW r \in Systems, Turns(s, r)
  PROVE  Settled(r)
<1>1. r.core \in [Threads -> Cores \union {NoCore}] /\ r.coreRunning \in [Threads -> Cores \union {NoCore}]
  BY SystemsType
<1>2. \A t \in Threads : r.core[t] = r.coreRunning[t]
  BY DEF Turns, Settled
<1>3. QED
  BY <1>1, <1>2 DEF Settled

(* In fast-forward mode the barrier's time is first raised to the latest *)
(* clock.                                                                *)
LEMMA LatestClock ==
  ASSUME NEW s \in Systems
  PROVE  LET times == {s.next} \union {s.clock[c] : c \in Cores}
         IN  \E m \in times : \A n \in times : m >= n
<1> DEFINE times(k) == {s.next} \union {s.clock[c] : c \in {c \in Cores : c < k}}
           P == {k \in Nat : \E m \in times(k) : \A n \in times(k) : m >= n}
<1>t. s.next \in Nat /\ \A c \in Cores : s.clock[c] \in Nat
  BY SystemsType
<1>1. 0 \in P
  <2>1. times(0) = {s.next}
    BY ThreadSystemAssumption
  <2>2. s.next >= s.next
    BY <1>t
  <2>3. QED
    BY <2>1, <2>2
<1>2. ASSUME NEW k \in Nat, k \in P PROVE k + 1 \in P
  <2>1. PICK m \in times(k) : \A n \in times(k) : m >= n
    BY <1>2
  <2>2. m \in Nat
    BY <1>t
  <2>3. CASE k \in Cores
    <3>1. times(k + 1) = times(k) \union {s.clock[k]}
      <4>1. {c \in Cores : c < k + 1} = {c \in Cores : c < k} \union {k}
        BY <2>3, ThreadSystemAssumption
      <4>2. QED
        BY <4>1
    <3>2. PICK x \in Nat : x = s.clock[k]
      BY <1>t, <2>3
    <3>3. CASE m >= x
      <4>1. m \in times(k + 1) /\ \A n \in times(k + 1) : m >= n
        BY Zenon, <2>1, <3>1, <3>2, <3>3
      <4>2. QED
        BY <4>1
    <3>4. CASE ~(m >= x)
      <4>1. x \in times(k + 1) /\ \A n \in times(k) : n \in Nat
        BY <1>t, <3>1, <3>2
      <4>2. \A n \in times(k) : x >= n
        <5>1. SUFFICES ASSUME NEW n \in times(k) PROVE x >= n
          OBVIOUS
        <5>2. PICK i : i = n
          OBVIOUS
        <5>3. i \in Nat /\ m >= i
          BY <2>1, <4>1, <5>2
        <5>4. x >= i
          BY ONLY <2>2, <3>2, <3>4, <5>3
        <5>5. QED
          BY <5>2, <5>4
      <4>3. x >= x
        BY <3>2
      <4>4. \A n \in times(k + 1) : x >= n
        BY <3>1, <3>2, <4>2, <4>3
      <4>5. QED
        BY <4>1, <4>4
    <3>5. QED
      BY <3>3, <3>4
  <2>4. CASE k \notin Cores
    <3>1. {c \in Cores : c < k + 1} = {c \in Cores : c < k}
      BY <2>4, ThreadSystemAssumption
    <3>2. times(k + 1) = times(k)
      BY <3>1
    <3>3. \E l \in times(k + 1) : \A n \in times(k + 1) : l >= n
      BY Zenon, <1>2, <3>2
    <3>4. QED
      BY SMTT(20), <3>3
  <2>5. QED
    BY <2>3, <2>4
<1>3. Nat \subseteq P
  <2> HIDE DEF P
  <2>1. QED
    BY <1>1, <1>2, Induction
<1>4. PICK k \in Nat : k = Cardinality(Cores)
  BY ThreadSystemAssumption
<1>5. {c \in Cores : c < k} = Cores
  BY <1>4, ThreadSystemAssumption
<1>6. k \in P
  BY Zenon, <1>3
<1>7. QED
  BY <1>5, <1>6

(* Raising the barrier time keeps the invariant. *)
LEMMA RaisedIs ==
  ASSUME NEW w, NEW h, NEW s, Mid(s, w, h)
  PROVE  Mid(Raised(s), w, h) /\ SameBarrier(s, Raised(s))
<1>s. s \in Systems
  BY Zenon DEF Mid
<1>t. /\ s.next \in Nat \ {0} /\ s.lastPeriodic \in Nat /\ s.lastPeriodic <= s.next
      /\ \A c \in Cores : s.clock[c] \in Nat
  BY Zenon, <1>s, SystemsType DEF Mid, InBarrier
<1>1. PICK times : times = {s.next} \union {s.clock[c] : c \in Cores}
  BY Zenon
<1>2. PICK n : n = CHOOSE m \in times : \A k \in times : m >= k
  OBVIOUS
<1>3. n \in times /\ \A k \in times : n >= k
  <2>1. \E m \in times : \A k \in times : m >= k
    BY Zenon, <1>s, <1>1, LatestClock
  <2>2. QED
    BY <1>2, <2>1
<1>4. n \in Nat \ {0} /\ s.next <= n /\ s.lastPeriodic <= n
  <2>1. n \in Nat /\ n >= s.next
    BY <1>t, <1>1, <1>3
  <2>2. PICK m \in Nat \ {0}, l \in Nat : m = s.next /\ l = s.lastPeriodic
    BY <1>t
  <2>3. n >= m /\ l <= m
    BY <1>t, <2>1, <2>2
  <2>4. n \in Nat \ {0} /\ m <= n /\ l <= n
    BY ONLY <2>1, <2>2, <2>3
  <2>5. QED
    BY <2>2, <2>4
<1>5. PICK r : r = [s EXCEPT !.next = n]
  BY Zenon
<1>6. Raised(s) = r
  BY <1>1, <1>2, <1>5 DEF Raised
<1>7. n \in Nat \ {0}
  BY <1>4
<1>8. r \in Systems
  BY Zenon, <1>s, <1>5, <1>7 DEF Systems
<1>9. SameThreads(s, r) /\ SameTables(s, r) /\ SameModes(s, r)
  BY <1>s, <1>5 DEF Systems, SameThreads, SameTables, SameModes
<1>10. /\ r.clock = s.clock /\ r.waiter = s.waiter /\ r.sleeping = s.sleeping /\ r.acquired = s.acquired
       /\ r.slot = s.slot /\ r.failed = s.failed /\ r.lastPeriodic = s.lastPeriodic /\ r.next = n
  BY <1>s, <1>5 DEF Systems
<1>11. s.next <= r.next /\ r.lastPeriodic <= r.next
  BY <1>4, <1>10
<1>12. s.failed \subseteq {"application deadlocked", "advance spins"}
  BY Zenon DEF Mid
<1>13. Calm(s, r)
  BY Zenon, <1>8, <1>9, <1>10, <1>11, <1>12 DEF Calm, SameModes
<1>14. SameBarrier(s, r)
  BY <1>9, <1>10, SameSignals DEF SameBarrier, SameThreads
<1>15. QED
  BY <1>6, <1>13, <1>14, CalmMid

(* How barrierRelease ends; past MaxTime the critical section does not *)
(* complete.                                                           *)
Released(s, r, w, h, caller, cont) ==
    \/ ~(r.s.next <= MaxTime)
    \/ Freed(s, r, w, h, caller)
    \/ (cont \/ s.disable) /\ Unmoved(s, r, w, h)

(* What holds after n rounds of barrierRelease. *)
Round(s, r, w, h, caller, cont, n) ==
    /\ SameModes(s, r.s) /\ r.wait \in BOOLEAN
    /\ r.again => r.wait /\ Unmoved(s, r, w, h) /\ r.s.next > n /\ (n > 0 => r.s.next <= MaxTime + 1)
    /\ ~r.again => Released(s, r, w, h, caller, cont)

(* The next round. *)
LEMMA NextRoundIs ==
  ASSUME NEW w \in [Threads -> Places \union {"acting"}], NEW h, NEW s, NoUser(w),
         NEW caller \in Threads \union {NoThread}, NEW cont \in BOOLEAN,
         NEW n \in Nat, NEW r, Round(s, r, w, h, caller, cont, n)
  PROVE  Round(s, NextRound(r, caller, cont), w, h, caller, cont, n + 1)
<1>m. MaxTime \in Nat
  BY ThreadSystemAssumption
<1>1. PICK y : y = NextRound(r, caller, cont)
  OBVIOUS
<1>2. CASE ~r.again
  <2>1. y = r
    BY <1>1, <1>2 DEF NextRound
  <2>2. QED
    BY <1>1, <1>2, <2>1 DEF Round
<1>3. CASE r.again /\ r.s.next > MaxTime
  <2>1. y = Answer(r.s, TRUE, FALSE)
    BY Zenon, <1>1, <1>3 DEF NextRound
  <2>2. y.s = r.s /\ y.wait = TRUE /\ y.again = FALSE
    BY <2>1 DEF Answer
  <2>3. PICK k : k = r.s.next
    OBVIOUS
  <2>4. k \in Nat
    <3>1. Mid(r.s, w, h)
      BY <1>3 DEF Round, Unmoved
    <3>2. r.s.next \in Nat
      BY Zenon, <3>1, SystemsType DEF Mid
    <3>3. QED
      BY <2>3, <3>2
  <2>5. ~(k <= MaxTime)
    BY <1>m, <1>3, <2>3, <2>4
  <2>6. SameModes(s, r.s)
    BY DEF Round
  <2>7. Released(s, y, w, h, caller, cont)
    BY <2>2, <2>3, <2>5 DEF Released
  <2>8. QED
    BY Zenon, <1>1, <2>2, <2>6, <2>7 DEF Round
<1>4. CASE r.again /\ ~(r.s.next > MaxTime)
  <2>1. Mid(r.s, w, h) /\ Settled(r.s) /\ r.s.acquired = s.acquired /\ r.s.next > n /\ SameModes(s, r.s)
        /\ Signals(s, r.s) /\ r.s.slot = s.slot
    BY <1>4 DEF Round, Unmoved
  <2>2. PICK p : p = Periodic(r.s, r.s.next)
    OBVIOUS
  <2>3. Mid(p, w, h) /\ Turns(r.s, p)
    BY <2>1, <2>2, PeriodicMid
  <2>4. Settled(p)
    BY Zenon, <2>1, <2>3, TurnsSettled DEF Mid
  <2>5. y = AfterPeriodic(p, caller, cont)
    BY Zenon, <1>1, <1>4, <2>2 DEF NextRound
  <2>6. After(p, y, w, h, caller, cont)
    BY <2>3, <2>4, <2>5, AfterPeriodicEnd
  <2>7. p.acquired = s.acquired /\ p.disable = s.disable /\ SameModes(s, p) /\ p.next = r.s.next
    BY <2>1, <2>3 DEF Turns, SameModes
  <2>p. p.slot = s.slot
    BY <2>1, <2>3 DEF Turns
  <2>s. Signals(s, p)
    BY <2>1, <2>3, SignalsTransitive DEF Turns
  <2>8. SameModes(s, y.s) /\ y.wait \in BOOLEAN
    BY <2>6, <2>7 DEF After, SameModes
  <2>9. ASSUME y.again
        PROVE  y.wait /\ Unmoved(s, y, w, h) /\ y.s.next > n + 1 /\ y.s.next <= MaxTime + 1
    <3>1. y.wait /\ Unmoved(p, y, w, h) /\ y.s.next = r.s.next + 1
      BY <2>6, <2>7, <2>9 DEF After
    <3>2. Unmoved(s, y, w, h)
      BY <3>1, <2>7, <2>p, <2>s, SignalsTransitive DEF Unmoved
    <3>3. PICK k : k = r.s.next
      OBVIOUS
    <3>4. k \in Nat /\ k > n /\ ~(k > MaxTime) /\ y.s.next = k + 1
      <4>1. r.s.next \in Nat
        BY Zenon, <2>1, SystemsType DEF Mid
      <4>2. QED
        BY <4>1, <1>4, <2>1, <3>1, <3>3
    <3>5. k + 1 > n + 1 /\ k + 1 <= MaxTime + 1
      BY <1>m, <3>4
    <3>6. QED
      BY <3>1, <3>2, <3>4, <3>5
  <2>10. ASSUME ~y.again PROVE Released(s, y, w, h, caller, cont)
    <3>1. Freed(p, y, w, h, caller) \/ ((cont \/ p.disable) /\ Unmoved(p, y, w, h))
      BY <2>6, <2>10 DEF After
    <3>2. Freed(p, y, w, h, caller) => Freed(s, y, w, h, caller)
      BY <2>7, <2>p, <2>s, SignalsTransitive DEF Freed
    <3>3. Unmoved(p, y, w, h) => Unmoved(s, y, w, h)
      BY <2>7, <2>p, <2>s, SignalsTransitive DEF Unmoved
    <3>4. QED
      BY <2>7, <3>1, <3>2, <3>3 DEF Released
  <2>11. QED
    BY <1>1, <2>8, <2>9, <2>10 DEF Round
<1>5. QED
  BY <1>2, <1>3, <1>4

(* barrierRelease frees somebody, comes back because it was asked only to *)
(* advance time or the barrier is disabled, or has run past MaxTime.      *)
LEMMA ReleaseMid ==
  ASSUME NEW w \in [Threads -> Places \union {"acting"}], NEW h, NEW s, Mid(s, w, h), Settled(s), NoUser(w),
         NEW caller \in Threads \union {NoThread}, NEW cont \in BOOLEAN
  PROVE  /\ Released(s, BarrierRelease(s, caller, cont), w, h, caller, cont)
         /\ SameModes(s, BarrierRelease(s, caller, cont).s) /\ BarrierRelease(s, caller, cont).wait \in BOOLEAN
<1>m. MaxTime \in Nat
  BY ThreadSystemAssumption
<1>1. PICK start : start = Answer(IF s.fastforward THEN Raised(s) ELSE s, TRUE, TRUE)
  BY Zenon
<1> DEFINE each(f) == [n \in Nat |-> IF n = 0 THEN start ELSE NextRound(f[n - 1], caller, cont)]
<1>2. \E f : f = each(f)
  <2>1. PICK f : Loops(f, "rounds", start, <<caller, cont>>)
    BY LoopDefined
  <2>2. f = each(f)
    BY <2>1 DEF Turn, Loops
  <2>3. QED
    BY <2>2
<1>3. PICK g : g = CHOOSE f : f = each(f)
  OBVIOUS
<1>4. g = each(g)
  BY <1>2, <1>3
<1>5. BarrierRelease(s, caller, cont) = g[MaxTime + 1]
  BY <1>1, <1>3 DEF BarrierRelease
<1>6. g[0] = start /\ \A n \in Nat : g[n + 1] = NextRound(g[n], caller, cont)
  <2>1. g = [n \in Nat |-> IF n = 0 THEN start ELSE NextRound(g[n - 1], caller, cont)]
    BY <1>4
  <2>2. ASSUME NEW n \in Nat PROVE g[n + 1] = NextRound(g[n], caller, cont)
    <3>1. n + 1 \in Nat /\ n + 1 # 0 /\ (n + 1) - 1 = n
      OBVIOUS
    <3>2. QED
      BY <2>1, <3>1
  <2>3. g[0] = start
    BY <2>1
  <2>4. QED
    BY <2>2, <2>3
<1> HIDE DEF each
<1>7. Round(s, start, w, h, caller, cont, 0)
  <2>1. start.s = (IF s.fastforward THEN Raised(s) ELSE s) /\ start.wait = TRUE /\ start.again = TRUE
    BY <1>1 DEF Answer
  <2>2. Mid(start.s, w, h) /\ SameModes(s, start.s) /\ SameTables(s, start.s) /\ start.s.acquired = s.acquired
        /\ Signals(s, start.s) /\ start.s.slot = s.slot
    <3>1. CASE s.fastforward
      BY <2>1, <3>1, RaisedIs DEF SameBarrier
    <3>2. CASE ~s.fastforward
      BY <2>1, <3>2, SameSignals DEF SameModes, SameTables
    <3>3. QED
      BY <3>1, <3>2
  <2>3. Settled(start.s)
    BY <2>2 DEF Settled, SameTables
  <2>4. start.s.next > 0
    <3>1. start.s.next \in Nat \ {0}
      BY Zenon, <2>2, SystemsType DEF Mid
    <3>2. QED
      BY <3>1
  <2>5. QED
    <3>1. Unmoved(s, start, w, h)
      BY <2>2, <2>3 DEF Unmoved
    <3>2. start.wait /\ start.again /\ start.wait \in BOOLEAN
      BY Zenon, <2>1
    <3>3. ~(0 > 0)
      OBVIOUS
    <3>4. QED
      BY <2>2, <2>4, <3>1, <3>2, <3>3 DEF Round
<1> DEFINE P == {n \in Nat : Round(s, g[n], w, h, caller, cont, n)}
<1>8. 0 \in P
  BY <1>6, <1>7
<1>9. ASSUME NEW n \in Nat, n \in P PROVE n + 1 \in P
  <2>1. Round(s, g[n + 1], w, h, caller, cont, n + 1)
    BY <1>6, <1>9, NextRoundIs
  <2>2. QED
    BY <2>1
<1> HIDE DEF P
<1>10. Nat \subseteq P
  BY <1>8, <1>9, Induction
<1>11. PICK y : y = g[MaxTime + 1]
  OBVIOUS
<1>12. Round(s, y, w, h, caller, cont, MaxTime + 1)
  <2>1. MaxTime + 1 \in Nat
    BY <1>m
  <2>2. QED
    BY <1>10, <1>11, <2>1 DEF P
<1>13. ~y.again
  <2>1. SUFFICES ASSUME y.again PROVE FALSE
    OBVIOUS
  <2>2. PICK k : k = y.s.next
    OBVIOUS
  <2>3. k \in Nat /\ k > MaxTime + 1 /\ (MaxTime + 1 > 0 => k <= MaxTime + 1)
    <3>1. Mid(y.s, w, h)
      BY <1>12, <2>1 DEF Round, Unmoved
    <3>2. y.s.next \in Nat
      BY Zenon, <3>1, SystemsType DEF Mid
    <3>3. QED
      BY <3>2, <1>12, <2>1, <2>2 DEF Round
  <2>4. QED
    BY <1>m, <2>3
<1>14. QED
  BY <1>5, <1>11, <1>12, <1>13 DEF Round

(* No handler is at work. *)
NoActing(w) == \A t \in Threads : w[t] # "acting"

(* The barrier is reached only when nobody executes application code. *)
LEMMA ReachedNoUser ==
  ASSUME NEW w \in [Threads -> Places \union {"acting"}], NEW h, NEW s, Mid(s, w, h), Held(s),
         ~s.aborted, NoActing(w), IsBarrierReached(s)
  PROVE  NoUser(w)
<1>s. s \in Systems
  BY Zenon DEF Mid
<1>1. SUFFICES ASSUME NEW t \in Threads, w[t] = "user" PROVE FALSE
  BY DEF NoUser, NoActing
<1>2. s.status[t] = "RUNNING" /\ s.core[t] = h[t] /\ h[t] \in Cores
  BY Zenon, <1>1 DEF Mid, AtPlaces
<1>3. PICK c \in Cores : c = h[t]
  BY <1>2
<1>n. NoCore \notin Cores /\ NoThread \notin Threads
  BY CoresAndThreads
<1>4. s.cthread[c] = t /\ s.coreRunning[t] = c
  <2>1. Tables(s) /\ s.core[t] = c
    BY Zenon, <1>2, <1>3 DEF Mid
  <2>2. QED
    BY <2>1, <1>n DEF Tables
<1>5. s.cstate[c] = "RUNNING"
  BY ZenonT(40), <1>1, <1>2, <1>3, <1>4, <1>n DEF Mid, Placed
<1>6. IsCoreRunning(s, c)
  BY <1>2, <1>4, <1>5, <1>n DEF IsCoreRunning
<1>7. s.acquired[c]
  <2>1. CASE s.fastforward
    BY <1>6, <2>1 DEF IsBarrierReached
  <2>2. CASE ~s.fastforward
    <3>1. s.clock[c] >= s.next
      BY <1>6, <2>2 DEF IsBarrierReached
    <3>2. s.clock[c] \in Nat /\ s.next \in Nat
      BY <1>s, SystemsType
    <3>3. ~(s.clock[c] < s.next)
      BY <3>1, <3>2
    <3>4. QED
      BY Zenon, <3>3 DEF Mid, InBarrier
  <2>3. QED
    BY <2>1, <2>2
<1>8. s.slot[c] \in Threads /\ w[s.slot[c]] = "barrier"
  BY Zenon, <1>7 DEF Mid, InBarrier
<1>9. s.core[s.slot[c]] = c
  BY <1>7 DEF Held
<1>10. s.cthread[c] = s.slot[c]
  BY Zenon, <1>8, <1>9, <1>n DEF Mid, Tables
<1>11. QED
  BY <1>1, <1>4, <1>8, <1>10

(* What holds before and after the steps of a handler that leave no promise *)
(* behind.                                                                  *)
Ends(s, w, h) == Mid(s, w, h) /\ Settled(s) /\ Held(s)

(* Somebody goes on after this critical section, or the barrier is not what *)
(* the others wait for.                                                     *)
Goes(s, w) ==
    \/ s.disable \/ ~IsBarrierReached(s) \/ s.failed # {}
    \/ \E t \in Threads : w[t] \in {"created", "user", "check"}
    \/ \E t \in Threads : w[t] \in {"stalled", "startwait", "barrier"} /\ t \in s.signalled

(* What a critical section that completes leaves to the threads. *)
Over(s, x, w, h) ==
    ~(x.next <= MaxTime) \/ (Ends(x, w, h) /\ Goes(x, w) /\ SameModes(s, x) /\ Signals(s, x))

(* BarrierSyncServer::signal releases the barrier if it has been reached. *)
LEMMA SignalEnd ==
  ASSUME NEW w \in [Threads -> Places \union {"acting"}], NEW h, NEW s, Ends(s, w, h), ~s.aborted,
         NoActing(w)
  PROVE  Over(s, Signal(s), w, h)
<1>n. NoThread \notin Threads
  BY CoresAndThreads
<1>1. CASE ~(~s.disable /\ IsBarrierReached(s))
  <2>1. Signal(s) = s
    BY Zenon, <1>1 DEF Signal
  <2>2. SameModes(s, s) /\ Signals(s, s)
    BY SameSignals DEF SameModes
  <2>3. QED
    BY <1>1, <2>1, <2>2 DEF Over, Goes
<1>2. CASE ~s.disable /\ IsBarrierReached(s)
  <2>1. PICK r : r = BarrierRelease(s, NoThread, FALSE)
    BY Zenon
  <2>2. Signal(s) = r.s
    BY <1>2, <2>1 DEF Signal
  <2>3. Mid(s, w, h) /\ Settled(s) /\ Held(s)
    BY DEF Ends
  <2>4. NoUser(w)
    BY <1>2, <2>3, ReachedNoUser
  <2>5. NoThread \in Threads \union {NoThread} /\ FALSE \in BOOLEAN
    OBVIOUS
  <2>6. Released(s, r, w, h, NoThread, FALSE) /\ SameModes(s, r.s) /\ r.wait \in BOOLEAN
    BY Zenon, <2>1, <2>3, <2>4, <2>5, ReleaseMid
  <2>7. ~(r.s.next <= MaxTime) \/ Freed(s, r, w, h, NoThread)
    BY <1>2, <2>6 DEF Released
  <2>8. CASE Freed(s, r, w, h, NoThread)
    <3>1. r.wait
      BY <1>n, <2>8 DEF Freed
    <3>2. Back(w, NoThread, ~r.wait) = w
      BY <3>1 DEF Back
    <3>3. Ends(r.s, w, h) /\ Signals(s, r.s)
      BY <2>8, <3>2 DEF Freed, Ends
    <3>4. \E t \in Threads : w[t] = "barrier" /\ t \in r.s.signalled
      BY <2>8, <3>1 DEF Freed
    <3>5. Goes(r.s, w)
      BY <3>4 DEF Goes
    <3>6. QED
      BY <2>2, <2>6, <3>3, <3>5 DEF Over
  <2>9. QED
    BY <2>2, <2>7, <2>8 DEF Over
<1>3. QED
  BY <1>1, <1>2

(* The loop of stallThread advances time until somebody runs. *)
LEMMA AdvanceEnd ==
  ASSUME NEW w \in [Threads -> Places \union {"acting"}], NEW h, NEW s, Ends(s, w, h), Goes(s, w),
         NoActing(w)
  PROVE  Over(s, AdvanceLoop(s), w, h)
<1>n. NoThread \notin Threads
  BY CoresAndThreads
<1>m. Mid(s, w, h) /\ Settled(s) /\ Held(s)
  BY DEF Ends
<1>1. CASE ~Advances(s)
  <2>1. AdvanceLoop(s) = s
    BY <1>1 DEF AdvanceLoop
  <2>2. SameModes(s, s) /\ Signals(s, s)
    BY SameSignals DEF SameModes
  <2>3. QED
    BY <2>1, <2>2 DEF Over
<1>2. CASE Advances(s)
  <2>1. \A t \in Threads : s.status[t] \notin {"RUNNING", "INITIALIZING"}
    BY <1>2 DEF Advances, AnyThreadRunning
  <2>2. NoUser(w)
    BY Zenon, <1>m, <2>1 DEF NoUser, NoActing, Mid, AtPlaces
  <2>3. \A c \in Cores : ~s.acquired[c]
    <3>1. \A c \in Cores : s.acquired[c] => s.slot[c] \in Threads /\ w[s.slot[c]] = "barrier"
      BY Zenon, <1>m DEF Mid, InBarrier
    <3>2. \A t \in Threads : w[t] # "barrier"
      BY Zenon, <1>m, <2>1 DEF Mid, AtPlaces
    <3>3. QED
      BY <3>1, <3>2
  <2>4. PICK r : r = BarrierRelease(s, NoThread, TRUE)
    BY Zenon
  <2>5. NoThread \in Threads \union {NoThread} /\ TRUE \in BOOLEAN
    OBVIOUS
  <2>6. Released(s, r, w, h, NoThread, TRUE) /\ SameModes(s, r.s)
    BY Zenon, <1>m, <2>2, <2>4, <2>5, ReleaseMid
  <2>7. ~(r.s.next <= MaxTime) \/ Unmoved(s, r, w, h)
    BY <2>3, <2>6 DEF Released, Freed
  <2>8. AdvanceLoop(s) = IF Advances(r.s) THEN Fail(r.s, "advance spins") ELSE r.s
    BY <1>2, <2>4 DEF AdvanceLoop
  <2>9. CASE ~(r.s.next <= MaxTime)
    <3>1. ~Advances(r.s)
      BY <2>9 DEF Advances
    <3>2. QED
      BY <2>8, <2>9, <3>1 DEF Over
  <2>10. CASE Unmoved(s, r, w, h)
    <3>1. Mid(r.s, w, h) /\ Settled(r.s) /\ Signals(s, r.s) /\ \A c \in Cores : ~r.s.acquired[c]
      BY <2>3, <2>10 DEF Unmoved
    <3>2. Held(r.s)
      BY <3>1 DEF Held
    <3>3. CASE Advances(r.s)
      <4>1. PICK x : x = Fail(r.s, "advance spins")
        BY Zenon
      <4>2. "advance spins" \in {"application deadlocked", "advance spins"}
        OBVIOUS
      <4>3. Mid(x, w, h) /\ SameBarrier(r.s, x) /\ x.failed # {}
        BY Zenon, <3>1, <4>1, <4>2, FailMid
      <4>4. Settled(x) /\ Held(x)
        BY <3>1, <4>3 DEF SameBarrier, SameTables, Settled, Held
      <4>5. SameModes(s, x) /\ Signals(s, x)
        BY <2>6, <3>1, <4>3, SignalsTransitive DEF SameBarrier, SameModes
      <4>6. QED
        BY Zenon, <2>8, <3>3, <4>1, <4>3, <4>4, <4>5 DEF Over, Ends, Goes
    <3>4. CASE ~Advances(r.s) /\ r.s.failed # {}
      BY <2>6, <2>8, <3>1, <3>2, <3>4 DEF Over, Ends, Goes
    <3>5. CASE ~Advances(r.s) /\ ~(r.s.next <= MaxTime)
      BY <2>8, <3>5 DEF Over
    <3>6. CASE ~Advances(r.s) /\ AnyThreadRunning(r.s)
      <4>1. PICK t \in Threads : r.s.status[t] \in {"RUNNING", "INITIALIZING"}
        BY <3>6 DEF AnyThreadRunning
      <4>2. s.status[t] \notin {"RUNNING", "INITIALIZING"} /\ r.s.status[t] = "RUNNING"
        BY <2>1, <3>1, <4>1 DEF Signals, Rests
      <4>3. AtPlaces(s, w, h) /\ AtPlaces(r.s, w, h) /\ w[t] \in Places
        BY Zenon, <1>m, <3>1 DEF Mid, NoActing
      <4>4. w[t] = "check" \/ (w[t] = "stalled" /\ t \in r.s.signalled)
        BY <4>2, <4>3 DEF AtPlaces, Places
      <4>5. Goes(r.s, w)
        BY <4>4 DEF Goes
      <4>6. QED
        BY <2>6, <2>8, <3>1, <3>2, <3>6, <4>5 DEF Over, Ends
    <3>7. QED
      BY <3>3, <3>4, <3>5, <3>6 DEF Advances
  <2>11. QED
    BY <2>7, <2>9, <2>10
<1>3. QED
  BY <1>1, <1>2

(* Nobody in Thread::wait is signalled who is not meant to go on. *)
Heard(s, w) ==
    \A t \in Threads : (w[t] = "stalled" /\ t \in s.signalled) =>
      s.status[t] = "RUNNING" \/ (s.status[t] = "STALLED" /\ s.reason[t] = "JOIN")

(* What a handler of thread t has to establish for the end of its critical *)
(* section.                                                                *)
Done(r, w, h, t, next, core) ==
    /\ w = [where EXCEPT ![t] = next] /\ next \in Places
    /\ h \in [Threads -> Cores \union {NoCore}] /\ \A u \in Threads : u # t => h[u] = here[u]
    /\ next \in {"user", "barrier"} => h[t] = core
    /\ next \in {"stalled", "startwait", "barrier"} => t \notin r.signalled
    /\ Ends(r, w, h) /\ Heard(r, w) /\ Goes(r, w) /\ Woken(r, w, Abandoned(r))

(* The signals have been noticed; nothing else has changed. *)
LEMMA QuietIs ==
  ASSUME NEW r \in Systems
  PROVE  LET q == [r EXCEPT !.signalled = {}]
         IN  /\ q \in Systems /\ SameTables(r, q) /\ SameModes(r, q) /\ q.clock = r.clock /\ q.signalled = {}
             /\ q.status = r.status /\ q.reason = r.reason /\ q.runnable = r.runnable
             /\ q.waiter = r.waiter /\ q.sleeping = r.sleeping /\ q.acquired = r.acquired /\ q.slot = r.slot
             /\ q.failed = r.failed /\ q.next = r.next /\ q.lastPeriodic = r.lastPeriodic
<1>1. PICK q : q = [r EXCEPT !.signalled = {}]
  BY Zenon
<1>2. {} \in SUBSET Threads
  OBVIOUS
<1>3. q \in Systems
  BY Zenon, <1>1, <1>2 DEF Systems
<1>4. SameTables(r, q) /\ SameModes(r, q) /\ q.clock = r.clock /\ q.signalled = {}
  BY <1>1 DEF SameTables, SameModes, Systems
<1>5. /\ q.status = r.status /\ q.reason = r.reason /\ q.runnable = r.runnable
      /\ q.waiter = r.waiter /\ q.sleeping = r.sleeping /\ q.acquired = r.acquired /\ q.slot = r.slot
      /\ q.failed = r.failed /\ q.next = r.next /\ q.lastPeriodic = r.lastPeriodic
  BY <1>1 DEF Systems
<1>6. QED
  BY <1>1, <1>3, <1>4, <1>5

(* The host threads that were signalled leave their waits. *)
LEMMA LeftMid ==
  ASSUME NEW w \in [Threads -> Places], NEW h, NEW r, Mid(r, w, h), Heard(r, w),
         NEW q, q = [r EXCEPT !.signalled = {}],
         NEW v, \A u \in Threads : v[u] = IF u \in r.signalled /\ w[u] \in {"stalled", "startwait", "barrier"}
                                          THEN "check" ELSE w[u],
         NEW k, \A u \in Threads : v[u] \in {"user", "barrier"} => k[u] = h[u]
  PROVE  Mid(q, v, k)
<1>r. r \in Systems
  BY Zenon DEF Mid
<1>q. /\ q \in Systems /\ SameTables(r, q) /\ SameModes(r, q) /\ q.clock = r.clock /\ q.signalled = {}
      /\ q.status = r.status /\ q.reason = r.reason /\ q.runnable = r.runnable
      /\ q.waiter = r.waiter /\ q.sleeping = r.sleeping /\ q.acquired = r.acquired /\ q.slot = r.slot
      /\ q.failed = r.failed /\ q.next = r.next /\ q.lastPeriodic = r.lastPeriodic
  BY <1>r, QuietIs
<1>m. /\ Tables(r) /\ Placed(r, w) /\ Ready(r) /\ AtPlaces(r, w, h)
      /\ Waits(r, w) /\ Asleep(r, w) /\ InBarrier(r, w, h)
      /\ r.failed \subseteq {"application deadlocked", "advance spins"}
  BY Zenon DEF Mid
<1>c. /\ q.core = r.core /\ q.cthread = r.cthread /\ q.cstate = r.cstate
      /\ q.coreRunning = r.coreRunning /\ q.running = r.running
  BY <1>q DEF SameTables
<1>a. q.status = r.status /\ q.reason = r.reason /\ q.runnable = r.runnable /\ q.signalled = {}
  BY <1>q
<1>v. \A u \in Threads : v[u] = IF u \in r.signalled /\ w[u] \in {"stalled", "startwait", "barrier"}
                                THEN "check" ELSE w[u]
  OBVIOUS
<1>k. \A u \in Threads : v[u] \in {"user", "barrier"} => k[u] = h[u]
  OBVIOUS
<1>1. Tables(q) /\ Ready(q)
  <2>1. Tables(q)
    <3>1. Tables(r)
      BY Zenon, <1>m
    <3>2. QED
      BY ONLY <3>1, <1>c, SMTT(30) DEF Tables
  <2>2. Ready(q)
    BY ONLY ZenonT(40), <1>m, <1>a, <1>c DEF Ready
  <2>3. QED
    BY <2>1, <2>2
<1>2. Placed(q, v)
  <2>1. \A u \in Threads : w[u] # "acting"
    BY DEF Places
  <2>2. QED
    BY ONLY Zenon, <2>1, <1>m, <1>c, <1>a DEF Placed
<1>3. AtPlaces(q, v, k)
  <2>1. SUFFICES ASSUME NEW t \in Threads
                 PROVE  /\ v[t] = "none" => r.status[t] = "none" /\ r.coreRunning[t] = NoCore
                        /\ v[t] = "created" => r.status[t] = "INITIALIZING" /\ r.core[t] = r.coreRunning[t]
                        /\ v[t] = "user" => r.status[t] = "RUNNING" /\ r.core[t] = k[t] /\ k[t] \in Cores
                        /\ v[t] = "check" => r.status[t] = "RUNNING"
                             \/ (r.status[t] = "STALLED" /\ r.reason[t] \in {"JOIN", "UNSCHEDULED"})
                        /\ v[t] = "stalled" => r.status[t] = "STALLED"
                        /\ v[t] \in {"startwait", "barrier"} => r.status[t] = "RUNNING"
                        /\ v[t] = "paused" => r.status[t] = "STALLED" /\ r.reason[t] = "PAUSE"
                        /\ v[t] = "exited" => r.status[t] = "IDLE"
    BY <1>a, <1>c DEF AtPlaces
  <2>2. CASE t \in r.signalled /\ w[t] \in {"stalled", "startwait", "barrier"}
    <3>1. v[t] = "check"
      BY <1>v, <2>2
    <3>2. r.status[t] = "RUNNING" \/ (r.status[t] = "STALLED" /\ r.reason[t] = "JOIN")
      BY Zenon, <1>m, <2>2 DEF AtPlaces, Heard
    <3>3. QED
      BY <3>1, <3>2
  <2>3. CASE ~(t \in r.signalled /\ w[t] \in {"stalled", "startwait", "barrier"})
    <3>1. v[t] = w[t]
      BY <1>v, <2>3
    <3>2. QED
      BY Zenon, <1>m, <1>k, <2>3, <3>1 DEF AtPlaces
  <2>4. QED
    BY <2>2, <2>3
<1>4. Waits(q, v)
  <2>1. ASSUME NEW t \in Threads, r.waiter[t] # NoThread
        PROVE  \/ v[r.waiter[t]] = "startwait" /\ v[t] \in {"created", "acting"}
               \/ /\ v[r.waiter[t]] \in {"stalled", "acting"}
                  /\ r.status[r.waiter[t]] = "STALLED" /\ r.reason[r.waiter[t]] = "JOIN"
    <3>1. r.waiter[t] \in Threads
      BY <1>r, <2>1, SystemsType
    <3>2. r.waiter[t] \notin r.signalled
      BY Zenon, <1>m, <2>1 DEF Waits
    <3>3. v[r.waiter[t]] = w[r.waiter[t]]
      BY <1>v, <3>1, <3>2
    <3>4. w[t] \in {"created", "acting"} => v[t] = w[t]
      BY <1>v
    <3>5. QED
      BY Zenon, <1>m, <2>1, <3>3, <3>4 DEF Waits
  <2>2. ASSUME NEW u \in Threads, v[u] = "startwait"
        PROVE  \E t \in Threads : r.waiter[t] = u /\ v[t] \in {"created", "acting"}
    <3>1. w[u] = "startwait" /\ u \notin r.signalled
      BY <1>v, <2>2
    <3>2. PICK t \in Threads : r.waiter[t] = u /\ w[t] \in {"created", "acting"}
      BY Zenon, <1>m, <3>1 DEF Waits
    <3>3. v[t] = w[t]
      BY <1>v, <3>2
    <3>4. QED
      BY <3>2, <3>3
  <2>3. \A t, u \in Threads : (r.waiter[t] = r.waiter[u] /\ r.waiter[t] # NoThread) => t = u
    BY Zenon, <1>m DEF Waits
  <2>4. q.waiter = r.waiter
    BY <1>q
  <2>5. QED
    BY <2>1, <2>2, <2>3, <2>4, <1>a DEF Waits
<1>5. Asleep(q, v)
  <2>1. \A i \in DOMAIN r.sleeping : r.sleeping[i] \in Threads
    BY <1>r, SystemsType, ElementOfSeq, LenProperties
  <2>2. ASSUME NEW i \in DOMAIN r.sleeping
        PROVE  /\ v[r.sleeping[i]] \in {"stalled", "acting"}
               /\ r.status[r.sleeping[i]] = "STALLED" /\ r.reason[r.sleeping[i]] = "SLEEP"
    <3>1. PICK t \in Threads : t = r.sleeping[i]
      BY <2>1, <2>2
    <3>2. w[t] = "stalled" /\ r.status[t] = "STALLED" /\ r.reason[t] = "SLEEP"
      BY Zenon, <1>m, <2>2, <3>1 DEF Asleep, Places
    <3>3. t \notin r.signalled
      BY <3>2 DEF Heard
    <3>4. v[t] = "stalled"
      BY <1>v, <3>2, <3>3
    <3>5. QED
      BY <3>1, <3>2, <3>4
  <2>3. \A i, j \in DOMAIN r.sleeping : r.sleeping[i] = r.sleeping[j] => i = j
    BY Zenon, <1>m DEF Asleep
  <2>4. q.sleeping = r.sleeping
    BY <1>q
  <2>5. QED
    BY <2>2, <2>3, <2>4, <1>a DEF Asleep
<1>6. InBarrier(q, v, k)
  <2>e. /\ q.acquired = r.acquired /\ q.slot = r.slot /\ q.clock = r.clock /\ q.next = r.next
        /\ q.disable = r.disable /\ q.aborted = r.aborted /\ q.lastPeriodic = r.lastPeriodic
    BY <1>q DEF SameModes
  <2>1. ASSUME NEW c \in Cores, r.acquired[c]
        PROVE  /\ r.slot[c] \in Threads
               /\ v[r.slot[c]] = "barrier" /\ k[r.slot[c]] = c
               /\ r.core[r.slot[c]] = c \/ r.clock[c] = 0
    <3>1. /\ r.slot[c] \in Threads /\ r.slot[c] \notin r.signalled
          /\ w[r.slot[c]] = "barrier" /\ h[r.slot[c]] = c
          /\ r.core[r.slot[c]] = c \/ r.clock[c] = 0
      BY Zenon, <1>m, <2>1 DEF InBarrier
    <3>2. v[r.slot[c]] = "barrier"
      BY <1>v, <3>1
    <3>3. QED
      BY <1>k, <3>1, <3>2
  <2>2. ASSUME NEW t \in Threads, v[t] = "barrier"
        PROVE  k[t] \in Cores /\ r.acquired[k[t]] /\ r.slot[k[t]] = t
    <3>1. w[t] = "barrier" /\ t \notin r.signalled /\ k[t] = h[t]
      BY <1>v, <1>k, <2>2
    <3>2. QED
      BY Zenon, <1>m, <3>1 DEF InBarrier
  <2>3. /\ \A c \in Cores : (~r.acquired[c] /\ ~r.aborted) => r.clock[c] < r.next
        /\ r.disable => \A c \in Cores : ~r.acquired[c]
        /\ r.lastPeriodic <= r.next
    BY Zenon, <1>m DEF InBarrier
  <2>4. /\ \A c \in Cores : (~q.acquired[c] /\ ~q.aborted) => q.clock[c] < q.next
        /\ q.disable => \A c \in Cores : ~q.acquired[c]
        /\ q.lastPeriodic <= q.next
    BY <2>3, <2>e
  <2>5. /\ \A c \in Cores : q.acquired[c] =>
              /\ q.slot[c] \in Threads /\ q.slot[c] \notin q.signalled
              /\ v[q.slot[c]] = "barrier" /\ k[q.slot[c]] = c
              /\ q.core[q.slot[c]] = c \/ q.clock[c] = 0
        /\ \A t \in Threads : v[t] = "barrier" =>
              k[t] \in Cores /\ (t \in q.signalled \/ (q.acquired[k[t]] /\ q.slot[k[t]] = t))
    BY <2>1, <2>2, <2>e, <1>a, <1>c
  <2>6. QED
    BY <2>4, <2>5 DEF InBarrier
<1>7. QED
  BY Zenon, <1>1, <1>2, <1>3, <1>4, <1>5, <1>6, <1>q, <1>m DEF Mid

(* The end of every critical section. *)
LEMMA CommitInv ==
  ASSUME ThreadInv, where \in [Threads -> Places], here \in [Threads -> Cores \union {NoCore}],
         NEW r, NEW t \in Threads, NEW next, NEW core, NEW w, NEW h, Done(r, w, h, t, next, core),
         Commit(r, t, next, core)
  PROVE  ThreadInv'
<1>d. /\ w = [where EXCEPT ![t] = next] /\ next \in Places
      /\ h \in [Threads -> Cores \union {NoCore}] /\ \A u \in Threads : u # t => h[u] = here[u]
      /\ next \in {"user", "barrier"} => h[t] = core
      /\ next \in {"stalled", "startwait", "barrier"} => t \notin r.signalled
  BY DEF Done
<1>e. Mid(r, w, h) /\ Settled(r) /\ Held(r) /\ Heard(r, w) /\ Goes(r, w) /\ Woken(r, w, Abandoned(r))
  BY DEF Done, Ends
<1>c. /\ r.next <= MaxTime /\ sys' = [r EXCEPT !.signalled = {}]
      /\ where' = [u \in Threads |->
                   IF u = t THEN next
                   ELSE IF u \in r.signalled /\ where[u] \in {"stalled", "startwait", "barrier"}
                   THEN "check" ELSE where[u]]
      /\ here' = [u \in Threads |->
                  IF where'[u] \notin {"user", "barrier"} THEN NoCore
                  ELSE IF u = t THEN core ELSE here[u]]
  BY DEF Commit
<1>1. PICK q : q = sys'
  OBVIOUS
<1>2. PICK v : v = where'
  OBVIOUS
<1>3. PICK k : k = here'
  OBVIOUS
<1>w. w \in [Threads -> Places] /\ \A u \in Threads : w[u] = IF u = t THEN next ELSE where[u]
  BY <1>d
<1>4. \A u \in Threads : v[u] = IF u \in r.signalled /\ w[u] \in {"stalled", "startwait", "barrier"}
                                THEN "check" ELSE w[u]
  <2>1. SUFFICES ASSUME NEW u \in Threads
                 PROVE  v[u] = IF u \in r.signalled /\ w[u] \in {"stalled", "startwait", "barrier"}
                               THEN "check" ELSE w[u]
    OBVIOUS
  <2>2. CASE u = t
    BY <1>c, <1>d, <1>w, <1>2, <2>2
  <2>3. CASE u # t
    BY <1>c, <1>w, <1>2, <2>3
  <2>4. QED
    BY <2>2, <2>3
<1>5. v \in [Threads -> Places]
  <2>1. \A u \in Threads : v[u] \in Places
    BY <1>4, <1>w DEF Places
  <2>2. v = [u \in Threads |-> v[u]]
    BY <1>c, <1>2
  <2>3. QED
    BY <2>1, <2>2
<1>6. \A u \in Threads : k[u] = IF v[u] \notin {"user", "barrier"} THEN NoCore
                                ELSE IF u = t THEN core ELSE here[u]
  BY <1>c, <1>2, <1>3
<1>7. \A u \in Threads : v[u] \in {"user", "barrier"} => k[u] = h[u]
  <2>1. SUFFICES ASSUME NEW u \in Threads, v[u] \in {"user", "barrier"} PROVE k[u] = h[u]
    OBVIOUS
  <2>2. CASE u = t
    BY <1>4, <1>6, <1>w, <1>d, <2>1, <2>2
  <2>3. CASE u # t
    BY <1>6, <1>d, <2>1, <2>3
  <2>4. QED
    BY <2>2, <2>3
<1>8. k \in [Threads -> Cores \union {NoCore}]
  <2>1. \A u \in Threads : k[u] \in Cores \union {NoCore}
    BY <1>6, <1>7, <1>d
  <2>2. k = [u \in Threads |-> k[u]]
    BY <1>c, <1>3
  <2>3. QED
    BY <2>1, <2>2
<1>9. q = [r EXCEPT !.signalled = {}]
  BY <1>c, <1>1
<1>10. Mid(q, v, k)
  BY <1>4, <1>7, <1>9, <1>e, <1>w, LeftMid
<1>q. /\ q \in Systems /\ SameTables(r, q) /\ SameModes(r, q) /\ q.clock = r.clock /\ q.signalled = {}
      /\ q.status = r.status /\ q.acquired = r.acquired /\ q.slot = r.slot
      /\ q.failed = r.failed /\ q.next = r.next
  BY Zenon, <1>9, <1>e, QuietIs DEF Mid
<1>11. Settled(q)
  BY <1>q, <1>e DEF Settled, SameTables
<1>12. Held(q)
  <2>1. q.core = r.core /\ q.fastforward = r.fastforward
    BY <1>q DEF SameTables, SameModes
  <2>2. QED
    BY <2>1, <1>q, <1>e DEF Held
<1>13. ASSUME Stuck(q, v) PROVE ~IsBarrierReached(q)
  <2>1. /\ \A u \in Threads : v[u] \notin {"created", "user", "check"}
        /\ ~q.disable /\ q.failed = {}
    BY <1>13 DEF Stuck
  <2>2. ~r.disable /\ r.failed = {}
    BY <1>q, <2>1 DEF SameModes
  <2>3. \A u \in Threads : w[u] \notin {"created", "user", "check"}
    BY <1>4, <2>1
  <2>4. \A u \in Threads : ~(w[u] \in {"stalled", "startwait", "barrier"} /\ u \in r.signalled)
    BY <1>4, <2>1
  <2>5. ~IsBarrierReached(r)
    BY <1>e, <2>2, <2>3, <2>4 DEF Goes
  <2>6. q.cstate = r.cstate /\ q.cthread = r.cthread /\ q.fastforward = r.fastforward
    BY <1>q DEF SameTables, SameModes
  <2>7. QED
    BY <2>5, <2>6, <1>q DEF IsBarrierReached, IsCoreRunning
<1>14. q.next <= MaxTime
  BY <1>q, <1>c
<1>a. abandoned' = Abandoned(r) /\ abandoned' \subseteq Threads
  <2>1. abandoned' = abandoned \union {u \in r.signalled : r.status[u] = "STALLED" /\ r.reason[u] = "JOIN"}
    BY DEF Commit
  <2>2. abandoned \subseteq Threads
    BY DEF ThreadInv
  <2>3. r.signalled \subseteq Threads
    BY <1>e, SystemsType DEF Mid
  <2>4. QED
    BY <2>1, <2>2, <2>3 DEF Abandoned
<1>k. Woken(q, v, abandoned')
  <2>1. Signals(r, q)
    BY <1>q, QuietIs, <1>9, <1>e DEF Mid, Signals, Rests, Sleepers
  <2>2. \A u \in Threads : w[u] = "paused" => v[u] = "paused"
    BY <1>4
  <2>3. Woken(r, w, abandoned')
    BY <1>e, <1>a
  <2>4. QED
    BY <2>1, <2>2, <2>3, WokenOn
<1>15. /\ Mid(sys', where', here') /\ Settled(sys') /\ Held(sys')
       /\ sys'.signalled = {} /\ sys'.next <= MaxTime
       /\ Stuck(sys', where') => ~IsBarrierReached(sys')
       /\ where' \in [Threads -> Places] /\ here' \in [Threads -> Cores \union {NoCore}]
  BY <1>1, <1>2, <1>3, <1>5, <1>8, <1>10, <1>11, <1>12, <1>13, <1>14, <1>q
<1>16. QED
  BY <1>15, <1>1, <1>2, <1>a, <1>k DEF ThreadInv

(* What thread t has to satisfy to be at place p. *)
Fits(s, w, h, t, p) ==
    /\ p \notin {"barrier", "startwait", "none"}
    /\ p # "acting" /\ s.coreRunning[t] # NoCore =>
         /\ s.status[t] \in {"RUNNING", "INITIALIZING"}
         /\ s.core[t] # NoCore => s.cstate[s.core[t]] = s.status[t]
    /\ p = "created" => s.status[t] = "INITIALIZING" /\ s.core[t] = s.coreRunning[t]
    /\ p = "user" => s.status[t] = "RUNNING" /\ s.core[t] = h[t] /\ h[t] \in Cores
    /\ p = "check" =>
         s.status[t] = "RUNNING" \/ (s.status[t] = "STALLED" /\ s.reason[t] \in {"JOIN", "UNSCHEDULED"})
    /\ p = "stalled" => s.status[t] = "STALLED" \/ (s.status[t] = "RUNNING" /\ t \in s.signalled)
    /\ p = "paused" => s.status[t] = "STALLED" /\ s.reason[t] = "PAUSE"
    /\ p = "exited" => s.status[t] = "IDLE"
    /\ p \notin {"stalled", "acting"} =>
         (\A u \in Threads : s.waiter[u] # t) /\ (\A i \in DOMAIN s.sleeping : s.sleeping[i] # t)
    /\ p \notin {"created", "acting"} => s.waiter[t] = NoThread \/ w[s.waiter[t]] # "startwait"

(* A host thread goes to a place that fits. *)
LEMMA PlaceMid ==
  ASSUME NEW w \in [Threads -> Places \union {"acting"}], NEW h, NEW s, Mid(s, w, h), NEW t \in Threads,
         w[t] \notin {"barrier", "startwait"}, NEW p, Fits(s, w, h, t, p), NEW v, v = [w EXCEPT ![t] = p]
  PROVE  Mid(s, v, h)
<1>s. s \in Systems /\ s.waiter \in [Threads -> Threads \union {NoThread}] /\ s.sleeping \in Seq(Threads)
  BY Zenon, SystemsType DEF Mid
<1>n. NoThread \notin Threads
  BY CoresAndThreads
<1>m. /\ Tables(s) /\ Placed(s, w) /\ Ready(s) /\ AtPlaces(s, w, h)
      /\ Waits(s, w) /\ Asleep(s, w) /\ InBarrier(s, w, h)
      /\ s.failed \subseteq {"application deadlocked", "advance spins"}
  BY Zenon DEF Mid
<1>f. Fits(s, w, h, t, p)
  OBVIOUS
<1>v. \A u \in Threads : v[u] = IF u = t THEN p ELSE w[u]
  OBVIOUS
<1>o. w[t] \notin {"barrier", "startwait"}
  OBVIOUS
<1>1. Placed(s, v)
  BY Zenon, <1>m, <1>v, <1>f DEF Placed, Fits
<1>2. AtPlaces(s, v, h)
  <2>1. SUFFICES ASSUME NEW u \in Threads
                 PROVE  /\ v[u] = "none" => s.status[u] = "none" /\ s.coreRunning[u] = NoCore
                        /\ v[u] = "created" => s.status[u] = "INITIALIZING" /\ s.core[u] = s.coreRunning[u]
                        /\ v[u] = "user" => s.status[u] = "RUNNING" /\ s.core[u] = h[u] /\ h[u] \in Cores
                        /\ v[u] = "check" => s.status[u] = "RUNNING"
                             \/ (s.status[u] = "STALLED" /\ s.reason[u] \in {"JOIN", "UNSCHEDULED"})
                        /\ v[u] = "stalled" =>
                             s.status[u] = "STALLED" \/ (s.status[u] = "RUNNING" /\ u \in s.signalled)
                        /\ v[u] \in {"startwait", "barrier"} => s.status[u] = "RUNNING"
                        /\ v[u] = "paused" => s.status[u] = "STALLED" /\ s.reason[u] = "PAUSE"
                        /\ v[u] = "exited" => s.status[u] = "IDLE"
    BY DEF AtPlaces
  <2>2. CASE u = t
    BY <1>v, <1>f, <2>2 DEF Fits
  <2>3. CASE u # t
    BY Zenon, <1>v, <1>m, <2>3 DEF AtPlaces
  <2>4. QED
    BY <2>2, <2>3
<1>3. Waits(s, v)
  <2>1. ASSUME NEW u \in Threads, s.waiter[u] # NoThread
        PROVE  \/ v[s.waiter[u]] = "startwait" /\ v[u] \in {"created", "acting"}
               \/ /\ v[s.waiter[u]] \in {"stalled", "acting"}
                  /\ s.status[s.waiter[u]] = "STALLED" /\ s.reason[s.waiter[u]] = "JOIN"
    <3>1. s.waiter[u] \in Threads
      BY <1>s, <2>1
    <3>2. CASE w[s.waiter[u]] = "startwait" /\ w[u] \in {"created", "acting"}
      <4>1. v[s.waiter[u]] = "startwait"
        BY <1>v, <1>o, <3>1, <3>2
      <4>2. v[u] \in {"created", "acting"}
        BY <1>v, <1>f, <1>n, <3>1, <3>2 DEF Fits
      <4>3. QED
        BY <4>1, <4>2
    <3>3. CASE /\ w[s.waiter[u]] \in {"stalled", "acting"}
               /\ s.status[s.waiter[u]] = "STALLED" /\ s.reason[s.waiter[u]] = "JOIN"
      <4>1. v[s.waiter[u]] \in {"stalled", "acting"}
        BY <1>v, <1>f, <3>1, <3>3 DEF Fits
      <4>2. QED
        BY <3>3, <4>1
    <3>4. QED
      BY Zenon, <1>m, <2>1, <3>2, <3>3 DEF Waits
  <2>2. ASSUME NEW u \in Threads, v[u] = "startwait"
        PROVE  \/ u \in s.signalled
               \/ \E x \in Threads : s.waiter[x] = u /\ v[x] \in {"created", "acting"}
    <3>1. u # t /\ w[u] = "startwait"
      BY <1>v, <1>f, <2>2 DEF Fits
    <3>2. CASE u \in s.signalled
      BY <3>2
    <3>3. CASE \E x \in Threads : s.waiter[x] = u /\ w[x] \in {"created", "acting"}
      <4>1. PICK x \in Threads : s.waiter[x] = u /\ w[x] \in {"created", "acting"}
        BY <3>3
      <4>2. v[x] \in {"created", "acting"}
        BY <1>v, <1>f, <1>n, <3>1, <4>1 DEF Fits
      <4>3. QED
        BY <4>1, <4>2
    <3>4. QED
      BY Zenon, <1>m, <3>1, <3>2, <3>3 DEF Waits
  <2>3. QED
    BY Zenon, <1>m, <2>1, <2>2 DEF Waits
<1>4. Asleep(s, v)
  <2>1. \A i \in DOMAIN s.sleeping : s.sleeping[i] \in Threads
    BY <1>s, ElementOfSeq, LenProperties
  <2>2. \A i \in DOMAIN s.sleeping : v[s.sleeping[i]] \in {"stalled", "acting"}
    BY Zenon, <1>m, <1>v, <1>f, <2>1 DEF Asleep, Fits
  <2>3. QED
    BY Zenon, <1>m, <2>2 DEF Asleep
<1>5. InBarrier(s, v, h)
  <2>1. ASSUME NEW c \in Cores, s.acquired[c]
        PROVE  /\ s.slot[c] \in Threads /\ s.slot[c] \notin s.signalled
               /\ v[s.slot[c]] = "barrier" /\ h[s.slot[c]] = c
               /\ s.core[s.slot[c]] = c \/ s.clock[c] = 0
    BY ZenonT(40), <1>m, <1>v, <1>o, <2>1 DEF InBarrier
  <2>2. ASSUME NEW u \in Threads, v[u] = "barrier"
        PROVE  h[u] \in Cores /\ (u \in s.signalled \/ (s.acquired[h[u]] /\ s.slot[h[u]] = u))
    BY Zenon, <1>m, <1>v, <1>f, <2>2 DEF InBarrier, Fits
  <2>3. Clocks(s)
    BY Zenon, <1>m DEF InBarrier, Clocks
  <2>4. QED
    BY <2>1, <2>2, <2>3 DEF InBarrier, Clocks
<1>6. QED
  BY Zenon, <1>s, <1>m, <1>1, <1>2, <1>3, <1>4, <1>5 DEF Mid

(* Between two steps of a handler of thread t only t's own entries change, *)
(* and whom it waits for.                                                  *)
Acts(s, d, t) ==
    /\ d \in Systems /\ SameTables(s, d) /\ SameModes(s, d)
    /\ d.clock = s.clock /\ d.acquired = s.acquired /\ d.slot = s.slot /\ d.next = s.next
    /\ d.lastPeriodic = s.lastPeriodic /\ d.signalled = s.signalled /\ d.failed = s.failed
    /\ \A u \in Threads : u # t =>
         d.status[u] = s.status[u] /\ d.reason[u] = s.reason[u] /\ d.runnable[u] = s.runnable[u]

(* Only thread t acts: it is to be woken if it has stalled, and who is to be *)
(* woken by it still is or belongs to B.                                     *)
LEMMA ActsWoken ==
  ASSUME NEW s, NEW d, NEW t \in Threads, Acts(s, d, t), NEW w, NEW v, NEW A, NEW B,
         A \subseteq B, Woken(s, w, A), \A u \in Threads : u # t => v[u] = w[u],
         Sleepers(s) \subseteq Sleepers(d),
         \A x \in Threads : s.waiter[x] \in Threads /\ s.status[x] \notin {"none", "IDLE"} =>
            s.waiter[x] \in B \/ (d.waiter[x] = s.waiter[x] /\ d.status[x] \notin {"none", "IDLE"}),
         d.status[t] = "RUNNING" => d.runnable[t],
         d.status[t] = "STALLED" => t \in B \/ Waker(d, t) \/ (d.reason[t] = "PAUSE" /\ v[t] = "paused")
  PROVE  Woken(d, v, B)
<1>1. SUFFICES ASSUME NEW u \in Threads
               PROVE  /\ d.status[u] = "RUNNING" => d.runnable[u]
                      /\ (d.status[u] = "STALLED" /\ u \notin B) =>
                           Waker(d, u) \/ (d.reason[u] = "PAUSE" /\ v[u] = "paused")
  BY DEF Woken
<1>2. CASE u = t
  BY <1>2
<1>3. CASE u # t
  <2>1. d.status[u] = s.status[u] /\ d.reason[u] = s.reason[u] /\ d.runnable[u] = s.runnable[u]
    BY <1>3 DEF Acts
  <2>2. ASSUME Waker(s, u), u \notin B PROVE Waker(d, u)
    BY <2>1, <2>2 DEF Waker
  <2>3. QED
    BY <1>3, <2>1, <2>2 DEF Woken
<1>4. QED
  BY <1>2, <1>3

(* One after the other. *)
LEMMA ActsTransitive ==
  ASSUME NEW s, NEW q, NEW d, NEW t, Acts(s, q, t), Acts(q, d, t)
  PROVE  Acts(s, d, t)
BY DEF Acts, SameTables, SameModes

(* It keeps the invariant while t acts, if nobody waits for what has *)
(* changed.                                                          *)
LEMMA ActsMid ==
  ASSUME NEW w, NEW h, NEW s, Mid(s, w, h), NEW t \in Threads, w[t] = "acting",
         NEW d, Acts(s, d, t), Waits(d, w), Asleep(d, w),
         d.runnable[t] => \/ d.status[t] = "RUNNING"
                          \/ d.status[t] = "STALLED" /\ d.reason[t] = "UNSCHEDULED"
                          \/ d.status[t] = "IDLE" /\ d.coreRunning[t] # NoCore
  PROVE  Mid(d, w, h)
<1>m. /\ Tables(s) /\ Placed(s, w) /\ Ready(s) /\ AtPlaces(s, w, h) /\ InBarrier(s, w, h)
      /\ s.failed \subseteq {"application deadlocked", "advance spins"}
  BY Zenon DEF Mid
<1>a. /\ d \in Systems /\ d.core = s.core /\ d.cthread = s.cthread /\ d.cstate = s.cstate
      /\ d.coreRunning = s.coreRunning /\ d.running = s.running
      /\ d.clock = s.clock /\ d.acquired = s.acquired /\ d.slot = s.slot /\ d.next = s.next
      /\ d.lastPeriodic = s.lastPeriodic /\ d.signalled = s.signalled /\ d.failed = s.failed
      /\ d.disable = s.disable /\ d.aborted = s.aborted
  BY DEF Acts, SameTables, SameModes
<1>u. \A u \in Threads : u # t =>
        d.status[u] = s.status[u] /\ d.reason[u] = s.reason[u] /\ d.runnable[u] = s.runnable[u]
  BY DEF Acts
<1>c. /\ d.core = s.core /\ d.cthread = s.cthread /\ d.cstate = s.cstate
      /\ d.coreRunning = s.coreRunning /\ d.running = s.running
  BY <1>a
<1>g. w[t] = "acting"
  OBVIOUS
<1>1. Tables(d)
  <2>1. Tables(s)
    BY Zenon, <1>m
  <2>2. QED
    BY ONLY <2>1, <1>c, SMTT(30) DEF Tables
<1>2. Placed(d, w)
  <2>1. Placed(s, w)
    BY Zenon, <1>m
  <2>2. \A u \in Threads : w[u] # "acting" => d.status[u] = s.status[u]
    BY <1>u, <1>g
  <2>3. QED
    BY ONLY <2>1, <2>2, <1>c, SMTT(30) DEF Placed
<1>3. Ready(d)
  <2>1. SUFFICES ASSUME NEW u \in Threads, d.runnable[u]
                 PROVE  \/ d.status[u] = "RUNNING"
                        \/ d.status[u] = "STALLED" /\ d.reason[u] = "UNSCHEDULED"
                        \/ d.status[u] = "IDLE" /\ d.coreRunning[u] # NoCore
    BY DEF Ready
  <2>2. CASE u = t
    BY <2>1, <2>2
  <2>3. CASE u # t
    BY ZenonT(40), <1>m, <1>c, <1>u, <2>1, <2>3 DEF Ready
  <2>4. QED
    BY <2>2, <2>3
<1>4. AtPlaces(d, w, h)
  <2>1. SUFFICES ASSUME NEW u \in Threads
                 PROVE  /\ w[u] = "none" => d.status[u] = "none" /\ d.coreRunning[u] = NoCore
                        /\ w[u] = "created" => d.status[u] = "INITIALIZING" /\ d.core[u] = d.coreRunning[u]
                        /\ w[u] = "user" => d.status[u] = "RUNNING" /\ d.core[u] = h[u] /\ h[u] \in Cores
                        /\ w[u] = "check" => d.status[u] = "RUNNING"
                             \/ (d.status[u] = "STALLED" /\ d.reason[u] \in {"JOIN", "UNSCHEDULED"})
                        /\ w[u] = "stalled" =>
                             d.status[u] = "STALLED" \/ (d.status[u] = "RUNNING" /\ u \in d.signalled)
                        /\ w[u] \in {"startwait", "barrier"} => d.status[u] = "RUNNING"
                        /\ w[u] = "paused" => d.status[u] = "STALLED" /\ d.reason[u] = "PAUSE"
                        /\ w[u] = "exited" => d.status[u] = "IDLE"
    BY DEF AtPlaces
  <2>2. CASE u = t
    BY <2>2
  <2>3. CASE u # t
    <3>1. AtPlaces(s, w, h)
      BY Zenon, <1>m
    <3>2. d.status[u] = s.status[u] /\ d.reason[u] = s.reason[u] /\ d.signalled = s.signalled
      BY <1>a, <1>u, <2>3
    <3>3. QED
      BY ONLY <2>1, <3>1, <3>2, <1>c, SMTT(30) DEF AtPlaces
  <2>4. QED
    BY <2>2, <2>3
<1>5. InBarrier(d, w, h)
  <2>1. /\ \A c \in Cores : d.acquired[c] =>
              /\ d.slot[c] \in Threads /\ d.slot[c] \notin d.signalled
              /\ w[d.slot[c]] = "barrier" /\ h[d.slot[c]] = c
              /\ d.core[d.slot[c]] = c \/ d.clock[c] = 0
        /\ \A u \in Threads : w[u] = "barrier" =>
              h[u] \in Cores /\ (u \in d.signalled \/ (d.acquired[h[u]] /\ d.slot[h[u]] = u))
    <3>1. /\ \A c \in Cores : s.acquired[c] =>
              /\ s.slot[c] \in Threads /\ s.slot[c] \notin s.signalled
              /\ w[s.slot[c]] = "barrier" /\ h[s.slot[c]] = c
              /\ s.core[s.slot[c]] = c \/ s.clock[c] = 0
          /\ \A u \in Threads : w[u] = "barrier" =>
              h[u] \in Cores /\ (u \in s.signalled \/ (s.acquired[h[u]] /\ s.slot[h[u]] = u))
      BY Zenon, <1>m DEF InBarrier
    <3>2. d.acquired = s.acquired /\ d.slot = s.slot /\ d.signalled = s.signalled /\ d.clock = s.clock
      BY <1>a
    <3>3. QED
      BY ONLY <3>1, <3>2, <1>c
  <2>2. Clocks(s)
    BY Zenon, <1>m DEF InBarrier, Clocks
  <2>3. Clocks(d)
    BY <2>2, <1>a DEF Clocks
  <2>4. QED
    BY ONLY <2>1, <2>3 DEF InBarrier, Clocks
<1>6. QED
  BY Zenon, <1>a, <1>m, <1>1, <1>2, <1>3, <1>4, <1>5 DEF Mid

(* A move that does not touch the threads in the barrier keeps them where *)
(* they were held.                                                        *)
LEMMA MovesHeld ==
  ASSUME NEW w, NEW h, NEW s, Mid(s, w, h), Held(s), NEW r, NEW E, Moves(s, r, E), Mid(r, w, h),
         \A t \in E : w[t] # "barrier"
  PROVE  Held(r) /\ SameModes(s, r) /\ Signals(s, r)
<1>m. Tables(s) /\ Held(s) /\ InBarrier(s, w, h) /\ s \in Systems /\ r \in Systems
  BY Zenon DEF Mid
<1>t. /\ s.core \in [Threads -> Cores \union {NoCore}] /\ r.core \in [Threads -> Cores \union {NoCore}]
      /\ r.coreRunning \in [Threads -> Cores \union {NoCore}]
  BY <1>m, SystemsType
<1>n. NoCore \notin Cores
  BY CoresAndThreads
<1>1. Turns(s, r)
  BY MovesTurns
<1>3. SameModes(s, r) /\ Signals(s, r)
  BY <1>1 DEF Turns, SameModes
<1>4. r.acquired = s.acquired /\ r.slot = s.slot /\ r.next = s.next /\ r.fastforward = s.fastforward
  BY <1>1 DEF Turns
<1>5. ASSUME NEW c \in Cores, s.acquired[c]
      PROVE  r.core[s.slot[c]] = c /\ r.clock[c] = s.clock[c]
  <2>1. PICK u : u = s.slot[c]
    OBVIOUS
  <2>2. u \in Threads /\ w[u] = "barrier" /\ s.core[u] = c
    BY <1>m, <1>5, <2>1 DEF InBarrier, Held
  <2>3. u \notin E /\ s.coreRunning[u] = c
    BY <1>m, <1>n, <2>2 DEF Tables
  <2>4. r.core[u] = c
    BY <1>n, <2>2, <2>3 DEF Moves
  <2>5. r.clock[c] = s.clock[c]
    BY <1>n, <2>1, <2>3 DEF Moves
  <2>6. QED
    BY <2>1, <2>4, <2>5
<1>6. Held(r)
  BY <1>4, <1>5, <1>m DEF Held
<1>7. QED
  BY <1>3, <1>6

(* Rescheduling leaves the barrier alone but for the threads that lose their *)
(* core.                                                                     *)
LEMMA MovesEnds ==
  ASSUME NEW w, NEW h, NEW s, Ends(s, w, h), NEW r, NEW E, Moves(s, r, E), Mid(r, w, h),
         \A t \in E : w[t] # "barrier"
  PROVE  Ends(r, w, h) /\ SameModes(s, r) /\ Signals(s, r)
<1>m. Mid(s, w, h) /\ Settled(s) /\ Held(s) /\ r \in Systems
  BY Zenon DEF Ends, Mid
<1>1. Turns(s, r)
  BY MovesTurns
<1>2. Settled(r)
  BY <1>1, <1>m, TurnsSettled
<1>3. Held(r) /\ SameModes(s, r) /\ Signals(s, r)
  BY <1>m, MovesHeld
<1>4. QED
  BY <1>2, <1>3 DEF Ends

(* releaseThread changes no clock of a thread that is not in the barrier. *)
LEMMA ReleaseSame ==
  ASSUME NEW w, NEW h, NEW s, Ends(s, w, h), NEW t \in Threads, w[t] # "barrier"
  PROVE  Ends(ReleaseThread(s, t), w, h) /\ Same(s, ReleaseThread(s, t))
<1>m. Mid(s, w, h) /\ Settled(s) /\ Held(s) /\ InBarrier(s, w, h) /\ s \in Systems
  BY Zenon DEF Ends, Mid
<1>t. s.clock \in [Cores -> Nat]
  BY <1>m, SystemsType
<1>1. \A c \in Cores : ~(s.acquired[c] /\ s.slot[c] = t)
  BY <1>m DEF InBarrier
<1>2. PICK f : f = [c \in Cores |-> IF s.acquired[c] /\ s.slot[c] = t THEN 0 ELSE s.clock[c]]
  BY Zenon
<1>3. f = s.clock
  BY <1>1, <1>2, <1>t
<1>4. ReleaseThread(s, t) = [s EXCEPT !.clock = f]
  BY <1>2 DEF ReleaseThread
<1>5. PICK r : r = ReleaseThread(s, t)
  OBVIOUS
<1>6. r \in Systems
  BY ZenonT(40), <1>3, <1>4, <1>5, <1>m DEF Systems
<1>7. SameRest(s, r) /\ SameThreads(s, r) /\ SameTables(s, r) /\ r.clock = s.clock
  BY <1>3, <1>4, <1>5, <1>m DEF Systems, SameRest, SameThreads, SameTables
<1>8. Same(s, r)
  BY <1>6, <1>7 DEF Same
<1>9. Mid(r, w, h)
  BY <1>8, <1>m, SameMid
<1>10. Settled(r) /\ Held(r)
  BY <1>7, <1>m DEF Settled, Held, SameTables, SameRest
<1>11. QED
  BY <1>5, <1>8, <1>9, <1>10 DEF Ends

(* Thread t goes to sleep for a reason. *)
Down(s, t, reason) ==
    IF reason = "UNSCHEDULED" THEN [s EXCEPT !.status[t] = "STALLED", !.reason[t] = reason]
    ELSE [[s EXCEPT !.status[t] = "STALLED", !.reason[t] = reason] EXCEPT !.runnable[t] = FALSE]

(* What a stall writes down about the thread. *)
LEMMA DownIs ==
  ASSUME NEW s \in Systems, NEW t \in Threads, NEW reason \in Reasons
  PROVE  LET d == Down(s, t, reason)
         IN  /\ Acts(s, d, t) /\ d.waiter = s.waiter /\ d.sleeping = s.sleeping
             /\ d.status[t] = "STALLED" /\ d.reason[t] = reason
             /\ IF reason = "UNSCHEDULED" THEN d.runnable = s.runnable ELSE ~d.runnable[t]
<1>t. /\ s.status \in [Threads -> Statuses] /\ s.reason \in [Threads -> Reasons]
      /\ s.runnable \in [Threads -> BOOLEAN]
  BY SystemsType
<1>1. PICK a : a = [s EXCEPT !.status[t] = "STALLED", !.reason[t] = reason]
  OBVIOUS
<1>2. a \in Systems
  BY Zenon, <1>1 DEF Systems, Statuses
<1>3. PICK b : b = [a EXCEPT !.runnable[t] = FALSE]
  BY Zenon
<1>4. b \in Systems
  BY Zenon, <1>2, <1>3 DEF Systems
<1>5. /\ SameTables(s, a) /\ SameModes(s, a)
      /\ a.clock = s.clock /\ a.acquired = s.acquired /\ a.slot = s.slot /\ a.next = s.next
      /\ a.lastPeriodic = s.lastPeriodic /\ a.signalled = s.signalled /\ a.failed = s.failed
      /\ a.waiter = s.waiter /\ a.sleeping = s.sleeping
      /\ a.status = [s.status EXCEPT ![t] = "STALLED"] /\ a.reason = [s.reason EXCEPT ![t] = reason]
      /\ a.runnable = s.runnable
  BY <1>1 DEF Systems, SameTables, SameModes
<1>6. Acts(s, a, t) /\ a.status[t] = "STALLED" /\ a.reason[t] = reason
  BY <1>2, <1>5, <1>t DEF Acts
<1>7. /\ SameTables(a, b) /\ SameModes(a, b)
      /\ b.clock = a.clock /\ b.acquired = a.acquired /\ b.slot = a.slot /\ b.next = a.next
      /\ b.lastPeriodic = a.lastPeriodic /\ b.signalled = a.signalled /\ b.failed = a.failed
      /\ b.waiter = a.waiter /\ b.sleeping = a.sleeping
      /\ b.status = a.status /\ b.reason = a.reason
      /\ b.runnable = [a.runnable EXCEPT ![t] = FALSE]
  BY <1>2, <1>3 DEF Systems, SameTables, SameModes
<1>8. Acts(a, b, t) /\ ~b.runnable[t]
  BY <1>4, <1>5, <1>7, <1>t DEF Acts
<1>9. Acts(s, b, t)
  BY <1>6, <1>8, ActsTransitive
<1>10. CASE reason = "UNSCHEDULED"
  <2>1. Down(s, t, reason) = a
    BY <1>1, <1>10 DEF Down
  <2>2. QED
    BY Zenon, <1>5, <1>6, <1>10, <2>1
<1>11. CASE reason # "UNSCHEDULED"
  <2>1. Down(s, t, reason) = b
    BY <1>1, <1>3, <1>11 DEF Down
  <2>2. QED
    BY Zenon, <1>5, <1>6, <1>7, <1>8, <1>9, <1>11, <2>1
<1>12. QED
  BY <1>10, <1>11

(* Only thread t acts, and it gives its core up. *)
LEMMA OffEnd ==
  ASSUME NEW w \in [Threads -> Places \union {"acting"}], NEW h, NEW d, Ends(d, w, h),
         NEW t \in Threads, w[t] = "acting", d.status[t] \notin {"INITIALIZING"},
         ~d.runnable[t]
  PROVE  /\ Ends(RescheduleCoreOf(d, t), w, h) /\ Moves(d, RescheduleCoreOf(d, t), {t})
         /\ RescheduleCoreOf(d, t).coreRunning[t] = NoCore
         /\ RescheduleCoreOf(d, t).status[t] = d.status[t] /\ RescheduleCoreOf(d, t).reason[t] = d.reason[t]
         /\ ~RescheduleCoreOf(d, t).runnable[t]
<1>m. Mid(d, w, h) /\ d \in Systems /\ Tables(d)
  BY Zenon DEF Ends, Mid
<1>t. d.coreRunning \in [Threads -> Cores \union {NoCore}]
  BY <1>m, SystemsType
<1>1. PICK r : r = RescheduleCoreOf(d, t)
  OBVIOUS
<1>2. Mid(r, w, h) /\ Moves(d, r, {t}) /\ r.coreRunning[t] = NoCore
  <2>1. CASE d.coreRunning[t] = NoCore
    <3>1. r = d
      BY <1>1, <2>1 DEF RescheduleCoreOf
    <3>2. Moves(d, d, {t})
      BY <1>m, NoMoveMoves
    <3>3. QED
      BY <1>m, <2>1, <3>1, <3>2
  <2>2. CASE d.coreRunning[t] # NoCore
    <3>1. PICK c \in Cores : c = d.coreRunning[t]
      BY <1>t, <2>2
    <3>2. d.running[c] = t
      BY <1>m, <3>1 DEF Tables
    <3>3. r = RescheduleCore(d, c)
      BY <1>1, <2>2, <3>1 DEF RescheduleCoreOf
    <3>4. Movable(d, w, c)
      BY <3>2 DEF Movable
    <3>5. Mid(r, w, h) /\ Moves(d, r, {t}) /\ r.coreRunning[t] = NoCore
      BY <1>m, <3>2, <3>3, <3>4, RescheduleCoreMid
    <3>6. QED
      BY <3>5
  <2>3. QED
    BY <2>1, <2>2
<1>3. Ends(r, w, h)
  BY <1>2, MovesEnds
<1>4. r.status[t] = d.status[t] /\ r.reason[t] = d.reason[t] /\ r.runnable[t] = d.runnable[t]
  BY <1>2 DEF Moves, Awakens
<1>5. QED
  BY <1>1, <1>2, <1>3, <1>4

(* Thread t, which was acting, is done: its place is known, and the barrier *)
(* gets to know it.                                                         *)
LEMMA LeaveEnd ==
  ASSUME NEW w \in [Threads -> Places \union {"acting"}], NEW h, NEW d, Ends(d, w, h), ~d.aborted,
         NEW t \in Threads, w[t] = "acting", \A u \in Threads : u # t => w[u] # "acting",
         NEW p, p \in Places, Fits(d, w, h, t, p), NEW v, v = [w EXCEPT ![t] = p]
  PROVE  Over(d, Signal(ReleaseThread(d, t)), v, h)
<1>m. Mid(d, w, h) /\ Settled(d) /\ Held(d)
  BY DEF Ends
<1>v. v \in [Threads -> Places \union {"acting"}] /\ v[t] = p /\ NoActing(v)
  BY DEF NoActing, Places
<1>1. Mid(d, v, h)
  BY Zenon, <1>m, PlaceMid
<1>2. Ends(d, v, h)
  BY <1>1, <1>m DEF Ends
<1>3. v[t] # "barrier"
  BY <1>v DEF Fits
<1>4. PICK r : r = ReleaseThread(d, t)
  OBVIOUS
<1>5. Ends(r, v, h) /\ Same(d, r)
  BY Zenon, <1>2, <1>3, <1>4, ReleaseSame
<1>6. SameModes(d, r) /\ Signals(d, r)
  BY <1>5, SameSignals DEF Same, SameRest, SameThreads, SameModes
<1>7. ~r.aborted
  BY <1>6 DEF SameModes
<1>8. Over(r, Signal(r), v, h)
  BY Zenon, <1>5, <1>7, <1>v, SignalEnd
<1>9. Over(d, Signal(r), v, h)
  <2>1. CASE ~(Signal(r).next <= MaxTime)
    BY <2>1 DEF Over
  <2>2. CASE Ends(Signal(r), v, h) /\ Goes(Signal(r), v) /\ SameModes(r, Signal(r)) /\ Signals(r, Signal(r))
    <3>1. Signals(d, Signal(r))
      BY <1>6, <2>2, SignalsTransitive
    <3>2. SameModes(d, Signal(r))
      BY <1>6, <2>2 DEF SameModes
    <3>3. QED
      BY <2>2, <3>1, <3>2 DEF Over
  <2>3. QED
    BY <1>8, <2>1, <2>2 DEF Over
<1>10. QED
  BY <1>4, <1>9

(* ThreadManager::stallThread_async and stallThread. *)
LEMMA StallAsyncEnd ==
  ASSUME NEW w \in [Threads -> Places \union {"acting"}], NEW h, NEW s \in Systems,
         NEW t \in Threads, w[t] = "acting", \A u \in Threads : u # t => w[u] # "acting",
         NEW reason \in Reasons, NEW d, d = Down(s, t, reason), Ends(d, w, h), ~d.aborted,
         reason = "UNSCHEDULED" => d.coreRunning[t] = NoCore,
         d.waiter[t] = NoThread \/ w[d.waiter[t]] # "startwait",
         NEW p, p = "stalled" \/ (p = "paused" /\ reason = "PAUSE"), NEW v, v = [w EXCEPT ![t] = p]
  PROVE  Over(d, StallThread_async(s, t, reason), v, h)
<1>m. Mid(d, w, h)
  BY DEF Ends
<1>d. /\ d \in Systems /\ d.status[t] = "STALLED" /\ d.reason[t] = reason
      /\ reason # "UNSCHEDULED" => ~d.runnable[t]
  BY DownIs DEF Acts
<1>1. PICK off : off = IF reason = "UNSCHEDULED" THEN d ELSE RescheduleCoreOf(d, t)
  OBVIOUS
<1>2. StallThread_async(s, t, reason) = Signal(ReleaseThread(off, t))
  BY <1>1 DEF StallThread_async, Down
<1>o. ~d.runnable[t] =>
        /\ Ends(RescheduleCoreOf(d, t), w, h) /\ Moves(d, RescheduleCoreOf(d, t), {t})
        /\ RescheduleCoreOf(d, t).coreRunning[t] = NoCore
        /\ RescheduleCoreOf(d, t).status[t] = d.status[t] /\ RescheduleCoreOf(d, t).reason[t] = d.reason[t]
  <2>1. SUFFICES ASSUME ~d.runnable[t]
        PROVE  /\ Ends(RescheduleCoreOf(d, t), w, h) /\ Moves(d, RescheduleCoreOf(d, t), {t})
               /\ RescheduleCoreOf(d, t).coreRunning[t] = NoCore
               /\ RescheduleCoreOf(d, t).status[t] = d.status[t] /\ RescheduleCoreOf(d, t).reason[t] = d.reason[t]
    OBVIOUS
  <2>2. d.status[t] \notin {"INITIALIZING"}
    BY <1>d
  <2>3. QED
    BY <2>1, <2>2, OffEnd
<1>3. /\ Ends(off, w, h) /\ Moves(d, off, {t})
      /\ off.coreRunning[t] = NoCore /\ off.status[t] = "STALLED" /\ off.reason[t] = reason
  <2>1. Moves(d, d, {t})
    BY <1>m, NoMoveMoves
  <2>2. CASE reason = "UNSCHEDULED"
    BY <1>1, <1>d, <2>1, <2>2
  <2>3. CASE reason # "UNSCHEDULED"
    <3>1. off = RescheduleCoreOf(d, t)
      BY <1>1, <2>3
    <3>2. QED
      BY <1>o, <1>d, <2>3, <3>1
  <2>4. QED
    BY <2>2, <2>3
<1>4. off.coreRunning[t] = NoCore /\ off.status[t] = "STALLED" /\ off.reason[t] = reason
  BY <1>3
<1>5. SameModes(d, off) /\ Signals(d, off)
  BY <1>3, MovesTurns DEF Turns, SameModes
<1>6. off.waiter = d.waiter /\ off.sleeping = d.sleeping /\ ~off.aborted
  BY <1>3, <1>5 DEF Moves, SameRest, SameModes
<1>7. Mid(off, w, h)
  BY <1>3 DEF Ends
<1>8. Fits(off, w, h, t, p)
  <2>1. p \in {"stalled", "paused"}
    OBVIOUS
  <2>2. p = "paused" => /\ \A u \in Threads : off.waiter[u] # t
                        /\ \A i \in DOMAIN off.sleeping : off.sleeping[i] # t
    <3>1. SUFFICES ASSUME p = "paused" PROVE /\ \A u \in Threads : off.waiter[u] # t
                                             /\ \A i \in DOMAIN off.sleeping : off.sleeping[i] # t
      OBVIOUS
    <3>2. off.reason[t] = "PAUSE"
      BY <1>4, <3>1
    <3>3. t # NoThread
      BY CoresAndThreads
    <3>4. Waits(off, w) /\ Asleep(off, w)
      BY Zenon, <1>7 DEF Mid
    <3>5. QED
      BY <3>2, <3>3, <3>4 DEF Waits, Asleep
  <2>3. p = "paused" => off.reason[t] = "PAUSE"
    BY <1>4
  <2>4. off.waiter[t] = NoThread \/ w[off.waiter[t]] # "startwait"
    BY <1>6
  <2>5. QED
    BY <1>4, <2>1, <2>2, <2>3, <2>4 DEF Fits
<1>9. p \in Places
  BY DEF Places
<1>10. Over(off, Signal(ReleaseThread(off, t)), v, h)
  BY Zenon, <1>3, <1>6, <1>8, <1>9, LeaveEnd
<1>11. Over(d, Signal(ReleaseThread(off, t)), v, h)
  BY <1>5, <1>10, SignalsTransitive DEF Over, SameModes
<1>12. QED
  BY <1>2, <1>11

(* ThreadManager::stallThread. *)
LEMMA StallEnd ==
  ASSUME NEW w \in [Threads -> Places \union {"acting"}], NEW h, NEW s \in Systems,
         NEW t \in Threads, w[t] = "acting", \A u \in Threads : u # t => w[u] # "acting",
         NEW reason \in Reasons, NEW d, d = Down(s, t, reason), Ends(d, w, h), ~d.aborted,
         reason = "UNSCHEDULED" => d.coreRunning[t] = NoCore,
         d.waiter[t] = NoThread \/ w[d.waiter[t]] # "startwait",
         NEW v, v = [w EXCEPT ![t] = "stalled"]
  PROVE  Over(d, StallThread(s, t, reason), v, h)
<1>1. PICK x : x = StallThread_async(s, t, reason)
  OBVIOUS
<1>2. Over(d, x, v, h)
  BY Zenon, <1>1, StallAsyncEnd
<1>3. StallThread(s, t, reason) = AdvanceLoop(x)
  BY <1>1 DEF StallThread
<1>v. v \in [Threads -> Places \union {"acting"}] /\ NoActing(v)
  BY DEF NoActing, Places
<1>4. CASE ~(x.next <= MaxTime)
  <2>1. AdvanceLoop(x) = x
    BY Zenon, <1>4 DEF AdvanceLoop, Advances
  <2>2. QED
    BY <1>2, <1>3, <2>1
<1>5. CASE Ends(x, v, h) /\ Goes(x, v) /\ SameModes(d, x) /\ Signals(d, x)
  <2>1. Over(x, AdvanceLoop(x), v, h)
    BY Zenon, <1>5, <1>v, AdvanceEnd
  <2>2. CASE ~(AdvanceLoop(x).next <= MaxTime)
    BY <1>3, <2>2 DEF Over
  <2>3. CASE /\ Ends(AdvanceLoop(x), v, h) /\ Goes(AdvanceLoop(x), v)
             /\ SameModes(x, AdvanceLoop(x)) /\ Signals(x, AdvanceLoop(x))
    <3>1. Signals(d, AdvanceLoop(x))
      BY <1>5, <2>3, SignalsTransitive
    <3>2. SameModes(d, AdvanceLoop(x))
      BY <1>5, <2>3 DEF SameModes
    <3>3. QED
      BY <1>3, <2>3, <3>1, <3>2 DEF Over
  <2>4. QED
    BY <2>1, <2>2, <2>3 DEF Over
<1>6. QED
  BY <1>2, <1>4, <1>5 DEF Over

(* A handler of thread t begins: t acts. *)
LEMMA EnterEnds ==
  ASSUME ThreadInv, NEW t \in Threads, where[t] \notin {"barrier", "startwait"},
         NEW w, w = [where EXCEPT ![t] = "acting"]
  PROVE  /\ Ends(sys, w, here) /\ w \in [Threads -> Places \union {"acting"}]
         /\ w[t] = "acting" /\ \A u \in Threads : u # t => w[u] = where[u] /\ w[u] # "acting"
<1>i. /\ Mid(sys, where, here) /\ Settled(sys) /\ Held(sys) /\ where \in [Threads -> Places]
  BY DEF ThreadInv
<1>1. where \in [Threads -> Places \union {"acting"}]
  BY <1>i
<1>2. Fits(sys, where, here, t, "acting")
  BY DEF Fits
<1>3. Mid(sys, w, here)
  BY Zenon, <1>i, <1>1, <1>2, PlaceMid
<1>4. \A u \in Threads : where[u] # "acting"
  BY <1>i DEF Places
<1>5. QED
  BY <1>i, <1>3, <1>4 DEF Ends

(* What a critical section starts from, when an abort ends the run. *)
LEMMA CommitBegins ==
  ASSUME ~FollowAborts, NEW r, NEW t, NEW next, NEW core, Commit(r, t, next, core)
  PROVE  sys.failed = {} /\ ~sys.aborted /\ r.next <= MaxTime
BY DEF Commit

(* Whoever has been signalled since nobody was runs. *)
LEMMA HeardNobody ==
  ASSUME NEW d, NEW r, NEW w, Signals(d, r), d.signalled = {}
  PROVE  Heard(r, w) /\ \A t \in Threads : t \in r.signalled => r.status[t] = "RUNNING"
BY DEF Heard, Signals

(* A thread stalls, and somebody is to wake it. *)
LEMMA DownWoken ==
  ASSUME ThreadInv, NEW t \in Threads, where[t] # "paused", NEW d, Acts(sys, d, t), d.status[t] = "STALLED",
         Waker(d, t) \/ t \in abandoned, Sleepers(sys) \subseteq Sleepers(d),
         \A u \in Threads : sys.waiter[u] \in Threads => d.waiter[u] = sys.waiter[u]
  PROVE  Woken(d, where, abandoned)
<1>1. Woken(sys, where, abandoned)
  BY DEF ThreadInv
<1>2. \A x \in Threads : sys.status[x] \notin {"none", "IDLE"} => d.status[x] \notin {"none", "IDLE"}
  BY DEF Acts
<1>3. QED
  BY <1>1, <1>2, ActsWoken

(* Nobody is forgotten between two critical sections. *)
LEMMA MoreAbandoned == \A r : abandoned \subseteq Abandoned(r)
BY DEF Abandoned

(* Everybody is still to be woken after the critical section of a thread. *)
LEMMA StillWoken ==
  ASSUME NEW s, Woken(s, where, abandoned), NEW r, Signals(s, r), NEW t \in Threads,
         where[t] # "paused" \/ r.status[t] = "RUNNING", NEW v, \A u \in Threads : u # t => v[u] = where[u]
  PROVE  Woken(r, v, Abandoned(r))
<1>1. \A u \in Threads : (where[u] = "paused" /\ r.status[u] = "STALLED") => v[u] = "paused"
  OBVIOUS
<1>2. QED
  BY <1>1, WokenOn, MoreAbandoned

(* Every stall of a thread, with what the servers have noted about it *)
(* before.                                                            *)
LEMMA StallInInv ==
  ASSUME ~FollowAborts, ThreadInv, NEW t \in Threads, where[t] \in {"user", "check"},
         NEW w, w = [where EXCEPT ![t] = "acting"],
         NEW s, Acts(sys, s, t), NEW reason \in Reasons, NEW d, d = Down(s, t, reason),
         Waits(d, w), Asleep(d, w), Woken(d, where, abandoned),
         reason = "UNSCHEDULED" => sys.coreRunning[t] = NoCore,
         s.waiter[t] = NoThread \/ w[s.waiter[t]] # "startwait",
         StallIn(s, t, reason)
  PROVE  ThreadInv'
<1>i. /\ where \in [Threads -> Places] /\ here \in [Threads -> Cores \union {NoCore}] /\ sys.signalled = {}
  BY DEF ThreadInv
<1>w. /\ Ends(sys, w, here) /\ w \in [Threads -> Places \union {"acting"}]
      /\ w[t] = "acting" /\ \A u \in Threads : u # t => w[u] = where[u] /\ w[u] # "acting"
  <2>1. where[t] \notin {"barrier", "startwait"}
    OBVIOUS
  <2>2. QED
    BY Zenon, <2>1, EnterEnds
<1>1. PICK r : r = StallThread(s, t, reason)
  OBVIOUS
<1>2. Commit(r, t, AfterStall(r, t), here[t])
  BY <1>1 DEF StallIn
<1>3. ~sys.aborted /\ r.next <= MaxTime
  BY <1>2, CommitBegins
<1>s. s \in Systems
  BY DEF Acts
<1>4. /\ Acts(s, d, t) /\ d.waiter = s.waiter /\ d.status[t] = "STALLED" /\ d.reason[t] = reason
      /\ reason # "UNSCHEDULED" => ~d.runnable[t]
  BY <1>s, DownIs
<1>5. Acts(sys, d, t)
  BY <1>4, ActsTransitive
<1>6. Ends(d, w, here)
  <2>1. Mid(sys, w, here) /\ Settled(sys) /\ Held(sys)
    BY <1>w DEF Ends
  <2>2. d.runnable[t] => d.status[t] = "RUNNING" \/ (d.status[t] = "STALLED" /\ d.reason[t] = "UNSCHEDULED")
    BY <1>4
  <2>3. Mid(d, w, here)
    BY Zenon, <1>5, <1>w, <2>1, <2>2, ActsMid
  <2>4. Settled(d) /\ Held(d)
    BY <1>5, <2>1 DEF Acts, SameTables, SameModes, Settled, Held
  <2>5. QED
    BY <2>3, <2>4 DEF Ends
<1>7. ~d.aborted /\ d.signalled = {} /\ (reason = "UNSCHEDULED" => d.coreRunning[t] = NoCore)
  BY <1>3, <1>5, <1>i DEF Acts, SameModes, SameTables
<1>8. d.waiter[t] = NoThread \/ w[d.waiter[t]] # "startwait"
  BY <1>4
<1>9. PICK v : v = [where EXCEPT ![t] = "stalled"]
  BY Zenon
<1>10. v = [w EXCEPT ![t] = "stalled"]
  BY <1>9, <1>i
<1>11. \A u \in Threads : u # t => w[u] # "acting"
  BY <1>w
<1>12. Over(d, r, v, here)
  BY <1>w, <1>s, <1>6, <1>7, <1>8, <1>10, <1>11, <1>1, StallEnd
<1>13. Ends(r, v, here) /\ Goes(r, v) /\ Signals(d, r)
  BY <1>3, <1>12 DEF Over
<1>14. \A x : Heard(r, x)
  BY <1>7, <1>13, HeardNobody
<1>15. t \in r.signalled => r.status[t] = "RUNNING"
  BY Zenon, <1>7, <1>13, HeardNobody
<1>v. v \in [Threads -> Places \union {"acting"}] /\ v[t] = "stalled"
  BY <1>9, <1>i DEF Places
<1>k. \A x : (\A u \in Threads : u # t => x[u] = where[u]) => Woken(r, x, Abandoned(r))
  <2>1. SUFFICES ASSUME NEW x, \A u \in Threads : u # t => x[u] = where[u] PROVE Woken(r, x, Abandoned(r))
    OBVIOUS
  <2>2. \A u \in Threads : where[u] = "paused" => x[u] = "paused"
    BY <2>1
  <2>3. QED
    BY <1>13, <2>2, WokenOn, MoreAbandoned
<1>16. CASE r.status[t] = "RUNNING"
  <2>1. PICK x : x = [where EXCEPT ![t] = "check"]
    BY Zenon
  <2>2. x = [v EXCEPT ![t] = "check"] /\ x[t] = "check"
    BY <1>9, <1>i, <2>1
  <2>3. Mid(r, v, here) /\ Settled(r) /\ Held(r)
    BY <1>13 DEF Ends
  <2>4. Fits(r, v, here, t, "check")
    <3>1. Placed(r, v) /\ Waits(r, v) /\ Asleep(r, v)
      BY Zenon, <2>3 DEF Mid
    <3>2. r.coreRunning[t] # NoCore =>
            /\ r.status[t] \in {"RUNNING", "INITIALIZING"}
            /\ r.core[t] # NoCore => r.cstate[r.core[t]] = r.status[t]
      BY <1>v, <3>1 DEF Placed
    <3>3. t # NoThread
      BY CoresAndThreads
    <3>4. \A u \in Threads : r.waiter[u] # t
      BY <1>v, <1>16, <3>1, <3>3 DEF Waits
    <3>5. \A i \in DOMAIN r.sleeping : r.sleeping[i] # t
      BY <1>16, <3>1 DEF Asleep
    <3>6. r.waiter[t] = NoThread \/ v[r.waiter[t]] # "startwait"
      BY <1>v, <3>1 DEF Waits
    <3>7. QED
      BY <1>16, <3>2, <3>4, <3>5, <3>6 DEF Fits
  <2>5. v[t] \notin {"barrier", "startwait"}
    BY <1>v
  <2>6. Mid(r, x, here)
    BY Zenon, <1>v, <2>2, <2>3, <2>4, <2>5, PlaceMid
  <2>k. Woken(r, x, Abandoned(r))
    BY <1>i, <1>k, <2>1
  <2>7. Ends(r, x, here) /\ Heard(r, x) /\ Goes(r, x)
    BY <1>14, <2>2, <2>3, <2>6 DEF Ends, Goes
  <2>8. Done(r, x, here, t, "check", here[t])
    BY <1>i, <2>1, <2>k, <2>7 DEF Done, Places
  <2>9. Commit(r, t, "check", here[t])
    BY <1>2, <1>16 DEF AfterStall
  <2>10. QED
    BY <1>i, <2>8, <2>9, CommitInv
<1>17. CASE r.status[t] # "RUNNING"
  <2>1. t \notin r.signalled
    BY <1>15, <1>17
  <2>k. Woken(r, v, Abandoned(r))
    BY <1>i, <1>k, <1>9
  <2>2. Done(r, v, here, t, "stalled", here[t])
    BY <1>i, <1>9, <1>13, <1>14, <2>1, <2>k DEF Done, Places
  <2>3. Commit(r, t, "stalled", here[t])
    BY <1>2, <1>17 DEF AfterStall
  <2>4. QED
    BY <1>i, <2>2, <2>3, CommitInv
<1>18. QED
  BY <1>16, <1>17

(* Nobody has noted thread t as waiting while it executes. *)
LEMMA CallerIsFree ==
  ASSUME ThreadInv, NEW t \in Threads, where[t] \in {"user", "check"}
  PROVE  /\ \A u \in Threads : where[u] = "startwait" => \E x \in Threads : sys.waiter[x] = u
         /\ where[t] = "user" => \A u \in Threads : sys.waiter[u] # t
         /\ sys.status[t] = "RUNNING" => \A u \in Threads : sys.waiter[u] # t
         /\ sys.reason[t] # "JOIN" => \A u \in Threads : sys.waiter[u] # t
         /\ \A i \in DOMAIN sys.sleeping : sys.sleeping[i] # t
         /\ sys.waiter[t] = NoThread \/ where[sys.waiter[t]] # "startwait"
<1>1. /\ Waits(sys, where) /\ Asleep(sys, where) /\ sys.signalled = {} /\ sys \in Systems
  BY Zenon DEF ThreadInv, Mid
<1>2. t # NoThread
  BY CoresAndThreads
<1>3. QED
  BY <1>1, <1>2 DEF Waits, Asleep

(* A thread nobody waits for may change what it is. *)
LEMMA CallerWaits ==
  ASSUME ThreadInv, NEW t \in Threads, \A u \in Threads : sys.waiter[u] # t,
         where[t] # "startwait",
         NEW w, w = [where EXCEPT ![t] = "acting"], NEW d, Acts(sys, d, t), d.waiter = sys.waiter
  PROVE  Waits(d, w)
<1>1. Waits(sys, where) /\ sys.signalled = {} /\ sys \in Systems /\ where \in [Threads -> Places]
  BY Zenon DEF ThreadInv, Mid
<1>t. sys.waiter \in [Threads -> Threads \union {NoThread}]
  BY <1>1, SystemsType
<1>2. /\ d.signalled = {} /\ d.waiter = sys.waiter
      /\ \A u \in Threads : u # t => d.status[u] = sys.status[u] /\ d.reason[u] = sys.reason[u]
  BY <1>1 DEF Acts
<1>w. \A u \in Threads : w[u] = IF u = t THEN "acting" ELSE where[u]
  BY <1>1
<1>3. ASSUME NEW u \in Threads, sys.waiter[u] # NoThread
      PROVE  \/ w[sys.waiter[u]] = "startwait" /\ w[u] \in {"created", "acting"}
             \/ /\ w[sys.waiter[u]] \in {"stalled", "acting"}
                /\ d.status[sys.waiter[u]] = "STALLED" /\ d.reason[sys.waiter[u]] = "JOIN"
  <2>1. PICK x \in Threads : x = sys.waiter[u] /\ x # t
    BY <1>t, <1>3
  <2>2. \/ where[x] = "startwait" /\ where[u] \in {"created", "acting"}
        \/ /\ where[x] \in {"stalled", "acting"}
           /\ sys.status[x] = "STALLED" /\ sys.reason[x] = "JOIN"
    BY <1>1, <1>3, <2>1 DEF Waits
  <2>3. QED
    BY <1>2, <1>w, <2>1, <2>2
<1>4. ASSUME NEW u \in Threads, w[u] = "startwait"
      PROVE  \E x \in Threads : sys.waiter[x] = u /\ w[x] \in {"created", "acting"}
  <2>1. where[u] = "startwait"
    BY <1>w, <1>4
  <2>2. PICK x \in Threads : sys.waiter[x] = u /\ where[x] \in {"created", "acting"}
    BY <1>1, <2>1 DEF Waits
  <2>3. QED
    BY <1>w, <2>2
<1>5. \A u, x \in Threads : (sys.waiter[u] = sys.waiter[x] /\ sys.waiter[u] # NoThread) => u = x
  BY <1>1 DEF Waits
<1>6. QED
  BY <1>2, <1>3, <1>4, <1>5 DEF Waits

(* So may one that is not asleep. *)
LEMMA CallerSleeps ==
  ASSUME ThreadInv, NEW t \in Threads, \A i \in DOMAIN sys.sleeping : sys.sleeping[i] # t,
         NEW w, w = [where EXCEPT ![t] = "acting"], NEW d, Acts(sys, d, t), d.sleeping = sys.sleeping
  PROVE  Asleep(d, w)
<1>1. Asleep(sys, where) /\ sys \in Systems /\ where \in [Threads -> Places]
  BY Zenon DEF ThreadInv, Mid
<1>t. \A i \in DOMAIN sys.sleeping : sys.sleeping[i] \in Threads
  BY <1>1, SystemsType, ElementOfSeq, LenProperties
<1>2. \A u \in Threads : u # t => d.status[u] = sys.status[u] /\ d.reason[u] = sys.reason[u]
  BY DEF Acts
<1>3. QED
  BY <1>1, <1>t, <1>2 DEF Asleep

(* To do nothing is to change nothing but t. *)
LEMMA ActsItself ==
  ASSUME NEW s \in Systems, NEW t
  PROVE  Acts(s, s, t)
BY DEF Acts, SameTables, SameModes

(* Whatever a core that a thread does not execute on is believed to be. *)
LEMMA HereMid ==
  ASSUME NEW w, NEW h, NEW s, Mid(s, w, h), NEW k,
         \A u \in Threads : w[u] \in {"user", "barrier"} => k[u] = h[u]
  PROVE  Mid(s, w, k)
<1>m. /\ s \in Systems /\ s.failed \subseteq {"application deadlocked", "advance spins"}
      /\ Tables(s) /\ Placed(s, w) /\ Ready(s) /\ AtPlaces(s, w, h)
      /\ Waits(s, w) /\ Asleep(s, w) /\ InBarrier(s, w, h)
  BY Zenon DEF Mid
<1>k. \A u \in Threads : w[u] \in {"user", "barrier"} => k[u] = h[u]
  OBVIOUS
<1>1. AtPlaces(s, w, k)
  BY Zenon, <1>m, <1>k DEF AtPlaces
<1>2. InBarrier(s, w, k)
  <2>1. Clocks(s)
    BY Zenon, <1>m DEF InBarrier, Clocks
  <2>2. /\ \A c \in Cores : s.acquired[c] =>
              /\ s.slot[c] \in Threads /\ s.slot[c] \notin s.signalled
              /\ w[s.slot[c]] = "barrier" /\ k[s.slot[c]] = c
              /\ s.core[s.slot[c]] = c \/ s.clock[c] = 0
        /\ \A u \in Threads : w[u] = "barrier" =>
              k[u] \in Cores /\ (u \in s.signalled \/ (s.acquired[k[u]] /\ s.slot[k[u]] = u))
    BY Zenon, <1>m, <1>k DEF InBarrier
  <2>3. QED
    BY ONLY <2>1, <2>2 DEF InBarrier, Clocks
<1>3. QED
  BY Zenon, <1>m, <1>1, <1>2 DEF Mid

(* ThreadManager::stallThread for a futex, mutex or condition. *)
LEMMA BlockInv ==
  ASSUME ~FollowAborts, ThreadInv, NEW t \in Threads, Block(t)
  PROVE  ThreadInv'
<1>1. where[t] = "user" /\ StallIn(sys, t, "FUTEX")
  BY DEF Block
<1>s. sys \in Systems
  BY Zenon DEF ThreadInv, Mid
<1>2. /\ \A u \in Threads : sys.waiter[u] # t
      /\ \A i \in DOMAIN sys.sleeping : sys.sleeping[i] # t
      /\ sys.waiter[t] = NoThread \/ where[sys.waiter[t]] # "startwait"
  BY <1>1, CallerIsFree
<1>3. PICK w : w = [where EXCEPT ![t] = "acting"]
  BY Zenon
<1>4. PICK d : d = Down(sys, t, "FUTEX")
  OBVIOUS
<1>r. "FUTEX" \in Reasons
  BY DEF Reasons
<1>5. Acts(sys, d, t) /\ d.waiter = sys.waiter /\ d.sleeping = sys.sleeping
  BY <1>s, <1>4, <1>r, DownIs
<1>6. Waits(d, w)
  BY Zenon, <1>1, <1>2, <1>3, <1>5, CallerWaits
<1>7. Asleep(d, w)
  BY Zenon, <1>2, <1>3, <1>5, CallerSleeps
<1>8. sys.waiter[t] = NoThread \/ w[sys.waiter[t]] # "startwait"
  BY <1>2, <1>3 DEF ThreadInv
<1>9. Acts(sys, sys, t)
  BY <1>s, ActsItself
<1>k. Woken(d, where, abandoned)
  <2>1. d.status[t] = "STALLED" /\ d.reason[t] = "FUTEX"
    BY <1>s, <1>4, <1>r, DownIs
  <2>2. QED
    BY <1>1, <1>5, <2>1, DownWoken DEF Waker, Sleepers
<1>10. QED
  BY Zenon, <1>1, <1>3, <1>4, <1>6, <1>7, <1>8, <1>9, <1>k, <1>r, StallInInv

(* What handleSleepCall notes before it stalls the thread. *)
SleepOf(t, n) == [sys EXCEPT !.wakeAt[t] = Now(sys) + n, !.sleeping = Append(@, t)]

(* What this changes. *)
LEMMA SleepIs ==
  ASSUME sys \in Systems, NEW t \in Threads, NEW n \in 1 .. MaxSleep
  PROVE  /\ Acts(sys, SleepOf(t, n), t) /\ SleepOf(t, n).waiter = sys.waiter
         /\ SleepOf(t, n).sleeping = Append(sys.sleeping, t)
<1>t. /\ sys.next \in Nat \ {0} /\ sys.sleeping \in Seq(Threads) /\ sys.wakeAt \in [Threads -> Nat]
      /\ MaxSleep \in Nat
  BY SystemsType, ThreadSystemAssumption
<1>1. PICK m : m = Now(sys) + n
  OBVIOUS
<1>2. m \in Nat
  BY <1>1, <1>t DEF Now
<1>3. PICK a : a = [sys EXCEPT !.wakeAt[t] = m]
  BY Zenon
<1>4. a \in Systems /\ Acts(sys, a, t) /\ a.waiter = sys.waiter /\ a.sleeping = sys.sleeping
  <2>1. a \in Systems
    BY Zenon, <1>2, <1>3 DEF Systems
  <2>2. /\ SameTables(sys, a) /\ SameModes(sys, a)
        /\ a.clock = sys.clock /\ a.acquired = sys.acquired /\ a.slot = sys.slot /\ a.next = sys.next
        /\ a.lastPeriodic = sys.lastPeriodic /\ a.signalled = sys.signalled /\ a.failed = sys.failed
        /\ a.status = sys.status /\ a.reason = sys.reason /\ a.runnable = sys.runnable
        /\ a.waiter = sys.waiter /\ a.sleeping = sys.sleeping
    BY <1>3 DEF Systems, SameTables, SameModes
  <2>3. QED
    BY <2>1, <2>2 DEF Acts
<1>5. PICK q : q = Append(sys.sleeping, t)
  BY Zenon
<1>6. q \in Seq(Threads)
  BY <1>5, <1>t
<1>7. PICK b : b = [a EXCEPT !.sleeping = q]
  BY Zenon
<1>8. b \in Systems /\ Acts(a, b, t) /\ b.waiter = a.waiter /\ b.sleeping = q
  <2>1. b \in Systems
    BY Zenon, <1>4, <1>6, <1>7 DEF Systems
  <2>2. /\ SameTables(a, b) /\ SameModes(a, b)
        /\ b.clock = a.clock /\ b.acquired = a.acquired /\ b.slot = a.slot /\ b.next = a.next
        /\ b.lastPeriodic = a.lastPeriodic /\ b.signalled = a.signalled /\ b.failed = a.failed
        /\ b.status = a.status /\ b.reason = a.reason /\ b.runnable = a.runnable
        /\ b.waiter = a.waiter /\ b.sleeping = q
    BY <1>4, <1>7 DEF Systems, SameTables, SameModes
  <2>3. QED
    BY <2>1, <2>2 DEF Acts
<1>9. SleepOf(t, n) = b
  BY <1>1, <1>3, <1>5, <1>7 DEF SleepOf, Systems
<1>10. Acts(sys, b, t)
  BY <1>4, <1>8, ActsTransitive
<1>11. QED
  BY <1>4, <1>5, <1>8, <1>9, <1>10

(* A sleep with a timeout: SyscallServer::handleSleepCall. *)
LEMMA SleepInv ==
  ASSUME ~FollowAborts, ThreadInv, NEW t \in Threads, Sleep(t)
  PROVE  ThreadInv'
<1>1. PICK n \in 1 .. MaxSleep : where[t] = "user" /\ StallIn(SleepOf(t, n), t, "SLEEP")
  BY Zenon DEF Sleep, SleepOf
<1>s. sys \in Systems /\ Asleep(sys, where) /\ where \in [Threads -> Places]
  BY Zenon DEF ThreadInv, Mid
<1>t. sys.sleeping \in Seq(Threads)
  BY <1>s, SystemsType
<1>2. /\ \A u \in Threads : sys.waiter[u] # t
      /\ \A i \in DOMAIN sys.sleeping : sys.sleeping[i] # t
      /\ sys.waiter[t] = NoThread \/ where[sys.waiter[t]] # "startwait"
  BY <1>1, CallerIsFree
<1>3. PICK w : w = [where EXCEPT ![t] = "acting"]
  BY Zenon
<1>4. PICK s : s = SleepOf(t, n)
  OBVIOUS
<1>5. Acts(sys, s, t) /\ s.waiter = sys.waiter /\ s.sleeping = Append(sys.sleeping, t)
  BY <1>s, <1>4, SleepIs
<1>6. PICK d : d = Down(s, t, "SLEEP")
  OBVIOUS
<1>r. "SLEEP" \in Reasons
  BY DEF Reasons
<1>7. /\ Acts(s, d, t) /\ d.waiter = s.waiter /\ d.sleeping = s.sleeping
      /\ d.status[t] = "STALLED" /\ d.reason[t] = "SLEEP"
  <2>1. s \in Systems
    BY <1>5 DEF Acts
  <2>2. QED
    BY <2>1, <1>6, <1>r, DownIs
<1>8. Acts(sys, d, t)
  BY <1>5, <1>7, ActsTransitive
<1>9. Waits(d, w)
  <2>1. d.waiter = sys.waiter /\ where[t] # "startwait"
    BY <1>1, <1>5, <1>7
  <2>2. QED
    BY Zenon, <1>2, <1>3, <1>8, <2>1, CallerWaits
<1>10. Asleep(d, w)
  <2>1. /\ DOMAIN d.sleeping = 1 .. (Len(sys.sleeping) + 1)
        /\ \A i \in 1 .. Len(sys.sleeping) : d.sleeping[i] = sys.sleeping[i]
        /\ d.sleeping[Len(sys.sleeping) + 1] = t
    BY <1>t, <1>5, <1>7
  <2>2. PICK m : m = Len(sys.sleeping)
    BY Zenon
  <2>3. m \in Nat /\ DOMAIN sys.sleeping = 1 .. m
    BY <1>t, <2>2, LenProperties
  <2>4. ASSUME NEW i \in 1 .. (m + 1)
        PROVE  i \in 1 .. m \/ i = m + 1
    BY <2>3
  <2>5. ASSUME NEW i \in 1 .. m
        PROVE  /\ d.sleeping[i] = sys.sleeping[i] /\ d.sleeping[i] # t
               /\ w[d.sleeping[i]] \in {"stalled", "acting"}
               /\ d.status[d.sleeping[i]] = "STALLED" /\ d.reason[d.sleeping[i]] = "SLEEP"
    <3>1. PICK u : u = sys.sleeping[i]
      OBVIOUS
    <3>2. u \in Threads /\ u # t
      BY <1>t, <1>2, <2>3, <3>1, ElementOfSeq, <2>2
    <3>3. where[u] \in {"stalled", "acting"} /\ sys.status[u] = "STALLED" /\ sys.reason[u] = "SLEEP"
      BY <1>s, <2>3, <3>1 DEF Asleep
    <3>4. w[u] = where[u] /\ d.status[u] = sys.status[u] /\ d.reason[u] = sys.reason[u]
      BY <1>3, <1>s, <1>8, <3>2 DEF Acts
    <3>5. d.sleeping[i] = u
      BY <2>1, <2>2, <3>1
    <3>6. QED
      BY <3>1, <3>2, <3>3, <3>4, <3>5
  <2>6. w[t] = "acting"
    BY <1>3, <1>s
  <2>7. \A i \in DOMAIN d.sleeping :
          /\ w[d.sleeping[i]] \in {"stalled", "acting"}
          /\ d.status[d.sleeping[i]] = "STALLED" /\ d.reason[d.sleeping[i]] = "SLEEP"
    BY Zenon, <1>7, <2>1, <2>2, <2>4, <2>5, <2>6
  <2>8. ASSUME NEW i \in DOMAIN d.sleeping, NEW j \in DOMAIN d.sleeping, d.sleeping[i] = d.sleeping[j]
        PROVE  i = j
    <3>1. i \in 1 .. (m + 1) /\ j \in 1 .. (m + 1)
      BY <2>1, <2>2, <2>8
    <3>2. (i \in 1 .. m \/ i = m + 1) /\ (j \in 1 .. m \/ j = m + 1)
      BY <2>4, <3>1
    <3>3. CASE i \in 1 .. m /\ j \in 1 .. m
      BY <1>s, <2>3, <2>5, <2>8, <3>3 DEF Asleep
    <3>4. CASE ~(i \in 1 .. m /\ j \in 1 .. m)
      BY <2>1, <2>2, <2>5, <2>8, <3>2, <3>4
    <3>5. QED
      BY <3>3, <3>4
  <2>9. QED
    BY <2>7, <2>8 DEF Asleep
<1>11. s.waiter[t] = NoThread \/ w[s.waiter[t]] # "startwait"
  BY <1>2, <1>3, <1>5, <1>s
<1>k. Woken(d, where, abandoned)
  <2>1. /\ DOMAIN sys.sleeping = 1 .. Len(sys.sleeping) /\ Len(sys.sleeping) \in Nat
        /\ DOMAIN d.sleeping = 1 .. (Len(sys.sleeping) + 1)
        /\ \A i \in 1 .. Len(sys.sleeping) : d.sleeping[i] = sys.sleeping[i]
        /\ d.sleeping[Len(sys.sleeping) + 1] = t
    BY <1>t, <1>5, <1>7
  <2>2. Sleepers(sys) \subseteq Sleepers(d) /\ t \in Sleepers(d)
    BY <2>1 DEF Sleepers, ToSet
  <2>3. Waker(d, t)
    BY <1>7, <2>2 DEF Waker
  <2>4. QED
    BY <1>1, <1>5, <1>7, <1>8, <2>2, <2>3, DownWoken
<1>12. QED
  BY Zenon, <1>1, <1>3, <1>4, <1>5, <1>6, <1>9, <1>10, <1>11, <1>k, <1>r, StallInInv

(* Thread u is noted as waiting for thread t. *)
Noted(s, t, u) == [s EXCEPT !.waiter[t] = u]

(* What this changes. *)
LEMMA WaiterIs ==
  ASSUME NEW s \in Systems, NEW t \in Threads, NEW u \in Threads \union {NoThread}, NEW x
  PROVE  /\ Acts(s, Noted(s, t, u), x) /\ Noted(s, t, u).sleeping = s.sleeping
         /\ Noted(s, t, u).waiter = [s.waiter EXCEPT ![t] = u]
         /\ SameThreads(s, Noted(s, t, u))
<1>a. PICK a : a = Noted(s, t, u)
  OBVIOUS
<1>0. a = [s EXCEPT !.waiter[t] = u]
  BY <1>a DEF Noted
<1>1. a \in Systems
  BY Zenon, <1>0 DEF Systems
<1>2. /\ SameTables(s, a) /\ SameModes(s, a)
      /\ a.clock = s.clock /\ a.acquired = s.acquired /\ a.slot = s.slot /\ a.next = s.next
      /\ a.lastPeriodic = s.lastPeriodic /\ a.signalled = s.signalled /\ a.failed = s.failed
      /\ a.status = s.status /\ a.reason = s.reason /\ a.runnable = s.runnable
      /\ a.sleeping = s.sleeping /\ a.waiter = [s.waiter EXCEPT ![t] = u]
  BY <1>0 DEF Systems, SameTables, SameModes
<1>3. QED
  BY <1>a, <1>1, <1>2 DEF Acts, SameThreads

(* ThreadManager::joinThread. *)
LEMMA JoinInv ==
  ASSUME ~FollowAborts, ThreadInv, NEW t \in Threads, NEW u \in Threads, Join(u, t)
  PROVE  ThreadInv'
<1>1. /\ where[u] = "user" /\ u # t /\ sys.waiter[t] = NoThread
      /\ StallIn([sys EXCEPT !.waiter[t] = u], u, "JOIN")
  BY DEF Join
<1>s. sys \in Systems /\ Waits(sys, where) /\ where \in [Threads -> Places] /\ sys.signalled = {}
  BY Zenon DEF ThreadInv, Mid
<1>t. sys.waiter \in [Threads -> Threads \union {NoThread}]
  BY <1>s, SystemsType
<1>n. NoThread \notin Threads
  BY CoresAndThreads
<1>2. /\ \A x \in Threads : sys.waiter[x] # u
      /\ \A i \in DOMAIN sys.sleeping : sys.sleeping[i] # u
      /\ sys.waiter[u] = NoThread \/ where[sys.waiter[u]] # "startwait"
  BY <1>1, CallerIsFree
<1>3. PICK w : w = [where EXCEPT ![u] = "acting"]
  BY Zenon
<1>4. PICK s : s = Noted(sys, t, u)
  OBVIOUS
<1>5. Acts(sys, s, u) /\ s.sleeping = sys.sleeping /\ s.waiter = [sys.waiter EXCEPT ![t] = u]
  <2>1. u \in Threads \union {NoThread}
    OBVIOUS
  <2>2. QED
    BY <1>s, <1>4, <2>1, WaiterIs
<1>6. PICK d : d = Down(s, u, "JOIN")
  OBVIOUS
<1>r. "JOIN" \in Reasons
  BY DEF Reasons
<1>7. /\ Acts(s, d, u) /\ d.waiter = s.waiter /\ d.sleeping = s.sleeping
      /\ d.status[u] = "STALLED" /\ d.reason[u] = "JOIN"
  <2>1. s \in Systems
    BY <1>5 DEF Acts
  <2>2. QED
    BY <2>1, <1>6, <1>r, DownIs
<1>8. Acts(sys, d, u)
  BY <1>5, <1>7, ActsTransitive
<1>w. \A x \in Threads : w[x] = IF x = u THEN "acting" ELSE where[x]
  BY <1>3, <1>s
<1>x. \A x \in Threads : d.waiter[x] = IF x = t THEN u ELSE sys.waiter[x]
  BY <1>5, <1>7, <1>t
<1>9. Waits(d, w)
  <2>1. /\ d.signalled = {}
        /\ \A x \in Threads : x # u => d.status[x] = sys.status[x] /\ d.reason[x] = sys.reason[x]
    BY <1>8, <1>s DEF Acts
  <2>2. ASSUME NEW x \in Threads, d.waiter[x] # NoThread
        PROVE  \/ w[d.waiter[x]] = "startwait" /\ w[x] \in {"created", "acting"}
               \/ /\ w[d.waiter[x]] \in {"stalled", "acting"}
                  /\ d.status[d.waiter[x]] = "STALLED" /\ d.reason[d.waiter[x]] = "JOIN"
    <3>1. CASE x = t
      <4>1. d.waiter[x] = u
        BY <1>x, <3>1
      <4>2. QED
        BY <1>7, <1>w, <4>1
    <3>2. CASE x # t
      <4>1. PICK y \in Threads : y = sys.waiter[x] /\ y = d.waiter[x] /\ y # u
        BY <1>x, <1>t, <1>2, <2>2, <3>2
      <4>2. \/ where[y] = "startwait" /\ where[x] \in {"created", "acting"}
            \/ /\ where[y] \in {"stalled", "acting"}
               /\ sys.status[y] = "STALLED" /\ sys.reason[y] = "JOIN"
        <5>1. sys.waiter[x] # NoThread
          BY <1>n, <4>1
        <5>2. \/ where[sys.waiter[x]] = "startwait" /\ where[x] \in {"created", "acting"}
              \/ /\ where[sys.waiter[x]] \in {"stalled", "acting"}
                 /\ sys.status[sys.waiter[x]] = "STALLED" /\ sys.reason[sys.waiter[x]] = "JOIN"
          BY <1>s, <5>1 DEF Waits
        <5>3. QED
          BY ONLY <4>1, <5>2
      <4>3. w[y] = where[y] /\ d.status[y] = sys.status[y] /\ d.reason[y] = sys.reason[y]
        BY <1>w, <2>1, <4>1
      <4>4. where[x] \in {"created", "acting"} => w[x] \in {"created", "acting"}
        BY <1>w
      <4>5. QED
        BY <4>1, <4>2, <4>3, <4>4
    <3>3. QED
      BY <3>1, <3>2
  <2>3. ASSUME NEW x \in Threads, NEW y \in Threads, d.waiter[x] = d.waiter[y], d.waiter[x] # NoThread
        PROVE  x = y
    <3>1. \A z \in Threads : z # t => d.waiter[z] = sys.waiter[z] /\ d.waiter[z] # u
      BY <1>x, <1>2
    <3>2. d.waiter[t] = u
      BY <1>x
    <3>3. CASE x = t \/ y = t
      BY <2>3, <3>1, <3>2, <3>3
    <3>4. CASE x # t /\ y # t
      BY <2>3, <3>1, <3>4, <1>s DEF Waits
    <3>5. QED
      BY <3>3, <3>4
  <2>4. ASSUME NEW x \in Threads, w[x] = "startwait"
        PROVE  \E y \in Threads : d.waiter[y] = x /\ w[y] \in {"created", "acting"}
    <3>1. where[x] = "startwait"
      BY <1>w, <2>4
    <3>2. PICK y \in Threads : sys.waiter[y] = x /\ where[y] \in {"created", "acting"}
      BY <1>s, <3>1 DEF Waits
    <3>3. y # t
      BY <1>1, <1>n, <3>2
    <3>4. QED
      BY <1>w, <1>x, <3>2, <3>3
  <2>5. QED
    BY <2>1, <2>2, <2>3, <2>4 DEF Waits
<1>10. Asleep(d, w)
  <2>1. d.sleeping = sys.sleeping
    BY <1>5, <1>7
  <2>2. QED
    BY Zenon, <1>2, <1>3, <1>8, <2>1, CallerSleeps
<1>11. s.waiter[u] = NoThread \/ w[s.waiter[u]] # "startwait"
  <2>1. s.waiter[u] = sys.waiter[u]
    BY <1>1, <1>5, <1>t
  <2>2. QED
    BY <1>2, <1>w, <1>t, <2>1
<1>12. where[u] \in {"user", "check"} /\ StallIn(s, u, "JOIN")
  BY <1>1, <1>4 DEF Noted
<1>k. Woken(d, where, abandoned)
  <2>1. \A x \in Threads : sys.waiter[x] \in Threads => d.waiter[x] = sys.waiter[x]
    BY <1>1, <1>n, <1>x
  <2>2. sys.status[t] \notin {"none", "IDLE"} /\ d.status[t] = sys.status[t]
    BY <1>1, <1>8 DEF Join, Acts
  <2>3. d.waiter[t] = u
    BY <1>x
  <2>4. Waker(d, u)
    BY <1>7, <2>2, <2>3 DEF Waker
  <2>5. Sleepers(sys) \subseteq Sleepers(d)
    BY <1>5, <1>7 DEF Sleepers
  <2>6. QED
    BY <1>1, <1>7, <1>8, <2>1, <2>4, <2>5, DownWoken
<1>13. QED
  BY Zenon, <1>3, <1>5, <1>6, <1>9, <1>10, <1>11, <1>12, <1>k, <1>r, StallInInv

(* Thread::reschedule. *)
LEMMA CheckScheduledInv ==
  ASSUME ~FollowAborts, ThreadInv, NEW t \in Threads, CheckScheduled(t)
  PROVE  ThreadInv'
<1>1. where[t] = "check"
  BY DEF CheckScheduled
<1>i. /\ Mid(sys, where, here) /\ Settled(sys) /\ Held(sys) /\ sys.signalled = {}
      /\ where \in [Threads -> Places] /\ here \in [Threads -> Cores \union {NoCore}]
  BY DEF ThreadInv
<1>m. /\ sys \in Systems /\ Placed(sys, where) /\ AtPlaces(sys, where, here)
      /\ Waits(sys, where) /\ Asleep(sys, where)
  BY Zenon, <1>i DEF Mid
<1>t. sys.core \in [Threads -> Cores \union {NoCore}]
  BY <1>m, SystemsType
<1>n. t # NoThread
  BY CoresAndThreads
<1>2. CASE sys.core[t] # NoCore /\ Commit(sys, t, "user", sys.core[t])
  <2>1. PICK w : w = [where EXCEPT ![t] = "user"]
    BY Zenon
  <2>2. PICK h : h = [here EXCEPT ![t] = sys.core[t]]
    BY Zenon
  <2>3. sys.core[t] \in Cores /\ sys.core[t] = sys.coreRunning[t]
    BY <1>2, <1>i, <1>t DEF Settled
  <2>4. sys.status[t] = "RUNNING"
    <3>1. sys.status[t] \in {"RUNNING", "INITIALIZING"}
      BY <1>1, <1>2, <1>m, <2>3 DEF Placed
    <3>2. sys.status[t] = "RUNNING" \/ sys.status[t] = "STALLED"
      BY <1>1, <1>m DEF AtPlaces
    <3>3. QED
      BY <3>1, <3>2
  <2>5. h[t] = sys.core[t] /\ \A u \in Threads : u # t => h[u] = here[u]
    BY <1>i, <2>2
  <2>6. \A u \in Threads : where[u] \in {"user", "barrier"} => h[u] = here[u]
    BY <1>1, <2>5
  <2>7. Mid(sys, where, h)
    BY <1>i, <2>6, HereMid
  <2>8. Fits(sys, where, h, t, "user")
    <3>1. sys.coreRunning[t] # NoCore => sys.cstate[sys.core[t]] = sys.status[t]
      BY <1>1, <1>2, <1>m DEF Placed
    <3>2. /\ \A u \in Threads : sys.waiter[u] # t
          /\ \A i \in DOMAIN sys.sleeping : sys.sleeping[i] # t
          /\ sys.waiter[t] = NoThread \/ where[sys.waiter[t]] # "startwait"
      BY <1>1, <2>4, CallerIsFree
    <3>3. QED
      BY <2>3, <2>4, <2>5, <3>1, <3>2 DEF Fits
  <2>9. where[t] \notin {"barrier", "startwait"} /\ where \in [Threads -> Places \union {"acting"}]
    BY <1>1, <1>i
  <2>10. Mid(sys, w, h)
    BY Zenon, <2>1, <2>7, <2>8, <2>9, PlaceMid
  <2>11. w[t] = "user"
    BY <1>i, <2>1
  <2>12. Ends(sys, w, h) /\ Heard(sys, w) /\ Goes(sys, w)
    BY <1>i, <2>10, <2>11 DEF Ends, Heard, Goes
  <2>k. Woken(sys, w, Abandoned(sys))
    <3>1. Woken(sys, where, abandoned) /\ Signals(sys, sys)
      BY SameSignals DEF ThreadInv
    <3>2. \A u \in Threads : where[u] = "paused" => w[u] = "paused"
      BY <1>1, <1>i, <2>1
    <3>3. QED
      BY <3>1, <3>2, WokenOn, MoreAbandoned
  <2>13. h \in [Threads -> Cores \union {NoCore}]
    BY <1>i, <2>2, <2>3
  <2>14. Done(sys, w, h, t, "user", sys.core[t])
    BY Zenon, <1>i, <2>1, <2>5, <2>12, <2>13, <2>k DEF Done, Places
  <2>15. QED
    BY <1>2, <1>i, <2>14, CommitInv
<1>3. CASE sys.core[t] = NoCore /\ StallIn(sys, t, "UNSCHEDULED")
  <2>1. PICK w : w = [where EXCEPT ![t] = "acting"]
    BY Zenon
  <2>2. PICK d : d = Down(sys, t, "UNSCHEDULED")
    OBVIOUS
  <2>r. "UNSCHEDULED" \in Reasons
    BY DEF Reasons
  <2>3. /\ Acts(sys, d, t) /\ d.waiter = sys.waiter /\ d.sleeping = sys.sleeping
        /\ d.status[t] = "STALLED" /\ d.reason[t] = "UNSCHEDULED"
    BY <1>m, <2>2, <2>r, DownIs
  <2>4. /\ \A i \in DOMAIN sys.sleeping : sys.sleeping[i] # t
        /\ sys.waiter[t] = NoThread \/ where[sys.waiter[t]] # "startwait"
    BY <1>1, CallerIsFree
  <2>5. \A u \in Threads : sys.waiter[u] # t
    BY <1>1, <1>m, <1>n DEF Waits
  <2>6. Waits(d, w)
    BY Zenon, <1>1, <2>1, <2>3, <2>5, CallerWaits
  <2>7. Asleep(d, w)
    BY Zenon, <2>1, <2>3, <2>4, CallerSleeps
  <2>8. sys.waiter[t] = NoThread \/ w[sys.waiter[t]] # "startwait"
    BY <1>i, <2>1, <2>4
  <2>9. sys.coreRunning[t] = NoCore
    BY <1>3, <1>i DEF Settled
  <2>10. Acts(sys, sys, t)
    BY <1>m, ActsItself
  <2>11. where[t] \in {"user", "check"}
    BY <1>1
  <2>k. Woken(d, where, abandoned)
    <3>1. Woken(sys, where, abandoned)
      BY DEF ThreadInv
    <3>2. \/ sys.status[t] = "RUNNING"
          \/ sys.status[t] = "STALLED" /\ sys.reason[t] \in {"JOIN", "UNSCHEDULED"}
      BY <1>1, <1>m DEF AtPlaces
    <3>3. sys.runnable[t] \/ t \in abandoned
      BY <2>5, <3>1, <3>2 DEF Woken, Waker
    <3>4. d.runnable[t] = sys.runnable[t]
      BY <1>m, <2>2 DEF Down, Systems
    <3>5. Waker(d, t) \/ t \in abandoned
      BY <2>3, <3>3, <3>4 DEF Waker
    <3>6. QED
      BY <1>1, <2>3, <3>5, DownWoken DEF Sleepers
  <2>12. QED
    BY Zenon, <1>3, <2>1, <2>2, <2>6, <2>7, <2>8, <2>9, <2>10, <2>11, <2>k, <2>r, StallInInv
<1>4. QED
  BY <1>2, <1>3 DEF CheckScheduled

(* A thread that waits for nothing else runs again. *)
LEMMA UpEnds ==
  ASSUME NEW w, NEW h, NEW s, Ends(s, w, h), NEW t \in Threads, Wakable(s, w, t)
  PROVE  Ends(Up(s, t), w, h) /\ SameModes(s, Up(s, t)) /\ Signals(s, Up(s, t))
<1>m. Mid(s, w, h) /\ Settled(s) /\ Held(s) /\ s \in Systems
  BY Zenon DEF Ends, Mid
<1>t. /\ s.status \in [Threads -> Statuses] /\ s.reason \in [Threads -> Reasons]
      /\ s.runnable \in [Threads -> BOOLEAN]
  BY <1>m, SystemsType
<1>1. PICK r : r = Up(s, t)
  OBVIOUS
<1>2. Mid(r, w, h)
  BY <1>1, <1>m, UpMid
<1>3. Ups(s, r, t)
  BY <1>1, <1>m, UpIs
<1>4. Settled(r) /\ Held(r) /\ SameModes(s, r)
  BY <1>3, <1>m DEF Ups, Settled, Held, SameModes, SameTables, SameRest
<1>5. Signals(s, r)
  BY <1>3, <1>t DEF Ups, SameRest, Signals, Rests, Sleepers
<1>6. QED
  BY <1>1, <1>2, <1>4, <1>5 DEF Ends

(* A thread that waits for nobody is signalled. *)
LEMMA SignalEnds ==
  ASSUME NEW w, NEW h, NEW s, Ends(s, w, h), NEW t \in Threads, w[t] # "barrier",
         \A u \in Threads : s.waiter[u] # t
  PROVE  Ends(SignalThread(s, t), w, h) /\ SameModes(s, SignalThread(s, t))
<1>m. Mid(s, w, h) /\ Settled(s) /\ Held(s) /\ s \in Systems
  BY Zenon DEF Ends, Mid
<1>1. PICK r : r = SignalThread(s, t)
  OBVIOUS
<1>2. Mid(r, w, h)
  BY <1>1, <1>m, SignalMid
<1>3. SameRest(s, r) /\ SameTables(s, r) /\ r.clock = s.clock
  BY <1>1, <1>m, SignalIs
<1>4. Settled(r) /\ Held(r) /\ SameModes(s, r)
  BY <1>3, <1>m DEF Settled, Held, SameModes, SameTables, SameRest
<1>5. QED
  BY <1>1, <1>2, <1>4 DEF Ends

(* ThreadManager::resumeThread_async of a thread that runs by then. *)
LEMMA ResumeEnds ==
  ASSUME NEW w \in [Threads -> Places \union {"acting"}], NEW h, NEW s \in Systems, NEW t \in Threads,
         Ends(Up(s, t), w, h)
  PROVE  /\ Ends(ResumeThread_async(s, t), w, h)
         /\ SameModes(Up(s, t), ResumeThread_async(s, t))
         /\ Signals(Up(s, t), ResumeThread_async(s, t))
         /\ Moves(Up(s, t), ResumeThread_async(s, t), {})
<1>1. Cardinality(Cores) \in Nat
  BY ThreadSystemAssumption
<1>2. Works(Resumes[Cardinality(Cores)], Cardinality(Cores), w, h)
  BY <1>1, ResumesWork
<1>3. Cardinality(Free(s)) <= Cardinality(Cores)
  BY FreeFinite
<1>4. Mid(Up(s, t), w, h)
  BY DEF Ends
<1>5. PICK r : r = ResumeThread_async(s, t)
  OBVIOUS
<1>6. Mid(r, w, h) /\ Moves(Up(s, t), r, {})
  BY <1>2, <1>3, <1>4, <1>5 DEF Works, ResumeThread_async
<1>7. \A u \in {} : w[u] # "barrier"
  OBVIOUS
<1>8. Ends(r, w, h) /\ SameModes(Up(s, t), r) /\ Signals(Up(s, t), r)
  BY <1>6, <1>7, MovesEnds
<1>9. QED
  BY <1>5, <1>6, <1>8

(* ThreadManager::resumeThread of a thread that waits for nothing else. *)
LEMMA ResumeThreadEnds ==
  ASSUME NEW w \in [Threads -> Places \union {"acting"}], NEW h, NEW s, Ends(s, w, h), NEW t \in Threads,
         w[t] # "barrier", Wakable(SignalThread(s, t), w, t)
  PROVE  /\ Ends(ResumeThread(s, t), w, h) /\ SameModes(s, ResumeThread(s, t))
         /\ Signals(s, ResumeThread(s, t))
         /\ Moves(Up(SignalThread(s, t), t), ResumeThread(s, t), {})
<1>m. Mid(s, w, h) /\ s \in Systems
  BY Zenon DEF Ends, Mid
<1>1. PICK q : q = SignalThread(s, t)
  OBVIOUS
<1>2. /\ q \in Systems /\ SameRest(s, q) /\ q.status = s.status /\ q.reason = s.reason
      /\ q.signalled = s.signalled \union {t} /\ q.runnable = s.runnable
  BY <1>1, <1>m, SignalIs
<1>3. \A u \in Threads : s.waiter[u] # t
  BY <1>1, <1>2 DEF Wakable, SameRest
<1>4. Ends(q, w, h) /\ SameModes(s, q)
  BY <1>1, <1>3, SignalEnds
<1>5. Wakable(q, w, t)
  BY <1>1
<1>6. Ends(Up(q, t), w, h) /\ SameModes(q, Up(q, t))
  BY <1>4, <1>5, UpEnds
<1>7. Ups(q, Up(q, t), t)
  BY <1>2, UpIs
<1>8. Signals(s, Up(q, t))
  <2>1. /\ s.status \in [Threads -> Statuses] /\ s.reason \in [Threads -> Reasons]
        /\ s.runnable \in [Threads -> BOOLEAN]
    BY <1>m, SystemsType
  <2>2. PICK x : x = Up(q, t)
    OBVIOUS
  <2>3. /\ x.signalled = s.signalled \union {t} /\ x.status = [s.status EXCEPT ![t] = "RUNNING"]
        /\ x.reason = [s.reason EXCEPT ![t] = "none"] /\ x.runnable = [s.runnable EXCEPT ![t] = TRUE]
        /\ x.waiter = s.waiter /\ x.sleeping = s.sleeping
    BY <1>2, <1>7, <2>2 DEF Ups, SameRest
  <2>4. Signals(s, x)
    BY <2>1, <2>3 DEF Signals, Rests, Sleepers
  <2>5. QED
    BY <2>2, <2>4
<1>9. PICK r : r = ResumeThread_async(q, t)
  OBVIOUS
<1>10. Ends(r, w, h) /\ SameModes(Up(q, t), r) /\ Signals(Up(q, t), r) /\ Moves(Up(q, t), r, {})
  BY <1>2, <1>6, <1>9, ResumeEnds
<1>11. Signals(s, r)
  BY <1>8, <1>10, SignalsTransitive
<1>12. SameModes(s, r)
  BY <1>4, <1>6, <1>10 DEF SameModes
<1>13. ResumeThread(s, t) = r
  BY <1>1, <1>9 DEF ResumeThread
<1>14. QED
  BY <1>1, <1>10, <1>11, <1>12, <1>13

(* The end of a wait that another thread ends: ThreadManager::resumeThread. *)
LEMMA WakeInv ==
  ASSUME ~FollowAborts, ThreadInv, NEW t \in Threads, NEW u \in Threads, Wake(u, t)
  PROVE  ThreadInv'
<1>1. /\ where[u] = "user" /\ sys.status[t] = "STALLED" /\ sys.reason[t] = "FUTEX"
      /\ Commit(ResumeThread(sys, t), u, "user", here[u])
  BY DEF Wake
<1>i. /\ Mid(sys, where, here) /\ Settled(sys) /\ Held(sys) /\ sys.signalled = {}
      /\ where \in [Threads -> Places] /\ here \in [Threads -> Cores \union {NoCore}]
  BY DEF ThreadInv
<1>m. /\ sys \in Systems /\ Placed(sys, where) /\ AtPlaces(sys, where, here)
      /\ Waits(sys, where) /\ Asleep(sys, where)
  BY Zenon, <1>i DEF Mid
<1>e. Ends(sys, where, here)
  BY <1>i DEF Ends
<1>w. where \in [Threads -> Places \union {"acting"}] /\ where[t] # "acting" /\ where[t] \in Places
  BY <1>i DEF Places
<1>2. where[t] = "stalled"
  BY <1>1, <1>m, <1>w DEF AtPlaces, Places
<1>3. sys.coreRunning[t] = NoCore
  BY <1>1, <1>m, <1>w DEF Placed
<1>n. t # NoThread
  BY CoresAndThreads
<1>4. (\A x \in Threads : sys.waiter[x] # t) /\ (\A i \in DOMAIN sys.sleeping : sys.sleeping[i] # t)
  BY <1>1, <1>2, <1>m, <1>n DEF Waits, Asleep
<1>5. Wakable(SignalThread(sys, t), where, t)
  <2>1. PICK q : q = SignalThread(sys, t)
    OBVIOUS
  <2>2. SameRest(sys, q) /\ SameTables(sys, q) /\ q.signalled = sys.signalled \union {t}
    BY <1>m, <2>1, SignalIs
  <2>3. Wakable(q, where, t)
    BY <1>2, <1>3, <1>4, <2>2 DEF Wakable, SameRest, SameTables
  <2>4. QED
    BY <2>1, <2>3
<1>6. PICK r : r = ResumeThread(sys, t)
  OBVIOUS
<1>7. Ends(r, where, here) /\ Signals(sys, r)
  BY <1>e, <1>w, <1>2, <1>5, <1>6, ResumeThreadEnds
<1>8. Heard(r, where)
  BY <1>7, <1>i, HeardNobody
<1>9. Goes(r, where)
  BY <1>1 DEF Goes
<1>10. where = [where EXCEPT ![u] = "user"]
  BY <1>1, <1>i
<1>k. Woken(r, where, Abandoned(r))
  BY <1>1, <1>7, StillWoken DEF ThreadInv
<1>11. Done(r, where, here, u, "user", here[u])
  BY <1>i, <1>7, <1>8, <1>9, <1>10, <1>k DEF Done, Places
<1>12. QED
  BY <1>1, <1>6, <1>11, <1>i, CommitInv

(* A host thread goes to a place that fits. *)
LEMMA PlaceEnds ==
  ASSUME NEW w \in [Threads -> Places \union {"acting"}], NEW h, NEW s, Ends(s, w, h), NEW t \in Threads,
         w[t] \notin {"barrier", "startwait"}, NEW p, Fits(s, w, h, t, p), NEW v, v = [w EXCEPT ![t] = p]
  PROVE  Ends(s, v, h)
<1>1. Mid(s, w, h) /\ Settled(s) /\ Held(s)
  BY DEF Ends
<1>2. Mid(s, v, h)
  BY Zenon, <1>1, PlaceMid
<1>3. QED
  BY <1>1, <1>2 DEF Ends

(* SYS_pause: the host thread blocks natively, marked as stalled around it. *)
LEMMA PauseInv ==
  ASSUME ~FollowAborts, ThreadInv, NEW t \in Threads, Pause(t)
  PROVE  ThreadInv'
<1>1. where[t] = "user" /\ Commit(StallThread_async(sys, t, "PAUSE"), t, "paused", here[t])
  BY DEF Pause
<1>i. /\ where \in [Threads -> Places] /\ here \in [Threads -> Cores \union {NoCore}]
      /\ sys.signalled = {} /\ sys \in Systems
  BY Zenon DEF ThreadInv, Mid
<1>2. /\ \A u \in Threads : sys.waiter[u] # t
      /\ \A i \in DOMAIN sys.sleeping : sys.sleeping[i] # t
      /\ sys.waiter[t] = NoThread \/ where[sys.waiter[t]] # "startwait"
  BY <1>1, CallerIsFree
<1>3. PICK w : w = [where EXCEPT ![t] = "acting"]
  BY Zenon
<1>w. /\ Ends(sys, w, here) /\ w \in [Threads -> Places \union {"acting"}]
      /\ w[t] = "acting" /\ \A u \in Threads : u # t => w[u] = where[u] /\ w[u] # "acting"
  <2>1. where[t] \notin {"barrier", "startwait"}
    BY <1>1
  <2>2. QED
    BY Zenon, <1>3, <2>1, EnterEnds
<1>4. PICK d : d = Down(sys, t, "PAUSE")
  OBVIOUS
<1>r. "PAUSE" \in Reasons
  BY DEF Reasons
<1>5. /\ Acts(sys, d, t) /\ d.waiter = sys.waiter /\ d.sleeping = sys.sleeping
      /\ d.status[t] = "STALLED" /\ d.reason[t] = "PAUSE" /\ ~d.runnable[t]
  BY <1>i, <1>4, <1>r, DownIs
<1>6. Waits(d, w)
  BY Zenon, <1>1, <1>2, <1>3, <1>5, CallerWaits
<1>7. Asleep(d, w)
  BY Zenon, <1>2, <1>3, <1>5, CallerSleeps
<1>8. Ends(d, w, here)
  <2>1. Mid(sys, w, here) /\ Settled(sys) /\ Held(sys)
    BY <1>w DEF Ends
  <2>2. Mid(d, w, here)
    BY <1>5, <1>6, <1>7, <1>w, <2>1, ActsMid
  <2>3. Settled(d) /\ Held(d)
    BY <1>5, <2>1 DEF Acts, SameTables, SameModes, Settled, Held
  <2>4. QED
    BY <2>2, <2>3 DEF Ends
<1>9. PICK r : r = StallThread_async(sys, t, "PAUSE")
  OBVIOUS
<1>10. Commit(r, t, "paused", here[t])
  BY <1>1, <1>9
<1>11. ~sys.aborted /\ r.next <= MaxTime
  BY <1>10, CommitBegins
<1>12. ~d.aborted /\ d.signalled = {}
  BY <1>5, <1>11, <1>i DEF Acts, SameModes
<1>13. d.waiter[t] = NoThread \/ w[d.waiter[t]] # "startwait"
  BY <1>2, <1>3, <1>5, <1>i
<1>14. PICK v : v = [where EXCEPT ![t] = "paused"]
  BY Zenon
<1>15. v = [w EXCEPT ![t] = "paused"]
  BY <1>3, <1>14, <1>i
<1>16. \A u \in Threads : u # t => w[u] # "acting"
  BY <1>w
<1>17. "PAUSE" # "UNSCHEDULED"
  OBVIOUS
<1>18. Over(d, r, v, here)
  BY Zenon, <1>w, <1>i, <1>r, <1>4, <1>8, <1>9, <1>12, <1>13, <1>15, <1>16, <1>17, StallAsyncEnd
<1>19. Ends(r, v, here) /\ Goes(r, v) /\ Signals(d, r)
  BY <1>11, <1>18 DEF Over
<1>20. Heard(r, v)
  BY <1>12, <1>19, HeardNobody
<1>k. Woken(r, v, Abandoned(r))
  <2>1. v[t] = "paused" /\ \A u \in Threads : u # t => v[u] = where[u]
    BY <1>14, <1>i
  <2>2. Woken(sys, where, abandoned) /\ Sleepers(sys) \subseteq Sleepers(d)
    BY <1>5 DEF ThreadInv, Sleepers
  <2>3. \A u \in Threads : sys.status[u] \notin {"none", "IDLE"} => d.status[u] \notin {"none", "IDLE"}
    BY <1>5 DEF Acts
  <2>4. Woken(d, v, abandoned)
    BY <1>5, <2>1, <2>2, <2>3, ActsWoken
  <2>5. QED
    BY <1>19, <2>4, WokenOn, MoreAbandoned
<1>21. Done(r, v, here, t, "paused", here[t])
  BY <1>i, <1>14, <1>19, <1>20, <1>k DEF Done, Places
<1>22. QED
  BY <1>i, <1>10, <1>21, CommitInv

(* A signal to the application ends the pause. *)
LEMMA EndPauseInv ==
  ASSUME ~FollowAborts, ThreadInv, NEW t \in Threads, EndPause(t)
  PROVE  ThreadInv'
<1>1. where[t] = "paused" /\ Commit(ResumeThread_async(sys, t), t, "check", here[t])
  BY DEF EndPause
<1>i. /\ where \in [Threads -> Places] /\ here \in [Threads -> Cores \union {NoCore}]
      /\ sys.signalled = {} /\ sys \in Systems /\ Placed(sys, where) /\ AtPlaces(sys, where, here)
      /\ Waits(sys, where) /\ Asleep(sys, where)
  BY Zenon DEF ThreadInv, Mid
<1>n. t # NoThread
  BY CoresAndThreads
<1>2. sys.status[t] = "STALLED" /\ sys.reason[t] = "PAUSE" /\ sys.coreRunning[t] = NoCore
  BY <1>1, <1>i DEF AtPlaces, Placed
<1>3. /\ \A u \in Threads : sys.waiter[u] # t
      /\ \A i \in DOMAIN sys.sleeping : sys.sleeping[i] # t
      /\ sys.waiter[t] = NoThread \/ where[sys.waiter[t]] # "startwait"
  BY <1>1, <1>i, <1>n DEF Waits, Asleep
<1>4. PICK w : w = [where EXCEPT ![t] = "acting"]
  BY Zenon
<1>w. /\ Ends(sys, w, here) /\ w \in [Threads -> Places \union {"acting"}]
      /\ w[t] = "acting" /\ \A u \in Threads : u # t => w[u] = where[u] /\ w[u] # "acting"
  <2>1. where[t] \notin {"barrier", "startwait"}
    BY <1>1
  <2>2. QED
    BY Zenon, <1>4, <2>1, EnterEnds
<1>5. Wakable(sys, w, t)
  BY <1>w, <1>3 DEF Wakable
<1>6. Ends(Up(sys, t), w, here) /\ Signals(sys, Up(sys, t))
  BY <1>w, <1>5, UpEnds
<1>7. Ups(sys, Up(sys, t), t)
  BY <1>i, UpIs
<1>8. Fits(Up(sys, t), w, here, t, "check")
  <2>1. PICK q : q = Up(sys, t)
    OBVIOUS
  <2>2. q.status[t] = "RUNNING"
    <3>1. sys.status \in [Threads -> Statuses]
      BY <1>i, SystemsType
    <3>2. QED
      BY <1>7, <2>1, <3>1 DEF Ups
  <2>3. q.coreRunning[t] = NoCore /\ q.waiter = sys.waiter /\ q.sleeping = sys.sleeping
    BY <1>2, <1>7, <2>1 DEF Ups, SameTables, SameRest
  <2>4. sys.waiter[t] = NoThread \/ w[sys.waiter[t]] # "startwait"
    BY <1>3, <1>4, <1>i
  <2>5. QED
    BY <1>3, <2>1, <2>2, <2>3, <2>4 DEF Fits
<1>s. Up(sys, t).status[t] = "RUNNING"
  <2>1. PICK q : q = Up(sys, t)
    OBVIOUS
  <2>2. sys.status \in [Threads -> Statuses]
    BY <1>i, SystemsType
  <2>3. QED
    BY <1>7, <2>1, <2>2 DEF Ups
<1>9. PICK v : v = [where EXCEPT ![t] = "check"]
  BY Zenon
<1>10. v = [w EXCEPT ![t] = "check"] /\ v[t] = "check" /\ v \in [Threads -> Places \union {"acting"}]
  BY <1>4, <1>9, <1>i DEF Places
<1>11. Ends(Up(sys, t), v, here)
  <2>1. w[t] \notin {"barrier", "startwait"}
    BY <1>w
  <2>2. QED
    BY Zenon, <1>6, <1>8, <1>10, <1>w, <2>1, PlaceEnds
<1>12. PICK r : r = ResumeThread_async(sys, t)
  OBVIOUS
<1>13. Ends(r, v, here) /\ Signals(Up(sys, t), r)
  BY Zenon, <1>10, <1>11, <1>12, <1>i, ResumeEnds
<1>14. Signals(sys, r)
  BY <1>6, <1>13, SignalsTransitive
<1>15. Heard(r, v)
  BY <1>14, <1>i, HeardNobody
<1>16. Goes(r, v)
  BY <1>10 DEF Goes
<1>k. Woken(r, v, Abandoned(r))
  <2>1. r.status[t] = "RUNNING"
    BY <1>13, <1>s DEF Signals, Rests
  <2>2. Woken(sys, where, abandoned) /\ \A u \in Threads : u # t => v[u] = where[u]
    BY <1>9, <1>i DEF ThreadInv
  <2>3. QED
    BY Zenon, <1>14, <2>1, <2>2, StillWoken
<1>17. Done(r, v, here, t, "check", here[t])
  BY <1>i, <1>9, <1>13, <1>15, <1>16, <1>k DEF Done, Places
<1>18. QED
  BY <1>1, <1>12, <1>17, <1>i, CommitInv

(* A thread that executes goes to Thread::reschedule next. *)
LEMMA ToCheck ==
  ASSUME ThreadInv, NEW t \in Threads, where[t] = "user", NEW v, v = [where EXCEPT ![t] = "check"]
  PROVE  /\ Ends(sys, v, here) /\ v \in [Threads -> Places \union {"acting"}] /\ v[t] = "check"
         /\ sys.status[t] = "RUNNING"
<1>i. /\ where \in [Threads -> Places] /\ sys \in Systems /\ Placed(sys, where)
      /\ AtPlaces(sys, where, here) /\ Ends(sys, where, here)
  BY Zenon DEF ThreadInv, Mid, Ends
<1>1. /\ \A u \in Threads : sys.waiter[u] # t
      /\ \A i \in DOMAIN sys.sleeping : sys.sleeping[i] # t
      /\ sys.waiter[t] = NoThread \/ where[sys.waiter[t]] # "startwait"
  BY CallerIsFree
<1>2. sys.status[t] = "RUNNING"
  BY <1>i DEF AtPlaces
<1>3. sys.coreRunning[t] # NoCore => (sys.core[t] # NoCore => sys.cstate[sys.core[t]] = sys.status[t])
  BY <1>i DEF Placed
<1>4. Fits(sys, where, here, t, "check")
  BY <1>1, <1>2, <1>3 DEF Fits
<1>5. where \in [Threads -> Places \union {"acting"}] /\ where[t] \notin {"barrier", "startwait"}
  BY <1>i
<1>6. Ends(sys, v, here)
  BY Zenon, <1>i, <1>4, <1>5, PlaceEnds
<1>7. QED
  BY <1>2, <1>6, <1>i DEF Places

(* Nothing the invariant speaks of has changed. *)
LEMMA SameEnds ==
  ASSUME NEW w, NEW h, NEW s, Ends(s, w, h), NEW r, Same(s, r)
  PROVE  Ends(r, w, h) /\ Signals(s, r) /\ SameModes(s, r)
<1>1. Mid(s, w, h) /\ Settled(s) /\ Held(s)
  BY DEF Ends
<1>2. Mid(r, w, h)
  BY <1>1, SameMid
<1>3. Settled(r) /\ Held(r)
  BY <1>1 DEF Same, SameTables, SameRest, Settled, Held
<1>4. Signals(s, r) /\ SameModes(s, r)
  BY SameSignals DEF Same, SameThreads, SameRest, SameModes
<1>5. QED
  BY <1>2, <1>3, <1>4 DEF Ends

(* Filling a free core. *)
LEMMA FillEnds ==
  ASSUME NEW w \in [Threads -> Places \union {"acting"}], NEW h, NEW s, Ends(s, w, h),
         NEW t \in Threads, FindFreeCoreForThread(s, t) # NoCore, NEW c, c = FindFreeCoreForThread(s, t)
  PROVE  /\ Ends(RescheduleCore(s, c), w, h) /\ Signals(s, RescheduleCore(s, c))
         /\ SameModes(s, RescheduleCore(s, c)) /\ Moves(s, RescheduleCore(s, c), {})
<1>1. Mid(s, w, h) /\ s \in Systems
  BY Zenon DEF Ends, Mid
<1>2. c \in Cores /\ s.running[c] = NoThread
  BY <1>1, FindFreeCore
<1>3. Mid(RescheduleCore(s, c), w, h) /\ Moves(s, RescheduleCore(s, c), {})
  BY <1>1, <1>2, RescheduleFreeCoreMid
<1>4. QED
  BY <1>3, MovesEnds

(* SchedulerPinnedBase::threadYield. *)
LEMMA YieldEnds ==
  ASSUME NEW w \in [Threads -> Places \union {"acting"}], NEW h, NEW s, Ends(s, w, h),
         NEW t \in Threads, w[t] = "check", s.status[t] = "RUNNING"
  PROVE  Ends(ThreadYield(s, t), w, h) /\ Signals(s, ThreadYield(s, t))
<1>m. s \in Systems /\ Tables(s) /\ Quantum \in Nat
  BY Zenon, ThreadSystemAssumption DEF Ends, Mid
<1>t. s.coreRunning \in [Threads -> Cores \union {NoCore}]
  BY <1>m, SystemsType
<1>1. CASE s.coreRunning[t] = NoCore
  <2>1. ThreadYield(s, t) = s
    BY <1>1 DEF ThreadYield
  <2>2. Signals(s, s)
    BY SameSignals
  <2>3. QED
    BY <2>1, <2>2
<1>2. CASE s.coreRunning[t] # NoCore
  <2>1. PICK c \in Cores : c = s.coreRunning[t]
    BY <1>t, <1>2
  <2>2. PICK q : q = [s EXCEPT !.quantumLeft[c] = 0]
    BY Zenon
  <2>3. PICK y : y = RescheduleCore(q, c)
    OBVIOUS
  <2>4. ThreadYield(s, t) = ToOtherCore(y, t, c)
    BY <1>2, <2>1, <2>2, <2>3 DEF ThreadYield
  <2>5. 0 \in 0 .. Quantum
    BY <1>m
  <2>6. Same(s, q)
    BY <1>m, <2>2, <2>5, QuantumIs
  <2>7. Ends(q, w, h) /\ Signals(s, q)
    BY <2>6, SameEnds
  <2>8. q.running[c] = t /\ q.status = s.status
    BY <1>m, <2>1, <2>6 DEF Tables, Same, SameTables, SameThreads
  <2>9. Movable(q, w, c)
    BY <2>8 DEF Movable
  <2>10. Mid(q, w, h)
    BY <2>7 DEF Ends
  <2>11. Mid(y, w, h) /\ Moves(q, y, {t})
    BY Zenon, <2>3, <2>8, <2>9, <2>10, RescheduleCoreMid
  <2>12. Ends(y, w, h) /\ Signals(q, y)
    BY <2>7, <2>11, MovesEnds
  <2>13. Signals(s, y)
    BY <2>7, <2>12, SignalsTransitive
  <2>14. CASE ToOtherCore(y, t, c) = y
    BY <2>4, <2>12, <2>13, <2>14
  <2>15. CASE /\ FindFreeCoreForThread(y, t) # NoCore
              /\ ToOtherCore(y, t, c) = RescheduleCore(y, FindFreeCoreForThread(y, t))
    <3>1. PICK f : f = FindFreeCoreForThread(y, t)
      OBVIOUS
    <3>2. Ends(RescheduleCore(y, f), w, h) /\ Signals(y, RescheduleCore(y, f))
      BY <2>12, <2>15, <3>1, FillEnds
    <3>3. Signals(s, RescheduleCore(y, f))
      BY <2>13, <3>2, SignalsTransitive
    <3>4. QED
      BY <2>4, <2>15, <3>1, <3>2, <3>3
  <2>16. QED
    BY <2>14, <2>15 DEF ToOtherCore
<1>3. QED
  BY <1>1, <1>2

(* How a critical section ends whose thread checks its schedule next. *)
LEMMA CheckNextInv ==
  ASSUME ThreadInv, NEW t \in Threads, NEW v, v = [where EXCEPT ![t] = "check"],
         where[t] = "user", NEW s, s.signalled = {}, Woken(s, where, abandoned),
         NEW r, Ends(r, v, here), Signals(s, r), Commit(r, t, "check", here[t])
  PROVE  ThreadInv'
<1>i. where \in [Threads -> Places] /\ here \in [Threads -> Cores \union {NoCore}]
  BY DEF ThreadInv
<1>1. Heard(r, v)
  BY HeardNobody
<1>2. Goes(r, v)
  BY <1>i DEF Goes
<1>k. Woken(r, v, Abandoned(r))
  <2>1. where[t] # "paused" /\ \A u \in Threads : u # t => v[u] = where[u]
    BY <1>i
  <2>2. QED
    BY Zenon, <2>1, StillWoken
<1>3. Done(r, v, here, t, "check", here[t])
  BY <1>i, <1>1, <1>2, <1>k DEF Done, Places
<1>4. QED
  BY <1>i, <1>3, CommitInv

(* A yield: SchedulerPinnedBase::threadYield. *)
LEMMA YieldInv ==
  ASSUME ~FollowAborts, ThreadInv, NEW t \in Threads, Yield(t)
  PROVE  ThreadInv'
<1>1. where[t] = "user" /\ Commit(ThreadYield(sys, t), t, "check", here[t])
  BY DEF Yield
<1>2. PICK v : v = [where EXCEPT ![t] = "check"]
  BY Zenon
<1>3. /\ Ends(sys, v, here) /\ v \in [Threads -> Places \union {"acting"}] /\ v[t] = "check"
      /\ sys.status[t] = "RUNNING"
  BY Zenon, <1>1, <1>2, ToCheck
<1>4. PICK r : r = ThreadYield(sys, t)
  OBVIOUS
<1>5. Ends(r, v, here) /\ Signals(sys, r)
  BY <1>3, <1>4, YieldEnds
<1>6. sys.signalled = {} /\ Woken(sys, where, abandoned) /\ Commit(r, t, "check", here[t])
  BY <1>1, <1>4 DEF ThreadInv
<1>7. QED
  BY Zenon, <1>1, <1>2, <1>5, <1>6, CheckNextInv

(* Thread t has another affinity. *)
Masked(t, mask) == [sys EXCEPT !.affinity[t] = mask]

(* The affinity is nothing the invariant speaks of. *)
LEMMA MaskedEnds ==
  ASSUME NEW w, NEW h, Ends(sys, w, h), NEW t \in Threads, NEW mask \in SUBSET Cores
  PROVE  /\ Ends(Masked(t, mask), w, h) /\ SameThreads(sys, Masked(t, mask))
         /\ Masked(t, mask).waiter = sys.waiter /\ Masked(t, mask).sleeping = sys.sleeping
<1>m. Mid(sys, w, h) /\ Settled(sys) /\ Held(sys) /\ sys \in Systems /\ InBarrier(sys, w, h)
      /\ sys.failed \subseteq {"application deadlocked", "advance spins"}
  BY Zenon DEF Ends, Mid
<1>1. PICK a : a = Masked(t, mask)
  OBVIOUS
<1>2. a = [sys EXCEPT !.affinity[t] = mask]
  BY <1>1 DEF Masked
<1>3. a \in Systems
  BY Zenon, <1>m, <1>2 DEF Systems
<1>4. /\ SameThreads(sys, a) /\ SameTables(sys, a) /\ a.clock = sys.clock
      /\ a.waiter = sys.waiter /\ a.sleeping = sys.sleeping /\ a.acquired = sys.acquired /\ a.slot = sys.slot
      /\ a.fastforward = sys.fastforward /\ a.disable = sys.disable /\ a.aborted = sys.aborted
      /\ a.failed = sys.failed /\ a.next = sys.next /\ a.lastPeriodic = sys.lastPeriodic
  BY Zenon, <1>m, <1>2 DEF Systems, SameThreads, SameTables
<1>5. sys.lastPeriodic <= sys.next /\ sys.next <= sys.next
  <2>1. sys.next \in Nat
    BY Zenon, <1>m, SystemsType
  <2>2. sys.lastPeriodic <= sys.next
    BY Zenon, <1>m DEF InBarrier
  <2>3. QED
    BY <2>1, <2>2, AtMostItself
<1>6. Calm(sys, a)
  BY Zenon, <1>3, <1>4, <1>5, <1>m DEF Calm
<1>7. Mid(a, w, h)
  BY Zenon, <1>m, <1>6, CalmMid
<1>8. Settled(a) /\ Held(a)
  BY Zenon, <1>m, <1>4 DEF SameTables, Settled, Held
<1>9. QED
  BY <1>1, <1>4, <1>7, <1>8 DEF Ends, SameThreads

(* SchedulerPinnedBase::threadSetAffinity. *)
LEMMA SetAffinityInv ==
  ASSUME ~FollowAborts, ThreadInv, NEW t \in Threads, NEW u \in Threads, NEW mask \in SUBSET Cores,
         SetAffinity(u, t, mask)
  PROVE  ThreadInv'
<1>1. PICK set : set = Masked(t, mask)
  OBVIOUS
<1>2. PICK c : c = set.coreRunning[t]
  OBVIOUS
<1>3. PICK free : free = FindFreeCoreForThread(set, t)
  OBVIOUS
<1>4. PICK done : done = IF t = u THEN ThreadYield(set, t)
                ELSE IF c # NoCore /\ c \notin mask THEN [set EXCEPT !.quantumLeft[c] = 0]
                ELSE IF set.runnable[t] /\ c = NoCore /\ free # NoCore THEN RescheduleCore(set, free)
                ELSE set
  BY Zenon
<1>5. where[u] = "user" /\ Commit(done, u, "check", here[u])
  BY <1>1, <1>2, <1>3, <1>4 DEF SetAffinity, Masked
<1>6. PICK v : v = [where EXCEPT ![u] = "check"]
  BY Zenon
<1>7. /\ Ends(sys, v, here) /\ v \in [Threads -> Places \union {"acting"}] /\ v[u] = "check"
      /\ sys.status[u] = "RUNNING"
  BY Zenon, <1>5, <1>6, ToCheck
<1>8. /\ Ends(set, v, here) /\ set.status = sys.status /\ set.signalled = {}
      /\ Woken(set, where, abandoned)
  <2>1. /\ Ends(set, v, here) /\ SameThreads(sys, set)
        /\ set.waiter = sys.waiter /\ set.sleeping = sys.sleeping
    BY <1>1, <1>7, MaskedEnds
  <2>2. QED
    BY <2>1, SameWoken DEF ThreadInv, SameThreads
<1>m. set \in Systems /\ Quantum \in Nat
  BY Zenon, <1>8, ThreadSystemAssumption DEF Ends, Mid
<1>9. Ends(done, v, here) /\ Signals(set, done)
  <2>1. CASE t = u
    <3>1. done = ThreadYield(set, t) /\ v[t] = "check" /\ set.status[t] = "RUNNING"
      BY <1>4, <1>7, <1>8, <2>1
    <3>2. QED
      BY <1>7, <1>8, <3>1, YieldEnds
  <2>2. CASE t # u /\ c # NoCore /\ c \notin mask
    <3>1. done = [set EXCEPT !.quantumLeft[c] = 0]
      BY <1>4, <2>2
    <3>2. c \in Cores /\ 0 \in 0 .. Quantum
      BY <1>2, <1>m, <2>2, SystemsType
    <3>3. Same(set, done)
      BY <1>m, <3>1, <3>2, QuantumIs
    <3>4. QED
      BY <1>8, <3>3, SameEnds
  <2>3. CASE done = RescheduleCore(set, free) /\ free # NoCore
    BY <1>3, <1>7, <1>8, <2>3, FillEnds
  <2>4. CASE done = set
    BY <1>8, <2>4, SameSignals
  <2>5. QED
    BY <1>4, <2>1, <2>2, <2>3, <2>4
<1>10. QED
  BY Zenon, <1>5, <1>6, <1>8, <1>9, CheckNextInv

(* Only the entries of the tables for thread t change. *)
Touches(s, f, t) ==
    /\ f \in Systems /\ SameThreads(s, f) /\ SameModes(s, f)
    /\ f.waiter = s.waiter /\ f.sleeping = s.sleeping /\ f.failed = s.failed
    /\ f.clock = s.clock /\ f.acquired = s.acquired /\ f.slot = s.slot /\ f.next = s.next
    /\ f.lastPeriodic = s.lastPeriodic
    /\ \A u \in Threads : u # t =>
         /\ f.core[u] = s.core[u] /\ f.coreRunning[u] = s.coreRunning[u]
         /\ s.core[u] # NoCore => f.cstate[s.core[u]] = s.cstate[s.core[u]]
    /\ s.coreRunning[t] # NoCore => f.coreRunning[t] # NoCore

(* It keeps the invariant while t acts. *)
LEMMA TouchMid ==
  ASSUME NEW w, NEW h, NEW s, Mid(s, w, h), NEW t \in Threads, w[t] = "acting",
         NEW f, Touches(s, f, t), Tables(f)
  PROVE  /\ Mid(f, w, h) /\ SameModes(s, f) /\ Signals(s, f)
         /\ Held(s) => Held(f)
<1>m. /\ s \in Systems /\ Placed(s, w) /\ Ready(s) /\ AtPlaces(s, w, h)
      /\ Waits(s, w) /\ Asleep(s, w) /\ InBarrier(s, w, h)
      /\ s.failed \subseteq {"application deadlocked", "advance spins"}
  BY Zenon DEF Mid
<1>t. /\ f \in Systems /\ SameThreads(s, f) /\ SameModes(s, f)
      /\ f.waiter = s.waiter /\ f.sleeping = s.sleeping /\ f.failed = s.failed
      /\ f.clock = s.clock /\ f.acquired = s.acquired /\ f.slot = s.slot /\ f.next = s.next
      /\ f.lastPeriodic = s.lastPeriodic
  BY DEF Touches
<1>u. \A u \in Threads : u # t =>
         /\ f.core[u] = s.core[u] /\ f.coreRunning[u] = s.coreRunning[u]
         /\ s.core[u] # NoCore => f.cstate[s.core[u]] = s.cstate[s.core[u]]
  BY DEF Touches
<1>a. f.status = s.status /\ f.reason = s.reason /\ f.runnable = s.runnable /\ f.signalled = s.signalled
  BY <1>t DEF SameThreads
<1>g. w[t] = "acting"
  OBVIOUS
<1>1. Placed(f, w)
  <2>1. Placed(s, w)
    BY Zenon, <1>m
  <2>2. QED
    BY ONLY <2>1, <1>a, <1>u, <1>g, SMTT(30) DEF Placed
<1>2. Ready(f)
  <2>1. \A u \in Threads : s.coreRunning[u] # NoCore => f.coreRunning[u] # NoCore
    BY <1>u DEF Touches
  <2>2. QED
    BY Zenon, <1>m, <1>t, <2>1, KeepsReady
<1>3. AtPlaces(f, w, h)
  <2>1. AtPlaces(s, w, h)
    BY Zenon, <1>m
  <2>2. SUFFICES ASSUME NEW u \in Threads
                 PROVE  /\ w[u] = "none" => f.status[u] = "none" /\ f.coreRunning[u] = NoCore
                        /\ w[u] = "created" => f.status[u] = "INITIALIZING" /\ f.core[u] = f.coreRunning[u]
                        /\ w[u] = "user" => f.status[u] = "RUNNING" /\ f.core[u] = h[u] /\ h[u] \in Cores
                        /\ w[u] = "check" => f.status[u] = "RUNNING"
                             \/ (f.status[u] = "STALLED" /\ f.reason[u] \in {"JOIN", "UNSCHEDULED"})
                        /\ w[u] = "stalled" =>
                             f.status[u] = "STALLED" \/ (f.status[u] = "RUNNING" /\ u \in f.signalled)
                        /\ w[u] \in {"startwait", "barrier"} => f.status[u] = "RUNNING"
                        /\ w[u] = "paused" => f.status[u] = "STALLED" /\ f.reason[u] = "PAUSE"
                        /\ w[u] = "exited" => f.status[u] = "IDLE"
    BY DEF AtPlaces
  <2>3. CASE u = t
    BY <1>g, <2>3
  <2>4. CASE u # t
    <3>1. f.core[u] = s.core[u] /\ f.coreRunning[u] = s.coreRunning[u]
      BY <1>u, <2>4
    <3>2. QED
      BY ONLY <2>1, <2>2, <3>1, <1>a, SMTT(30) DEF AtPlaces
  <2>5. QED
    BY <2>3, <2>4
<1>4. Waits(f, w) /\ Asleep(f, w)
  BY Zenon, <1>m, <1>t, KeepsThreads
<1>5. InBarrier(f, w, h)
  <2>1. /\ \A c \in Cores : f.acquired[c] =>
              /\ f.slot[c] \in Threads /\ f.slot[c] \notin f.signalled
              /\ w[f.slot[c]] = "barrier" /\ h[f.slot[c]] = c
              /\ f.core[f.slot[c]] = c \/ f.clock[c] = 0
        /\ \A u \in Threads : w[u] = "barrier" =>
              h[u] \in Cores /\ (u \in f.signalled \/ (f.acquired[h[u]] /\ f.slot[h[u]] = u))
    <3>1. /\ \A c \in Cores : s.acquired[c] =>
              /\ s.slot[c] \in Threads /\ s.slot[c] \notin s.signalled
              /\ w[s.slot[c]] = "barrier" /\ h[s.slot[c]] = c
              /\ s.core[s.slot[c]] = c \/ s.clock[c] = 0
          /\ \A u \in Threads : w[u] = "barrier" =>
              h[u] \in Cores /\ (u \in s.signalled \/ (s.acquired[h[u]] /\ s.slot[h[u]] = u))
      BY Zenon, <1>m DEF InBarrier
    <3>2. f.acquired = s.acquired /\ f.slot = s.slot /\ f.signalled = s.signalled /\ f.clock = s.clock
      BY <1>a, <1>t
    <3>3. QED
      BY ONLY <3>1, <3>2, <1>u, <1>g
  <2>2. Clocks(s)
    BY Zenon, <1>m DEF InBarrier, Clocks
  <2>3. Clocks(f)
    BY <2>2, <1>t DEF Clocks, SameModes
  <2>4. QED
    BY ONLY <2>1, <2>3 DEF InBarrier, Clocks
<1>6. Mid(f, w, h)
  BY Zenon, <1>1, <1>2, <1>3, <1>4, <1>5, <1>m, <1>t DEF Mid
<1>7. Signals(s, f)
  BY <1>a, <1>t, SameSignals
<1>8. ASSUME Held(s) PROVE Held(f)
  <2>1. \A c \in Cores : s.acquired[c] => s.slot[c] \in Threads /\ s.slot[c] # t
    BY Zenon, <1>m, <1>g DEF InBarrier
  <2>2. \A c \in Cores : s.acquired[c] => f.core[s.slot[c]] = s.core[s.slot[c]]
    BY <1>u, <2>1
  <2>3. QED
    BY <1>8, <1>t, <2>2 DEF Held, SameModes
<1>9. QED
  BY <1>6, <1>7, <1>8, <1>t

(* A thread that is starting has not started. *)
LEMMA CreatedIs ==
  ASSUME ThreadInv, NEW t \in Threads, sys.status[t] = "INITIALIZING"
  PROVE  where[t] = "created"
BY Zenon DEF ThreadInv, Mid, AtPlaces, Places

(* ThreadManager::waitForThreadStart. *)
LEMMA WaitForThreadStartInv ==
  ASSUME ~FollowAborts, ThreadInv, NEW t \in Threads, NEW u \in Threads, WaitForThreadStart(u, t)
  PROVE  ThreadInv'
<1>1. /\ where[u] = "user" /\ u # t /\ sys.status[t] = "INITIALIZING" /\ sys.waiter[t] = NoThread
      /\ Commit(Noted(sys, t, u), u, "startwait", here[u])
  BY DEF WaitForThreadStart, Noted
<1>i. /\ where \in [Threads -> Places] /\ here \in [Threads -> Cores \union {NoCore}]
      /\ sys.signalled = {} /\ Settled(sys) /\ Held(sys)
  BY DEF ThreadInv
<1>m. /\ sys \in Systems /\ Tables(sys) /\ Placed(sys, where) /\ Ready(sys) /\ AtPlaces(sys, where, here)
      /\ Waits(sys, where) /\ Asleep(sys, where) /\ InBarrier(sys, where, here)
      /\ sys.failed \subseteq {"application deadlocked", "advance spins"}
  BY Zenon DEF ThreadInv, Mid
<1>t. sys.waiter \in [Threads -> Threads \union {NoThread}]
  BY Zenon, <1>m, SystemsType
<1>n. NoThread \notin Threads
  BY CoresAndThreads
<1>2. where[t] = "created"
  BY <1>1, CreatedIs
<1>3. /\ \A x \in Threads : sys.waiter[x] # u
      /\ \A i \in DOMAIN sys.sleeping : sys.sleeping[i] # u
      /\ sys.waiter[u] = NoThread \/ where[sys.waiter[u]] # "startwait"
  BY <1>1, CallerIsFree
<1>4. PICK r : r = Noted(sys, t, u)
  OBVIOUS
<1>5. /\ Acts(sys, r, u) /\ r.sleeping = sys.sleeping /\ r.waiter = [sys.waiter EXCEPT ![t] = u]
      /\ SameThreads(sys, r)
  <2>1. u \in Threads \union {NoThread}
    OBVIOUS
  <2>2. QED
    BY ZenonT(40), <1>m, <1>4, <2>1, WaiterIs
<1>a. /\ r \in Systems /\ r.status = sys.status /\ r.reason = sys.reason /\ r.runnable = sys.runnable
      /\ r.signalled = sys.signalled
      /\ r.core = sys.core /\ r.cthread = sys.cthread /\ r.cstate = sys.cstate
      /\ r.coreRunning = sys.coreRunning /\ r.running = sys.running
  BY <1>5 DEF Acts, SameThreads, SameTables
<1>b. /\ r.clock = sys.clock /\ r.acquired = sys.acquired /\ r.slot = sys.slot /\ r.next = sys.next
      /\ r.lastPeriodic = sys.lastPeriodic /\ r.failed = sys.failed /\ r.disable = sys.disable
      /\ r.aborted = sys.aborted /\ r.fastforward = sys.fastforward
  BY <1>5 DEF Acts, SameModes
<1>6. PICK w : w = [where EXCEPT ![u] = "startwait"]
  BY Zenon
<1>w. \A x \in Threads : w[x] = IF x = u THEN "startwait" ELSE where[x]
  BY <1>6, <1>i
<1>x. \A x \in Threads : r.waiter[x] = IF x = t THEN u ELSE sys.waiter[x]
  BY <1>5, <1>t
<1>c. r.core = sys.core /\ r.cthread = sys.cthread /\ r.cstate = sys.cstate
      /\ r.coreRunning = sys.coreRunning /\ r.running = sys.running
  BY <1>a
<1>7. Tables(r)
  <2>1. Tables(sys)
    BY Zenon, <1>m
  <2>2. QED
    BY ONLY <2>1, <1>c, SMTT(30) DEF Tables
<1>8. Ready(r)
  BY Zenon, <1>m, <1>5, <1>a, KeepsReady
<1>9. Placed(r, w)
  <2>1. Placed(sys, where)
    BY Zenon, <1>m
  <2>2. where[u] # "acting" /\ \A x \in Threads : w[x] # "acting" => where[x] # "acting"
    BY <1>1, <1>w
  <2>3. r.status = sys.status
    BY <1>a
  <2>4. QED
    BY ONLY <2>1, <2>2, <2>3, <1>c, SMTT(30) DEF Placed
<1>10. AtPlaces(r, w, here)
  <2>1. SUFFICES ASSUME NEW x \in Threads
                 PROVE  /\ w[x] = "none" => sys.status[x] = "none" /\ sys.coreRunning[x] = NoCore
                        /\ w[x] = "created" => sys.status[x] = "INITIALIZING" /\ sys.core[x] = sys.coreRunning[x]
                        /\ w[x] = "user" => sys.status[x] = "RUNNING" /\ sys.core[x] = here[x] /\ here[x] \in Cores
                        /\ w[x] = "check" => sys.status[x] = "RUNNING"
                             \/ (sys.status[x] = "STALLED" /\ sys.reason[x] \in {"JOIN", "UNSCHEDULED"})
                        /\ w[x] = "stalled" =>
                             sys.status[x] = "STALLED" \/ (sys.status[x] = "RUNNING" /\ x \in sys.signalled)
                        /\ w[x] \in {"startwait", "barrier"} => sys.status[x] = "RUNNING"
                        /\ w[x] = "paused" => sys.status[x] = "STALLED" /\ sys.reason[x] = "PAUSE"
                        /\ w[x] = "exited" => sys.status[x] = "IDLE"
    BY <1>a, <1>c DEF AtPlaces
  <2>2. CASE x = u
    BY Zenon, <1>1, <1>m, <1>w, <2>2 DEF AtPlaces
  <2>3. CASE x # u
    <3>1. w[x] = where[x]
      BY <1>w, <2>3
    <3>2. AtPlaces(sys, where, here)
      BY Zenon, <1>m
    <3>3. QED
      BY ONLY <2>1, <3>1, <3>2, SMTT(30) DEF AtPlaces
  <2>4. QED
    BY <2>2, <2>3
<1>11. Waits(r, w)
  <2>2. ASSUME NEW x \in Threads, r.waiter[x] # NoThread
        PROVE  \/ w[r.waiter[x]] = "startwait" /\ w[x] \in {"created", "acting"}
               \/ /\ w[r.waiter[x]] \in {"stalled", "acting"}
                  /\ r.status[r.waiter[x]] = "STALLED" /\ r.reason[r.waiter[x]] = "JOIN"
    <3>1. CASE x = t
      BY <1>1, <1>2, <1>w, <1>x, <3>1
    <3>2. CASE x # t
      <4>1. PICK y \in Threads : y = sys.waiter[x] /\ y = r.waiter[x] /\ y # u
        BY <1>x, <1>t, <1>3, <2>2, <3>2
      <4>2. \/ where[y] = "startwait" /\ where[x] \in {"created", "acting"}
            \/ /\ where[y] \in {"stalled", "acting"}
               /\ sys.status[y] = "STALLED" /\ sys.reason[y] = "JOIN"
        <5>1. sys.waiter[x] # NoThread
          BY <1>n, <4>1
        <5>2. \/ where[sys.waiter[x]] = "startwait" /\ where[x] \in {"created", "acting"}
              \/ /\ where[sys.waiter[x]] \in {"stalled", "acting"}
                 /\ sys.status[sys.waiter[x]] = "STALLED" /\ sys.reason[sys.waiter[x]] = "JOIN"
          BY Zenon, <1>m, <5>1 DEF Waits
        <5>3. QED
          BY ONLY <4>1, <5>2
      <4>3. w[y] = where[y] /\ r.status[y] = sys.status[y] /\ r.reason[y] = sys.reason[y]
        BY <1>w, <1>a, <4>1
      <4>4. where[x] \in {"created", "acting"} => w[x] \in {"created", "acting"}
        BY <1>1, <1>w
      <4>5. QED
        BY <4>1, <4>2, <4>3, <4>4
    <3>3. QED
      BY <3>1, <3>2
  <2>3. ASSUME NEW x \in Threads, NEW y \in Threads, r.waiter[x] = r.waiter[y], r.waiter[x] # NoThread
        PROVE  x = y
    <3>1. \A z \in Threads : z # t => r.waiter[z] = sys.waiter[z] /\ r.waiter[z] # u
      BY <1>x, <1>3
    <3>2. r.waiter[t] = u
      BY <1>x
    <3>3. CASE x = t \/ y = t
      BY <2>3, <3>1, <3>2, <3>3
    <3>4. CASE x # t /\ y # t
      <4>1. \A p, q \in Threads : (sys.waiter[p] = sys.waiter[q] /\ sys.waiter[p] # NoThread) => p = q
        BY Zenon, <1>m DEF Waits
      <4>2. sys.waiter[x] = sys.waiter[y] /\ sys.waiter[x] # NoThread
        BY <2>3, <3>1, <3>4
      <4>3. QED
        BY <4>1, <4>2
    <3>5. QED
      BY <3>3, <3>4
  <2>4. ASSUME NEW x \in Threads, w[x] = "startwait"
        PROVE  \E y \in Threads : r.waiter[y] = x /\ w[y] \in {"created", "acting"}
    <3>1. CASE x = u
      <4>1. r.waiter[t] = u /\ w[t] = "created"
        BY <1>1, <1>2, <1>w, <1>x
      <4>2. QED
        BY <3>1, <4>1
    <3>2. CASE x # u
      <4>1. where[x] = "startwait"
        BY <1>w, <2>4, <3>2
      <4>2. PICK y \in Threads : sys.waiter[y] = x /\ where[y] \in {"created", "acting"}
        BY Zenon, <1>m, <1>i, <4>1 DEF Waits
      <4>3. y # t /\ y # u
        BY <1>1, <1>n, <4>2
      <4>4. QED
        BY <1>w, <1>x, <4>2, <4>3
    <3>3. QED
      BY <3>1, <3>2
  <2>5. r.signalled = {}
    BY <1>a, <1>i
  <2>6. QED
    BY <2>2, <2>3, <2>4, <2>5 DEF Waits
<1>12. Asleep(r, w)
  <2>1. \A i \in DOMAIN sys.sleeping : sys.sleeping[i] \in Threads
    <3>1. sys.sleeping \in Seq(Threads)
      BY Zenon, <1>m, SystemsType
    <3>2. QED
      BY <3>1, ElementOfSeq, LenProperties
  <2>2. r.sleeping = sys.sleeping /\ r.status = sys.status /\ r.reason = sys.reason
    BY <1>5, <1>a
  <2>3. \A i \in DOMAIN sys.sleeping : w[sys.sleeping[i]] = where[sys.sleeping[i]]
    BY <1>3, <1>w, <2>1
  <2>4. Asleep(sys, where)
    BY Zenon, <1>m
  <2>5. QED
    BY ONLY <2>2, <2>3, <2>4, SMTT(30) DEF Asleep
<1>13. InBarrier(r, w, here)
  <2>1. /\ \A c \in Cores : r.acquired[c] =>
              /\ r.slot[c] \in Threads /\ r.slot[c] \notin r.signalled
              /\ w[r.slot[c]] = "barrier" /\ here[r.slot[c]] = c
              /\ r.core[r.slot[c]] = c \/ r.clock[c] = 0
        /\ \A x \in Threads : w[x] = "barrier" =>
              here[x] \in Cores /\ (x \in r.signalled \/ (r.acquired[here[x]] /\ r.slot[here[x]] = x))
    <3>1. /\ \A c \in Cores : sys.acquired[c] =>
              /\ sys.slot[c] \in Threads /\ sys.slot[c] \notin sys.signalled
              /\ where[sys.slot[c]] = "barrier" /\ here[sys.slot[c]] = c
              /\ sys.core[sys.slot[c]] = c \/ sys.clock[c] = 0
          /\ \A x \in Threads : where[x] = "barrier" =>
              here[x] \in Cores /\ (x \in sys.signalled \/ (sys.acquired[here[x]] /\ sys.slot[here[x]] = x))
      BY Zenon, <1>m DEF InBarrier
    <3>2. r.acquired = sys.acquired /\ r.slot = sys.slot /\ r.signalled = sys.signalled /\ r.clock = sys.clock
          /\ r.core = sys.core
      BY <1>a, <1>b
    <3>3. \A x \in Threads : w[x] = "barrier" <=> where[x] = "barrier"
      BY <1>1, <1>w
    <3>4. QED
      BY ONLY <3>1, <3>2, <3>3
  <2>2. Clocks(sys)
    BY Zenon, <1>m DEF InBarrier, Clocks
  <2>3. Clocks(r)
    BY <2>2, <1>b DEF Clocks
  <2>4. QED
    BY ONLY <2>1, <2>3 DEF InBarrier, Clocks
<1>14. Mid(r, w, here)
  BY Zenon, <1>7, <1>8, <1>9, <1>10, <1>11, <1>12, <1>13, <1>a, <1>b, <1>m DEF Mid
<1>15. Settled(r) /\ Held(r)
  BY <1>i, <1>a, <1>b DEF Settled, Held
<1>16. Heard(r, w) /\ u \notin r.signalled
  BY <1>a, <1>i DEF Heard
<1>17. Goes(r, w)
  <2>1. w[t] = "created"
    BY <1>1, <1>2, <1>w
  <2>2. QED
    BY <2>1 DEF Goes
<1>18. Ends(r, w, here)
  BY <1>14, <1>15 DEF Ends
<1>k. Woken(r, w, Abandoned(r))
  <2>1. Woken(sys, where, abandoned) /\ Sleepers(sys) \subseteq Sleepers(r)
    BY <1>5 DEF ThreadInv, Sleepers
  <2>2. \A x \in Threads : sys.waiter[x] \in Threads => r.waiter[x] = sys.waiter[x]
    BY <1>1, <1>n, <1>x
  <2>3. r.status[u] = "RUNNING" /\ r.runnable[u]
    BY <1>1, <1>a, <1>m, <2>1 DEF AtPlaces, Woken
  <2>4. \A x \in Threads : x # u => w[x] = where[x]
    BY <1>w
  <2>5. \A x \in Threads : sys.waiter[x] \in Threads /\ sys.status[x] \notin {"none", "IDLE"} =>
           r.waiter[x] = sys.waiter[x] /\ r.status[x] \notin {"none", "IDLE"}
    BY <1>a, <2>2
  <2>6. Woken(r, w, abandoned)
    <3>1. Acts(sys, r, u)
      BY <1>5
    <3>2. QED
      BY <2>1, <2>3, <2>4, <2>5, <3>1, ActsWoken
  <2>7. \A x \in Threads : (w[x] = "paused" /\ r.status[x] = "STALLED") => w[x] = "paused"
    OBVIOUS
  <2>8. Signals(r, r)
    BY SameSignals
  <2>9. QED
    BY <2>6, <2>7, <2>8, WokenOn, MoreAbandoned
<1>19. Done(r, w, here, u, "startwait", here[u])
  BY <1>6, <1>i, <1>16, <1>17, <1>18, <1>k DEF Done, Places
<1>20. QED
  BY <1>1, <1>4, <1>19, <1>i, CommitInv

(* SchedulerPinned::getNextCore answers a core. *)
LEMMA NextCoreIs ==
  ASSUME NEW c \in Cores
  PROVE  GetNextCore(c) \in Cores
<1>1. PICK n \in Nat : n = Cardinality(Cores)
  BY ThreadSystemAssumption
<1>2. Cores = 0 .. (n - 1) /\ Interleaving \in 1 .. n
  BY <1>1, ThreadSystemAssumption
<1>3. PICK d : d = c + Interleaving
  OBVIOUS
<1>4. d \in Nat /\ n > 0
  BY <1>2, <1>3
<1>5. CASE d >= n
  <2>1. PICK e : e = (d % n) + 1
    OBVIOUS
  <2>2. e \in Nat
    BY <1>4, <2>1
  <2>3. GetNextCore(c) = e % Interleaving
    BY <1>1, <1>3, <1>5, <2>1 DEF GetNextCore
  <2>4. e % Interleaving \in 0 .. (Interleaving - 1)
    BY <1>2, <2>2
  <2>5. QED
    BY <1>2, <2>3, <2>4
<1>6. CASE ~(d >= n)
  <2>1. GetNextCore(c) = d
    BY <1>1, <1>3, <1>6 DEF GetNextCore
  <2>2. QED
    BY <1>2, <1>4, <1>6, <2>1
<1>7. QED
  BY <1>5, <1>6

(* A thread is known to the servers, and may run where its affinity says. *)
Begun(s, t) ==
    [s EXCEPT !.status[t] = "INITIALIZING", !.affinity[t] = InitialAffinity(s),
              !.nextCore = IF s.policy = "pinned" THEN GetNextCore(@) ELSE @]

(* What this changes. *)
LEMMA BegunIs ==
  ASSUME NEW s \in Systems, NEW t \in Threads
  PROVE  /\ Acts(s, Begun(s, t), t)
         /\ Begun(s, t).waiter = s.waiter /\ Begun(s, t).sleeping = s.sleeping
         /\ Begun(s, t).status[t] = "INITIALIZING" /\ Begun(s, t).runnable = s.runnable
<1>1. PICK status : status = [s.status EXCEPT ![t] = "INITIALIZING"]
  BY Zenon
<1>2. PICK affinity : affinity = [s.affinity EXCEPT ![t] = InitialAffinity(s)]
  BY Zenon
<1>3. PICK core : core = IF s.policy = "pinned" THEN GetNextCore(s.nextCore) ELSE s.nextCore
  OBVIOUS
<1>t. s.status \in [Threads -> Statuses] /\ s.affinity \in [Threads -> SUBSET Cores] /\ s.nextCore \in Cores
  BY SystemsType
<1>4. status \in [Threads -> Statuses]
  BY <1>1, <1>t DEF Statuses
<1>5. affinity \in [Threads -> SUBSET Cores]
  <2>1. InitialAffinity(s) \in SUBSET Cores
    BY <1>t DEF InitialAffinity
  <2>2. QED
    BY <1>2, <1>t, <2>1
<1>6. core \in Cores
  BY <1>3, <1>t, NextCoreIs
<1>7. PICK d : d = [s EXCEPT !.status = status, !.affinity = affinity, !.nextCore = core]
  OBVIOUS
<1>8. Begun(s, t) = d
  BY <1>1, <1>2, <1>3, <1>7 DEF Begun, Systems
<1>9. d \in Systems
  BY Zenon, <1>4, <1>5, <1>6, <1>7 DEF Systems
<1>10. /\ SameTables(s, d) /\ SameModes(s, d)
       /\ d.clock = s.clock /\ d.acquired = s.acquired /\ d.slot = s.slot /\ d.next = s.next
       /\ d.lastPeriodic = s.lastPeriodic /\ d.signalled = s.signalled /\ d.failed = s.failed
       /\ d.waiter = s.waiter /\ d.sleeping = s.sleeping /\ d.runnable = s.runnable /\ d.reason = s.reason
       /\ d.status = status
  BY <1>7 DEF Systems, SameTables, SameModes
<1>11. status[t] = "INITIALIZING" /\ \A u \in Threads : u # t => status[u] = s.status[u]
  BY <1>1, <1>t
<1>12. QED
  BY <1>8, <1>9, <1>10, <1>11 DEF Acts

(* A new thread gets a free core. *)
First(s, c, t) ==
    SetState(SetCore([s EXCEPT !.coreRunning[t] = c, !.running[c] = t, !.quantumLeft[c] = Quantum], t, c),
             c, "INITIALIZING")

(* What this changes. *)
Firsts(s, f, c, t) ==
    /\ f \in Systems /\ SameRest(s, f) /\ SameThreads(s, f) /\ f.clock = s.clock
    /\ f.coreRunning = [s.coreRunning EXCEPT ![t] = c] /\ f.running = [s.running EXCEPT ![c] = t]
    /\ f.core = [s.core EXCEPT ![t] = c] /\ f.cthread = [s.cthread EXCEPT ![c] = t]
    /\ f.cstate = [s.cstate EXCEPT ![c] = "INITIALIZING"]

(* A state with other tables of the scheduler is a state. *)
LEMMA RunningType ==
  ASSUME NEW s \in Systems, NEW p \in [Threads -> Cores \union {NoCore}],
         NEW r \in [Cores -> Threads \union {NoThread}], NEW q \in [Cores -> 0 .. Quantum]
  PROVE  [s EXCEPT !.coreRunning = p, !.running = r, !.quantumLeft = q] \in Systems
BY Zenon DEF Systems

(* A state with other tables of the thread manager is a state. *)
LEMMA SeatedType ==
  ASSUME NEW s \in Systems, NEW o \in [Threads -> Cores \union {NoCore}],
         NEW h \in [Cores -> Threads \union {NoThread}]
  PROVE  [s EXCEPT !.core = o, !.cthread = h] \in Systems
BY Zenon DEF Systems

(* A state with other states of the cores is a state. *)
LEMMA StateType ==
  ASSUME NEW s \in Systems, NEW k \in [Cores -> {"IDLE", "INITIALIZING", "RUNNING"}]
  PROVE  [s EXCEPT !.cstate = k] \in Systems
BY Zenon DEF Systems

(* It changes this. *)
LEMMA FirstIs ==
  ASSUME NEW s \in Systems, NEW t \in Threads, NEW c \in Cores, s.core[t] = NoCore, s.cthread[c] = NoThread
  PROVE  Firsts(s, First(s, c, t), c, t)
<1>0. c # NoCore /\ Quantum \in 0 .. Quantum
  BY CoresAndThreads, ThreadSystemAssumption
<1>t. /\ s.core \in [Threads -> Cores \union {NoCore}] /\ s.cthread \in [Cores -> Threads \union {NoThread}]
      /\ s.coreRunning \in [Threads -> Cores \union {NoCore}]
      /\ s.running \in [Cores -> Threads \union {NoThread}]
      /\ s.cstate \in [Cores -> {"IDLE", "INITIALIZING", "RUNNING"}]
      /\ s.quantumLeft \in [Cores -> 0 .. Quantum]
  BY SystemsType
<1>1. PICK p : p = [s.coreRunning EXCEPT ![t] = c]
  BY Zenon
<1>2. PICK r : r = [s.running EXCEPT ![c] = t]
  BY Zenon
<1>3. PICK q : q = [s.quantumLeft EXCEPT ![c] = Quantum]
  BY Zenon
<1>4. PICK o : o = [s.core EXCEPT ![t] = c]
  BY Zenon
<1>5. PICK h : h = [s.cthread EXCEPT ![c] = t]
  BY Zenon
<1>6. PICK k : k = [s.cstate EXCEPT ![c] = "INITIALIZING"]
  BY Zenon
<1>7. /\ p \in [Threads -> Cores \union {NoCore}] /\ r \in [Cores -> Threads \union {NoThread}]
      /\ q \in [Cores -> 0 .. Quantum] /\ o \in [Threads -> Cores \union {NoCore}]
      /\ h \in [Cores -> Threads \union {NoThread}] /\ k \in [Cores -> {"IDLE", "INITIALIZING", "RUNNING"}]
  BY <1>0, <1>t, <1>1, <1>2, <1>3, <1>4, <1>5, <1>6
<1>8. PICK a : a = [s EXCEPT !.coreRunning = p, !.running = r, !.quantumLeft = q]
  OBVIOUS
<1>9. a \in Systems /\ a.core = s.core /\ a.cthread = s.cthread /\ a.cstate = s.cstate
  <2>1. a \in Systems
    BY Zenon, <1>7, <1>8, RunningType
  <2>2. QED
    BY ZenonT(40), <2>1, <1>8 DEF Systems
<1>10. PICK b : b = [a EXCEPT !.core = o, !.cthread = h]
  OBVIOUS
<1>11. b \in Systems /\ b.cstate = s.cstate
  <2>1. b \in Systems
    BY Zenon, <1>7, <1>9, <1>10, SeatedType
  <2>2. QED
    BY Zenon, <2>1, <1>9, <1>10 DEF Systems
<1>12. PICK f : f = [b EXCEPT !.cstate = k]
  BY Zenon
<1>13. First(s, c, t) = f
  <2>1. a = [s EXCEPT !.coreRunning[t] = c, !.running[c] = t, !.quantumLeft[c] = Quantum]
    BY <1>1, <1>2, <1>3, <1>8 DEF Systems
  <2>2. SetCore(a, t, c) = b
    BY Zenon, <1>0, <1>4, <1>5, <1>9, <1>10 DEF SetCore, AssertIn, Systems
  <2>3. SetState(b, c, "INITIALIZING") = f
    BY <1>0, <1>6, <1>11, <1>12 DEF SetState
  <2>4. QED
    BY <2>1, <2>2, <2>3 DEF First
<1>14. f \in Systems
  BY <1>7, <1>11, <1>12, StateType
<1>15. /\ SameRest(s, a) /\ SameThreads(s, a) /\ a.clock = s.clock
       /\ a.coreRunning = p /\ a.running = r
  BY <1>8 DEF Systems, SameRest, SameThreads
<1>16. /\ SameRest(a, b) /\ SameThreads(a, b) /\ b.clock = a.clock
       /\ b.coreRunning = a.coreRunning /\ b.running = a.running /\ b.core = o /\ b.cthread = h
  BY <1>9, <1>10 DEF Systems, SameRest, SameThreads
<1>17. /\ SameRest(b, f) /\ SameThreads(b, f) /\ f.clock = b.clock
       /\ f.coreRunning = b.coreRunning /\ f.running = b.running /\ f.core = b.core /\ f.cthread = b.cthread
       /\ f.cstate = k
  BY <1>11, <1>12 DEF Systems, SameRest, SameThreads
<1>18. SameRest(s, f) /\ SameThreads(s, f) /\ f.clock = s.clock
  BY <1>15, <1>16, <1>17 DEF SameRest, SameThreads
<1>19. QED
  BY <1>1, <1>2, <1>4, <1>5, <1>6, <1>13, <1>14, <1>15, <1>16, <1>17, <1>18 DEF Firsts

(* It keeps the invariant while t is being created. *)
LEMMA FirstEnds ==
  ASSUME NEW w, NEW h, NEW s, Ends(s, w, h), NEW t \in Threads, w[t] = "acting",
         s.coreRunning[t] = NoCore, NEW c \in Cores, s.running[c] = NoThread
  PROVE  /\ Ends(First(s, c, t), w, h) /\ SameThreads(s, First(s, c, t))
         /\ First(s, c, t).core[t] = c /\ First(s, c, t).coreRunning[t] = c
         /\ First(s, c, t).cstate[c] = "INITIALIZING"
         /\ First(s, c, t).waiter = s.waiter /\ First(s, c, t).sleeping = s.sleeping
<1>m. s \in Systems /\ Tables(s) /\ Mid(s, w, h) /\ Settled(s) /\ Held(s)
  BY Zenon DEF Ends, Mid
<1>t. /\ s.core \in [Threads -> Cores \union {NoCore}] /\ s.cthread \in [Cores -> Threads \union {NoThread}]
      /\ s.coreRunning \in [Threads -> Cores \union {NoCore}]
      /\ s.running \in [Cores -> Threads \union {NoThread}]
      /\ s.cstate \in [Cores -> {"IDLE", "INITIALIZING", "RUNNING"}]
  BY <1>m, SystemsType
<1>n. NoCore \notin Cores /\ NoThread \notin Threads
  BY CoresAndThreads
<1>1. s.core[t] = NoCore /\ s.cthread[c] = NoThread
  BY <1>m, <1>t, <1>n DEF Tables, Settled
<1>2. PICK f : f = First(s, c, t)
  OBVIOUS
<1>3. /\ f \in Systems /\ SameRest(s, f) /\ SameThreads(s, f) /\ f.clock = s.clock
      /\ f.coreRunning = [s.coreRunning EXCEPT ![t] = c] /\ f.running = [s.running EXCEPT ![c] = t]
      /\ f.core = [s.core EXCEPT ![t] = c] /\ f.cthread = [s.cthread EXCEPT ![c] = t]
      /\ f.cstate = [s.cstate EXCEPT ![c] = "INITIALIZING"]
  <2>1. s \in Systems
    BY <1>m
  <2>2. QED
    <3>1. Firsts(s, First(s, c, t), c, t)
      BY <2>1, <1>1, FirstIs
    <3>2. Firsts(s, f, c, t)
      BY <3>1, <1>2
    <3>3. QED
      BY ONLY <3>2 DEF Firsts
<1>4. /\ \A u \in Threads : f.core[u] = IF u = t THEN c ELSE s.core[u]
      /\ \A u \in Threads : f.coreRunning[u] = IF u = t THEN c ELSE s.coreRunning[u]
      /\ \A d \in Cores : f.running[d] = IF d = c THEN t ELSE s.running[d]
      /\ \A d \in Cores : f.cthread[d] = IF d = c THEN t ELSE s.cthread[d]
      /\ \A d \in Cores : f.cstate[d] = IF d = c THEN "INITIALIZING" ELSE s.cstate[d]
  BY <1>3, <1>t
<1>5. \A u \in Threads : s.core[u] # c /\ s.coreRunning[u] # c
  BY <1>m, <1>1, <1>n DEF Tables
<1>6. Tables(f)
  <2>1. Tables(s)
    BY <1>m
  <2>2. QED
    <3>1. /\ \A u \in Threads, d \in Cores : (s.coreRunning[u] = d) <=> (s.running[d] = u)
          /\ \A u \in Threads, d \in Cores : (s.core[u] = d) <=> (s.cthread[d] = u)
          /\ \A u \in Threads : s.core[u] \in {NoCore, s.coreRunning[u]}
          /\ \A d \in Cores : s.cthread[d] = NoThread => s.cstate[d] = "IDLE"
      BY <2>1 DEF Tables
    <3>2. s.running[c] = NoThread /\ t # NoThread /\ c # NoCore
      BY <1>n
    <3>3. ASSUME NEW u \in Threads, NEW d \in Cores
          PROVE  (f.coreRunning[u] = d) <=> (f.running[d] = u)
      BY <3>1, <3>2, <1>4, <1>5, <1>n
    <3>4. ASSUME NEW u \in Threads, NEW d \in Cores
          PROVE  (f.core[u] = d) <=> (f.cthread[d] = u)
      BY <3>1, <3>2, <1>1, <1>4, <1>5, <1>n
    <3>5. \A u \in Threads : f.core[u] \in {NoCore, f.coreRunning[u]}
      BY ONLY <3>1, <1>4
    <3>6. \A d \in Cores : f.cthread[d] = NoThread => f.cstate[d] = "IDLE"
      BY ONLY <3>1, <3>2, <1>4
    <3>7. QED
      BY <3>3, <3>4, <3>5, <3>6 DEF Tables
<1>7. Touches(s, f, t)
  <2>1. \A u \in Threads : u # t =>
          /\ f.core[u] = s.core[u] /\ f.coreRunning[u] = s.coreRunning[u]
          /\ s.core[u] # NoCore => f.cstate[s.core[u]] = s.cstate[s.core[u]]
    BY <1>4, <1>5, <1>t
  <2>2. QED
    BY <1>3, <2>1 DEF Touches, SameRest, SameModes
<1>8. Mid(f, w, h) /\ Held(f)
  BY <1>m, <1>6, <1>7, TouchMid
<1>9. Settled(f)
  BY <1>3, <1>m DEF Settled
<1>10. QED
  BY <1>2, <1>3, <1>4, <1>8, <1>9 DEF Ends, SameRest

(* ThreadManager::createThread_unlocked. *)
LEMMA SpawnInv ==
  ASSUME ~FollowAborts, ThreadInv, NEW t \in Threads, Spawn(t)
  PROVE  ThreadInv'
<1>1. where[t] = "none" /\ Commit(CreateThread(sys, t), t, "created", NoCore)
  BY DEF Spawn, NextThread
<1>i. /\ where \in [Threads -> Places] /\ here \in [Threads -> Cores \union {NoCore}]
      /\ sys.signalled = {} /\ sys \in Systems /\ AtPlaces(sys, where, here) /\ Ready(sys)
      /\ Waits(sys, where) /\ Asleep(sys, where) /\ Settled(sys)
  BY Zenon DEF ThreadInv, Mid
<1>n. t # NoThread
  BY CoresAndThreads
<1>2. sys.status[t] = "none" /\ sys.coreRunning[t] = NoCore /\ sys.core[t] = NoCore
  BY <1>1, <1>i DEF AtPlaces, Settled
<1>3. ~sys.runnable[t]
  BY <1>2, <1>i DEF Ready
<1>4. /\ \A u \in Threads : sys.waiter[u] # t
      /\ \A i \in DOMAIN sys.sleeping : sys.sleeping[i] # t
  BY <1>1, <1>i, <1>n DEF Waits, Asleep
<1>5. PICK w : w = [where EXCEPT ![t] = "acting"]
  BY Zenon
<1>w. /\ Ends(sys, w, here) /\ w \in [Threads -> Places \union {"acting"}]
      /\ w[t] = "acting" /\ \A u \in Threads : u # t => w[u] = where[u] /\ w[u] # "acting"
  <2>1. where[t] \notin {"barrier", "startwait"}
    BY <1>1
  <2>2. QED
    BY Zenon, <1>5, <2>1, EnterEnds
<1>6. PICK d : d = Begun(sys, t)
  OBVIOUS
<1>7. /\ Acts(sys, d, t) /\ d.waiter = sys.waiter /\ d.sleeping = sys.sleeping
      /\ d.status[t] = "INITIALIZING" /\ d.runnable = sys.runnable
  BY <1>i, <1>6, BegunIs
<1>8. Waits(d, w)
  <2>1. where[t] # "startwait"
    BY <1>1
  <2>2. QED
    BY Zenon, <1>4, <1>5, <1>7, <2>1, CallerWaits
<1>9. Asleep(d, w)
  BY Zenon, <1>4, <1>5, <1>7, CallerSleeps
<1>10. Ends(d, w, here)
  <2>1. Mid(sys, w, here) /\ Settled(sys) /\ Held(sys)
    BY <1>w DEF Ends
  <2>2. ~d.runnable[t]
    BY <1>3, <1>7
  <2>3. Mid(d, w, here)
    BY <1>7, <1>8, <1>9, <1>w, <2>1, <2>2, ActsMid
  <2>4. Settled(d) /\ Held(d)
    BY <1>7, <2>1 DEF Acts, SameTables, SameModes, Settled, Held
  <2>5. QED
    BY <2>3, <2>4 DEF Ends
<1>11. d \in Systems /\ d.coreRunning[t] = NoCore /\ d.core[t] = NoCore /\ d.signalled = {}
  BY <1>2, <1>7, <1>i DEF Acts, SameTables
<1>12. PICK c : c = FindFreeCoreForThread(d, t)
  OBVIOUS
<1>13. PICK r : r = CreateThread(sys, t)
  OBVIOUS
<1>14. r = IF c = NoCore THEN d ELSE First(d, c, t)
  BY <1>6, <1>12, <1>13 DEF CreateThread, Begun, First
<1>15. /\ Ends(r, w, here) /\ r.status[t] = "INITIALIZING" /\ r.core[t] = r.coreRunning[t]
       /\ r.coreRunning[t] # NoCore => r.cstate[r.core[t]] = "INITIALIZING"
       /\ r.waiter = sys.waiter /\ r.sleeping = sys.sleeping /\ r.signalled = {}
       /\ r.status = d.status /\ r.reason = d.reason /\ r.runnable = d.runnable
  <2>1. CASE c = NoCore
    BY <1>7, <1>10, <1>11, <1>14, <2>1
  <2>2. CASE c # NoCore
    <3>1. c \in Cores /\ d.running[c] = NoThread
      BY <1>11, <1>12, <2>2, FindFreeCore
    <3>2. r = First(d, c, t)
      BY <1>14, <2>2
    <3>3. /\ Ends(r, w, here) /\ SameThreads(d, r)
          /\ r.core[t] = c /\ r.coreRunning[t] = c /\ r.cstate[c] = "INITIALIZING"
          /\ r.waiter = d.waiter /\ r.sleeping = d.sleeping
      BY <1>10, <1>11, <1>w, <3>1, <3>2, FirstEnds
    <3>4. r.status = d.status /\ r.reason = d.reason /\ r.runnable = d.runnable /\ r.signalled = d.signalled
      BY <3>3 DEF SameThreads
    <3>5. QED
      BY <1>7, <1>11, <3>3, <3>4
  <2>3. QED
    BY <2>1, <2>2
<1>16. Fits(r, w, here, t, "created")
  BY <1>4, <1>15 DEF Fits
<1>17. PICK v : v = [where EXCEPT ![t] = "created"]
  BY Zenon
<1>18. v = [w EXCEPT ![t] = "created"] /\ v[t] = "created"
  BY <1>5, <1>17, <1>i
<1>19. Ends(r, v, here)
  <2>1. w[t] \notin {"barrier", "startwait"}
    BY <1>w
  <2>2. QED
    BY Zenon, <1>15, <1>16, <1>18, <1>w, <2>1, PlaceEnds
<1>20. Heard(r, v) /\ Goes(r, v)
  BY <1>15, <1>18 DEF Heard, Goes
<1>k. Woken(r, v, Abandoned(r))
  <2>1. Woken(sys, where, abandoned) /\ Sleepers(sys) \subseteq Sleepers(d)
    BY <1>7 DEF ThreadInv, Sleepers
  <2>2. \A u \in Threads : u # t => v[u] = where[u]
    BY <1>17, <1>i
  <2>3. \A x \in Threads : sys.status[x] \notin {"none", "IDLE"} => d.status[x] \notin {"none", "IDLE"}
    BY <1>7 DEF Acts
  <2>4. Woken(d, v, abandoned)
    BY <1>7, <2>1, <2>2, <2>3, ActsWoken
  <2>5. QED
    BY <1>7, <1>15, <2>4, SameWoken, MoreAbandoned
<1>21. Done(r, v, here, t, "created", NoCore)
  BY <1>i, <1>17, <1>19, <1>20, <1>k DEF Done, Places
<1>22. QED
  BY <1>1, <1>13, <1>21, <1>i, CommitInv

(* Nobody waits for what thread t, which acts, changes about itself. *)
LEMMA ActsWaits ==
  ASSUME NEW w, NEW s \in Systems, Waits(s, w), NEW t \in Threads, \A u \in Threads : s.waiter[u] # t,
         NEW d, Acts(s, d, t), d.waiter = s.waiter
  PROVE  Waits(d, w)
<1>t. s.waiter \in [Threads -> Threads \union {NoThread}]
  BY SystemsType
<1>1. /\ d.signalled = s.signalled
      /\ \A u \in Threads : u # t => d.status[u] = s.status[u] /\ d.reason[u] = s.reason[u]
  BY DEF Acts
<1>2. \A u \in Threads : s.waiter[u] # NoThread => s.waiter[u] \in Threads /\ s.waiter[u] # t
  BY <1>t
<1>3. \A u \in Threads : s.waiter[u] # NoThread =>
        d.status[s.waiter[u]] = s.status[s.waiter[u]] /\ d.reason[s.waiter[u]] = s.reason[s.waiter[u]]
  BY <1>1, <1>2
<1>4. Waits(s, w) /\ d.waiter = s.waiter
  OBVIOUS
<1>5. QED
  BY ONLY <1>1, <1>3, <1>4, SMTT(30) DEF Waits

(* Nor sleeps as what it was. *)
LEMMA ActsSleeps ==
  ASSUME NEW w, NEW s \in Systems, Asleep(s, w), NEW t \in Threads,
         \A i \in DOMAIN s.sleeping : s.sleeping[i] # t,
         NEW d, Acts(s, d, t), d.sleeping = s.sleeping
  PROVE  Asleep(d, w)
<1>t. \A i \in DOMAIN s.sleeping : s.sleeping[i] \in Threads
  <2>1. s.sleeping \in Seq(Threads)
    BY SystemsType
  <2>2. QED
    BY <2>1, ElementOfSeq, LenProperties
<1>1. \A u \in Threads : u # t => d.status[u] = s.status[u] /\ d.reason[u] = s.reason[u]
  BY DEF Acts
<1>2. QED
  BY <1>t, <1>1 DEF Asleep

(* The thread that waits for thread t to start is told. *)
Told(s, t, u) == [SignalThread(s, u) EXCEPT !.waiter[t] = NoThread]

(* What this changes. *)
Tells(s, r, t, u) ==
    /\ r \in Systems /\ SameTables(s, r) /\ SameModes(s, r)
    /\ r.clock = s.clock /\ r.acquired = s.acquired /\ r.slot = s.slot /\ r.next = s.next
    /\ r.lastPeriodic = s.lastPeriodic /\ r.failed = s.failed
    /\ r.status = s.status /\ r.reason = s.reason /\ r.runnable = s.runnable
    /\ r.sleeping = s.sleeping /\ r.signalled = s.signalled \union {u}
    /\ r.waiter = [s.waiter EXCEPT ![t] = NoThread]

(* It changes this. *)
LEMMA ToldIs ==
  ASSUME NEW s \in Systems, NEW t \in Threads, NEW u \in Threads
  PROVE  Tells(s, Told(s, t, u), t, u)
<1>1. PICK a : a = SignalThread(s, u)
  OBVIOUS
<1>2. /\ a \in Systems /\ SameRest(s, a) /\ SameTables(s, a) /\ a.clock = s.clock
      /\ a.status = s.status /\ a.reason = s.reason /\ a.runnable = s.runnable
      /\ a.signalled = s.signalled \union {u}
  BY <1>1, SignalIs
<1>3. NoThread \in Threads \union {NoThread}
  OBVIOUS
<1>4. PICK n : n = NoThread
  OBVIOUS
<1>5. /\ Acts(a, Noted(a, t, n), t) /\ Noted(a, t, n).sleeping = a.sleeping
      /\ Noted(a, t, n).waiter = [a.waiter EXCEPT ![t] = n]
      /\ SameThreads(a, Noted(a, t, n))
  BY <1>2, <1>3, <1>4, WaiterIs
<1>6. PICK f : f = Told(s, t, u)
  OBVIOUS
<1>7. f = Noted(a, t, n)
  BY <1>1, <1>4, <1>6 DEF Told, Noted
<1>8. f \in Systems /\ SameTables(s, f) /\ SameModes(s, f)
  BY <1>2, <1>5, <1>7 DEF Acts, SameTables, SameModes, SameRest
<1>9. /\ f.clock = s.clock /\ f.acquired = s.acquired /\ f.slot = s.slot /\ f.next = s.next
      /\ f.lastPeriodic = s.lastPeriodic /\ f.failed = s.failed
  BY <1>2, <1>5, <1>7 DEF Acts, SameRest
<1>10. /\ f.status = s.status /\ f.reason = s.reason /\ f.runnable = s.runnable
       /\ f.signalled = s.signalled \union {u}
  BY <1>2, <1>5, <1>7 DEF SameThreads
<1>11. f.sleeping = s.sleeping /\ f.waiter = [s.waiter EXCEPT ![t] = NoThread]
  BY <1>2, <1>4, <1>5, <1>7 DEF SameRest
<1>12. QED
  BY <1>6, <1>8, <1>9, <1>10, <1>11 DEF Tells

(* It keeps the invariant. *)
LEMMA ToldEnds ==
  ASSUME NEW w, NEW h, NEW s, Ends(s, w, h), NEW t \in Threads, NEW u \in Threads, s.waiter[t] = u
  PROVE  Ends(Told(s, t, u), w, h)
<1>m. /\ s \in Systems /\ Tables(s) /\ Placed(s, w) /\ Ready(s) /\ AtPlaces(s, w, h) /\ Waits(s, w)
      /\ Asleep(s, w) /\ InBarrier(s, w, h) /\ Settled(s) /\ Held(s)
      /\ s.failed \subseteq {"application deadlocked", "advance spins"}
  BY Zenon DEF Ends, Mid
<1>n. NoThread \notin Threads
  BY CoresAndThreads
<1>1. PICK r : r = Told(s, t, u)
  OBVIOUS
<1>a. /\ r \in Systems /\ SameTables(s, r) /\ SameModes(s, r)
      /\ r.clock = s.clock /\ r.acquired = s.acquired /\ r.slot = s.slot /\ r.next = s.next
      /\ r.lastPeriodic = s.lastPeriodic /\ r.failed = s.failed
      /\ r.status = s.status /\ r.reason = s.reason /\ r.runnable = s.runnable
      /\ r.sleeping = s.sleeping /\ r.signalled = s.signalled \union {u}
      /\ r.waiter = [s.waiter EXCEPT ![t] = NoThread]
  <2>1. s \in Systems
    BY Zenon, <1>m
  <2>2. Tells(s, r, t, u)
    BY <1>1, <2>1, ToldIs
  <2>3. QED
    BY ONLY <2>2 DEF Tells
<1>c. /\ r.core = s.core /\ r.cthread = s.cthread /\ r.cstate = s.cstate
      /\ r.coreRunning = s.coreRunning /\ r.running = s.running
      /\ r.disable = s.disable /\ r.aborted = s.aborted
  BY <1>a DEF SameTables, SameModes
<1>x. \A x \in Threads : r.waiter[x] = IF x = t THEN NoThread ELSE s.waiter[x]
  BY Zenon, <1>m, <1>a, SystemsType
<1>p. \A x, y \in Threads : (s.waiter[x] = s.waiter[y] /\ s.waiter[x] # NoThread) => x = y
  BY Zenon, <1>m DEF Waits
<1>2. Tables(r) /\ Placed(r, w) /\ Ready(r)
  <2>1. Tables(s) /\ Placed(s, w) /\ Ready(s)
    BY Zenon, <1>m
  <2>2. r.status = s.status /\ r.reason = s.reason /\ r.runnable = s.runnable
    BY <1>a
  <2>3. QED
    BY ONLY <2>1, <2>2, <1>c DEF Tables, Placed, Ready
<1>3. AtPlaces(r, w, h)
  <2>1. AtPlaces(s, w, h)
    BY Zenon, <1>m
  <2>2. r.status = s.status /\ r.reason = s.reason /\ r.signalled = s.signalled \union {u}
    BY <1>a
  <2>3. QED
    BY ONLY <2>1, <2>2, <1>c DEF AtPlaces
<1>4. Asleep(r, w)
  BY ZenonT(40), <1>m, <1>a DEF Asleep
<1>5. Waits(r, w)
  <2>1. ASSUME NEW x \in Threads, r.waiter[x] # NoThread
        PROVE  /\ x # t /\ r.waiter[x] = s.waiter[x] /\ r.waiter[x] \notin r.signalled
               /\ \/ w[r.waiter[x]] = "startwait" /\ w[x] \in {"created", "acting"}
                  \/ /\ w[r.waiter[x]] \in {"stalled", "acting"}
                     /\ r.status[r.waiter[x]] = "STALLED" /\ r.reason[r.waiter[x]] = "JOIN"
    <3>1. x # t /\ r.waiter[x] = s.waiter[x] /\ s.waiter[x] # NoThread
      BY <1>x, <2>1
    <3>2. s.waiter[x] # u
      BY <1>p, <3>1
    <3>3. s.waiter[x] \notin s.signalled
      BY Zenon, <1>m, <3>1 DEF Waits
    <3>4. \/ w[s.waiter[x]] = "startwait" /\ w[x] \in {"created", "acting"}
          \/ /\ w[s.waiter[x]] \in {"stalled", "acting"}
             /\ s.status[s.waiter[x]] = "STALLED" /\ s.reason[s.waiter[x]] = "JOIN"
      BY Zenon, <1>m, <3>1 DEF Waits
    <3>5. QED
      BY <1>a, <3>1, <3>2, <3>3, <3>4
  <2>2. \A x, y \in Threads : (r.waiter[x] = r.waiter[y] /\ r.waiter[x] # NoThread) => x = y
    BY <1>p, <1>x
  <2>3. ASSUME NEW v \in Threads, w[v] = "startwait"
        PROVE  v \in r.signalled \/ \E x \in Threads : r.waiter[x] = v /\ w[x] \in {"created", "acting"}
    <3>1. CASE v = u \/ v \in s.signalled
      BY <1>a, <3>1
    <3>2. CASE v # u /\ v \notin s.signalled
      <4>1. PICK x \in Threads : s.waiter[x] = v /\ w[x] \in {"created", "acting"}
        BY Zenon, <1>m, <2>3, <3>2 DEF Waits
      <4>2. r.waiter[x] = v
        BY <1>x, <3>2, <4>1
      <4>3. QED
        BY <4>1, <4>2
    <3>3. QED
      BY <3>1, <3>2
  <2>4. QED
    BY <2>1, <2>2, <2>3 DEF Waits
<1>6. InBarrier(r, w, h)
  <2>1. w[u] # "barrier"
    BY Zenon, <1>m, <1>n DEF Waits
  <2>2. QED
    <3>1. InBarrier(s, w, h)
      BY Zenon, <1>m
    <3>2. /\ r.clock = s.clock /\ r.acquired = s.acquired /\ r.slot = s.slot /\ r.next = s.next
          /\ r.lastPeriodic = s.lastPeriodic /\ r.signalled = s.signalled \union {u}
      BY <1>a
    <3>3. \A c \in Cores : s.acquired[c] => s.slot[c] # u
      BY <3>1, <2>1 DEF InBarrier
    <3>4. QED
      BY ONLY <3>1, <3>2, <3>3, <1>c DEF InBarrier
<1>7. Settled(r) /\ Held(r)
  BY Zenon, <1>m, <1>a DEF Settled, Held, SameTables, SameModes
<1>8. QED
  BY Zenon, <1>1, <1>2, <1>3, <1>4, <1>5, <1>6, <1>7, <1>a, <1>m DEF Ends, Mid

(* Thread t runs, and may be scheduled. *)
Began(s, t) == [s EXCEPT !.status[t] = "RUNNING", !.runnable[t] = TRUE]

(* What this changes. *)
LEMMA BeganIs ==
  ASSUME NEW s \in Systems, NEW t \in Threads
  PROVE  /\ Acts(s, Began(s, t), t)
         /\ Began(s, t).waiter = s.waiter /\ Began(s, t).sleeping = s.sleeping
         /\ Began(s, t).status[t] = "RUNNING" /\ Began(s, t).runnable[t]
<1>1. PICK status : status = [s.status EXCEPT ![t] = "RUNNING"]
  BY Zenon
<1>2. PICK runnable : runnable = [s.runnable EXCEPT ![t] = TRUE]
  BY Zenon
<1>t. s.status \in [Threads -> Statuses] /\ s.runnable \in [Threads -> BOOLEAN]
  BY SystemsType
<1>3. status \in [Threads -> Statuses] /\ runnable \in [Threads -> BOOLEAN]
  BY <1>1, <1>2, <1>t DEF Statuses
<1>4. PICK d : d = [s EXCEPT !.status = status, !.runnable = runnable]
  OBVIOUS
<1>5. Began(s, t) = d
  BY <1>1, <1>2, <1>4 DEF Began, Systems
<1>6. d \in Systems
  BY Zenon, <1>3, <1>4 DEF Systems
<1>7. /\ SameTables(s, d) /\ SameModes(s, d)
      /\ d.clock = s.clock /\ d.acquired = s.acquired /\ d.slot = s.slot /\ d.next = s.next
      /\ d.lastPeriodic = s.lastPeriodic /\ d.signalled = s.signalled /\ d.failed = s.failed
      /\ d.waiter = s.waiter /\ d.sleeping = s.sleeping /\ d.reason = s.reason
      /\ d.status = status /\ d.runnable = runnable
  BY <1>4 DEF Systems, SameTables, SameModes
<1>8. status[t] = "RUNNING" /\ runnable[t] /\ \A u \in Threads : u # t => status[u] = s.status[u] /\ runnable[u] = s.runnable[u]
  BY <1>1, <1>2, <1>t
<1>9. QED
  BY <1>5, <1>6, <1>7, <1>8 DEF Acts

(* The core of a thread that acts changes its state. *)
Stated(s, f, c, state) ==
    /\ f \in Systems /\ SameRest(s, f) /\ SameThreads(s, f) /\ f.clock = s.clock
    /\ f.core = s.core /\ f.cthread = s.cthread /\ f.coreRunning = s.coreRunning /\ f.running = s.running
    /\ f.cstate = [s.cstate EXCEPT ![c] = state]

(* Core::setState changes this. *)
LEMMA StatedIs ==
  ASSUME NEW s \in Systems, NEW c \in Cores, NEW state, state \in {"IDLE", "INITIALIZING", "RUNNING"}
  PROVE  Stated(s, SetState(s, c, state), c, state)
<1>0. c # NoCore
  BY CoresAndThreads
<1>t. s.cstate \in [Cores -> {"IDLE", "INITIALIZING", "RUNNING"}]
  BY SystemsType
<1>1. PICK k : k = [s.cstate EXCEPT ![c] = state]
  BY Zenon
<1>2. k \in [Cores -> {"IDLE", "INITIALIZING", "RUNNING"}]
  BY <1>1, <1>t
<1>3. PICK f : f = [s EXCEPT !.cstate = k]
  BY Zenon
<1>4. SetState(s, c, state) = f
  BY <1>0, <1>1, <1>3 DEF SetState
<1>5. f \in Systems
  BY <1>2, <1>3, StateType
<1>6. /\ SameRest(s, f) /\ SameThreads(s, f) /\ f.clock = s.clock
      /\ f.core = s.core /\ f.cthread = s.cthread /\ f.coreRunning = s.coreRunning /\ f.running = s.running
      /\ f.cstate = k
  BY <1>3 DEF Systems, SameRest, SameThreads
<1>7. QED
  BY <1>1, <1>4, <1>5, <1>6 DEF Stated

(* The core of a thread that starts is marked as running. *)
LEMMA StatedEnds ==
  ASSUME NEW w, NEW h, NEW s, Ends(s, w, h), NEW t \in Threads, w[t] = "acting",
         NEW c \in Cores, s.core[t] = c
  PROVE  LET f == SetState(s, c, "RUNNING")
         IN  /\ Ends(f, w, h) /\ SameThreads(s, f) /\ f.core = s.core /\ f.coreRunning = s.coreRunning
             /\ f.cstate[c] = "RUNNING" /\ f.waiter = s.waiter /\ f.sleeping = s.sleeping
<1>m. /\ s \in Systems /\ Mid(s, w, h) /\ Settled(s) /\ Held(s)
  BY Zenon DEF Ends, Mid
<1>b. /\ \A u \in Threads, d \in Cores : (s.coreRunning[u] = d) <=> (s.running[d] = u)
      /\ \A u \in Threads, d \in Cores : (s.core[u] = d) <=> (s.cthread[d] = u)
      /\ \A u \in Threads : s.core[u] \in {NoCore, s.coreRunning[u]}
      /\ \A d \in Cores : s.cthread[d] = NoThread => s.cstate[d] = "IDLE"
  BY Zenon DEF Ends, Mid, Tables
<1>n. NoThread \notin Threads
  BY CoresAndThreads
<1>1. PICK f : f = SetState(s, c, "RUNNING")
  OBVIOUS
<1>2. /\ f \in Systems /\ SameRest(s, f) /\ SameThreads(s, f) /\ f.clock = s.clock
      /\ f.core = s.core /\ f.cthread = s.cthread /\ f.coreRunning = s.coreRunning /\ f.running = s.running
      /\ f.cstate = [s.cstate EXCEPT ![c] = "RUNNING"]
  <2>1. Stated(s, f, c, "RUNNING")
    BY <1>m, <1>1, StatedIs
  <2>2. QED
    BY ONLY <2>1 DEF Stated
<1>3. \A d \in Cores : f.cstate[d] = IF d = c THEN "RUNNING" ELSE s.cstate[d]
  BY <1>2, <1>m, SystemsType
<1>4. Tables(f)
  <2>1. s.cthread[c] = t
    BY <1>b
  <2>2. \A d \in Cores : f.cthread[d] = NoThread => f.cstate[d] = "IDLE"
    BY <1>2, <1>3, <1>b, <1>n, <2>1
  <2>3. QED
    BY <1>2, <1>b, <2>2 DEF Tables
<1>5. Touches(s, f, t)
  <2>1. \A u \in Threads : (u # t /\ s.core[u] # NoCore) => f.cstate[s.core[u]] = s.cstate[s.core[u]]
    <3>1. s.core \in [Threads -> Cores \union {NoCore}]
      BY <1>m, SystemsType
    <3>2. \A u \in Threads : u # t => s.core[u] # c
      BY <1>b
    <3>3. QED
      BY <1>3, <3>1, <3>2
  <2>2. QED
    BY <1>2, <2>1 DEF Touches, SameRest, SameModes
<1>6. Mid(f, w, h) /\ Held(f)
  BY <1>m, <1>4, <1>5, TouchMid
<1>7. Settled(f)
  BY <1>2, <1>m DEF Settled
<1>8. f.waiter = s.waiter /\ f.sleeping = s.sleeping
  BY <1>2 DEF SameRest
<1>9. QED
  BY <1>1, <1>2, <1>3, <1>6, <1>7, <1>8 DEF Ends

(* A thread that runs is made to run. *)
LEMMA StatusIs ==
  ASSUME NEW s \in Systems, NEW t \in Threads, s.status[t] = "RUNNING"
  PROVE  [s EXCEPT !.status[t] = "RUNNING"] = s
<1>1. [s.status EXCEPT ![t] = "RUNNING"] = s.status
  BY Zenon, SystemsType
<1>2. QED
  BY <1>1 DEF Systems

(* RunOrStall: what becomes of the thread that starts. *)
LEMMA RunOrStallEnds ==
  ASSUME NEW w, NEW h, NEW s, Ends(s, w, h), NEW t \in Threads, w[t] = "acting",
         s.status[t] = "RUNNING", \A u \in Threads : s.waiter[u] # t,
         \A i \in DOMAIN s.sleeping : s.sleeping[i] # t
  PROVE  /\ Ends(RunOrStall(s, t), w, h) /\ RunOrStall(s, t).waiter = s.waiter
         /\ RunOrStall(s, t).sleeping = s.sleeping /\ RunOrStall(s, t).signalled = s.signalled
         /\ RunOrStall(s, t).runnable = s.runnable
         /\ \A u \in Threads : u # t =>
              RunOrStall(s, t).status[u] = s.status[u] /\ RunOrStall(s, t).reason[u] = s.reason[u]
         /\ \/ RunOrStall(s, t).status[t] = "RUNNING"
            \/ RunOrStall(s, t).status[t] = "STALLED" /\ RunOrStall(s, t).reason[t] = "UNSCHEDULED"
         /\ RunOrStall(s, t).coreRunning[t] # NoCore =>
              /\ RunOrStall(s, t).status[t] = "RUNNING"
              /\ RunOrStall(s, t).cstate[RunOrStall(s, t).core[t]] = "RUNNING"
<1>m. /\ s \in Systems /\ Mid(s, w, h) /\ Settled(s) /\ Held(s) /\ Waits(s, w) /\ Asleep(s, w)
  BY Zenon DEF Ends, Mid
<1>c. s.core[t] \in Cores \union {NoCore}
  BY <1>m, SystemsType
<1>1. PICK r : r = RunOrStall(s, t)
  OBVIOUS
<1>2. CASE s.core[t] # NoCore
  <2>1. PICK c \in Cores : c = s.core[t]
    BY <1>c, <1>2
  <2>2. PICK f : f = SetState(s, c, "RUNNING")
    OBVIOUS
  <2>3. /\ Ends(f, w, h) /\ SameThreads(s, f) /\ f.core = s.core /\ f.coreRunning = s.coreRunning
        /\ f.cstate[c] = "RUNNING" /\ f.waiter = s.waiter /\ f.sleeping = s.sleeping
    BY <2>1, <2>2, StatedEnds
  <2>4. r = ReleaseThread(f, t)
    BY <1>1, <1>2, <1>m, <2>1, <2>2, StatusIs DEF RunOrStall
  <2>5. Ends(r, w, h) /\ Same(f, r)
    BY <2>3, <2>4, ReleaseSame
  <2>6. /\ r.status = s.status /\ r.reason = s.reason /\ r.runnable = s.runnable /\ r.signalled = s.signalled /\ r.waiter = s.waiter /\ r.sleeping = s.sleeping
        /\ r.core = s.core /\ r.cstate[c] = "RUNNING"
    BY <2>3, <2>5 DEF Same, SameThreads, SameTables, SameRest
  <2>7. QED
    BY <1>1, <2>1, <2>5, <2>6
<1>3. CASE s.core[t] = NoCore
  <2>1. r = Down(s, t, "UNSCHEDULED")
    BY <1>1, <1>3 DEF RunOrStall, Down
  <2>2. "UNSCHEDULED" \in Reasons
    BY DEF Reasons
  <2>3. /\ Acts(s, r, t) /\ r.waiter = s.waiter /\ r.sleeping = s.sleeping
        /\ r.status[t] = "STALLED" /\ r.reason[t] = "UNSCHEDULED" /\ r.runnable = s.runnable
    BY <1>m, <2>1, <2>2, DownIs
  <2>4. Waits(r, w) /\ Asleep(r, w)
    BY <1>m, <2>3, ActsWaits, ActsSleeps
  <2>5. Mid(r, w, h)
    BY <1>m, <2>3, <2>4, ActsMid
  <2>6. Settled(r) /\ Held(r) /\ r.signalled = s.signalled /\ r.coreRunning[t] = NoCore
    BY <1>3, <1>m, <2>3 DEF Acts, SameTables, SameModes, Settled, Held
  <2>7. \A u \in Threads : u # t => r.status[u] = s.status[u] /\ r.reason[u] = s.reason[u]
    BY <2>3 DEF Acts
  <2>8. QED
    BY <1>1, <2>3, <2>5, <2>6, <2>7 DEF Ends
<1>4. QED
  BY <1>2, <1>3

(* ThreadManager::onThreadStart. *)
LEMMA StartInv ==
  ASSUME ~FollowAborts, ThreadInv, NEW t \in Threads, Start(t)
  PROVE  ThreadInv'
<1>1. PICK up : up = Began(sys, t)
  OBVIOUS
<1>2. PICK free : free = FindFreeCoreForThread(up, t)
  OBVIOUS
<1>3. PICK put : put = IF free = NoCore THEN up ELSE RescheduleCore(up, free)
  OBVIOUS
<1>4. PICK run : run = RunOrStall(put, t)
  OBVIOUS
<1>5. PICK r : r = TellWaiter(run, t)
  OBVIOUS
<1>6. where[t] = "created" /\ Commit(r, t, "check", r.core[t])
  BY <1>1, <1>2, <1>3, <1>4, <1>5 DEF Start, Began
<1>i. /\ where \in [Threads -> Places] /\ here \in [Threads -> Cores \union {NoCore}]
      /\ sys.signalled = {} /\ sys \in Systems /\ AtPlaces(sys, where, here)
      /\ Waits(sys, where) /\ Asleep(sys, where)
  BY Zenon DEF ThreadInv, Mid
<1>n. NoThread \notin Threads
  BY CoresAndThreads
<1>7. /\ \A u \in Threads : sys.waiter[u] # t
      /\ \A i \in DOMAIN sys.sleeping : sys.sleeping[i] # t
  BY <1>6, <1>i, <1>n DEF Waits, Asleep
<1>8. PICK w : w = [where EXCEPT ![t] = "acting"]
  BY Zenon
<1>w. /\ Ends(sys, w, here) /\ w \in [Threads -> Places \union {"acting"}]
      /\ w[t] = "acting" /\ \A u \in Threads : u # t => w[u] = where[u] /\ w[u] # "acting"
  <2>1. where[t] \notin {"barrier", "startwait"}
    BY <1>6
  <2>2. QED
    BY Zenon, <1>8, <2>1, EnterEnds
<1>9. /\ Acts(sys, up, t) /\ up.waiter = sys.waiter /\ up.sleeping = sys.sleeping
      /\ up.status[t] = "RUNNING" /\ up.runnable[t]
  BY <1>1, <1>i, BeganIs
<1>10. Ends(up, w, here) /\ up.signalled = {}
  <2>1. Mid(sys, w, here) /\ Settled(sys) /\ Held(sys)
    BY <1>w DEF Ends
  <2>2. Waits(sys, w) /\ Asleep(sys, w)
    BY Zenon, <2>1 DEF Mid
  <2>3. Waits(up, w) /\ Asleep(up, w)
    BY <1>7, <1>9, <1>i, <2>2, ActsWaits, ActsSleeps
  <2>4. Mid(up, w, here)
    BY <1>9, <1>w, <2>1, <2>3, ActsMid
  <2>5. Settled(up) /\ Held(up) /\ up.signalled = {}
    BY <1>9, <1>i, <2>1 DEF Acts, SameTables, SameModes, Settled, Held
  <2>6. QED
    BY <2>4, <2>5 DEF Ends
<1>11. /\ Ends(put, w, here) /\ Signals(up, put) /\ put.status[t] = "RUNNING"
       /\ put.waiter = sys.waiter /\ put.sleeping = sys.sleeping
  <2>1. CASE free = NoCore
    <3>1. put = up
      BY <1>3, <2>1
    <3>2. QED
      BY <1>9, <1>10, <3>1, SameSignals
  <2>2. CASE free # NoCore
    <3>1. put = RescheduleCore(up, free)
      BY <1>3, <2>2
    <3>2. Ends(put, w, here) /\ Signals(up, put) /\ Moves(up, put, {})
      BY <1>2, <1>10, <1>w, <2>2, <3>1, FillEnds
    <3>3. put.waiter = up.waiter /\ put.sleeping = up.sleeping
      BY <3>2 DEF Moves, SameRest
    <3>4. put.status[t] = "RUNNING"
      BY <1>9, <3>2 DEF Moves, Awakens
    <3>5. QED
      BY <1>9, <3>2, <3>3, <3>4
  <2>3. QED
    BY <2>1, <2>2
<1>12. /\ Ends(run, w, here) /\ run.waiter = sys.waiter
       /\ run.sleeping = sys.sleeping /\ run.signalled = put.signalled
       /\ run.runnable = put.runnable
       /\ \A u \in Threads : u # t => run.status[u] = put.status[u] /\ run.reason[u] = put.reason[u]
       /\ \/ run.status[t] = "RUNNING"
          \/ run.status[t] = "STALLED" /\ run.reason[t] = "UNSCHEDULED"
       /\ run.coreRunning[t] # NoCore => run.status[t] = "RUNNING" /\ run.cstate[run.core[t]] = "RUNNING"
  <2>1. /\ \A u \in Threads : put.waiter[u] # t
        /\ \A i \in DOMAIN put.sleeping : put.sleeping[i] # t
    BY <1>7, <1>11
  <2>2. QED
    BY <1>4, <1>11, <1>w, <2>1, RunOrStallEnds
<1>13. \A u \in Threads : (u # t /\ u \in run.signalled) => run.status[u] = "RUNNING"
  BY <1>10, <1>11, <1>12 DEF Signals
<1>14. /\ Ends(r, w, here) /\ r.sleeping = sys.sleeping /\ r.status = run.status /\ r.reason = run.reason
       /\ r.runnable = run.runnable
       /\ r.core = run.core /\ r.coreRunning = run.coreRunning /\ r.cstate = run.cstate
       /\ r.waiter = [sys.waiter EXCEPT ![t] = NoThread]
       /\ r.signalled = run.signalled \/ r.signalled = run.signalled \union {sys.waiter[t]}
       /\ sys.waiter[t] # NoThread => sys.waiter[t] \in r.signalled
  <2>t. sys.waiter \in [Threads -> Threads \union {NoThread}]
    BY <1>i, SystemsType
  <2>1. CASE sys.waiter[t] = NoThread
    <3>1. r = run
      BY <1>5, <1>12, <2>1 DEF TellWaiter
    <3>2. sys.waiter = [sys.waiter EXCEPT ![t] = NoThread]
      BY <2>1, <2>t
    <3>3. QED
      BY <1>12, <2>1, <3>1, <3>2
  <2>2. CASE sys.waiter[t] # NoThread
    <3>1. PICK u \in Threads : u = sys.waiter[t]
      BY <2>t, <2>2
    <3>2. r = Told(run, t, u)
      BY <1>5, <1>12, <2>2, <3>1 DEF TellWaiter, Told
    <3>3. run.waiter[t] = u /\ run \in Systems
      BY Zenon, <1>12, <3>1 DEF Ends, Mid
    <3>4. Ends(r, w, here)
      BY <1>12, <3>2, <3>3, ToldEnds
    <3>5. Tells(run, r, t, u)
      BY <3>2, <3>3, ToldIs
    <3>6. /\ r.sleeping = run.sleeping /\ r.status = run.status /\ r.reason = run.reason
          /\ r.runnable = run.runnable
          /\ r.core = run.core /\ r.coreRunning = run.coreRunning /\ r.cstate = run.cstate
          /\ r.waiter = [run.waiter EXCEPT ![t] = NoThread] /\ r.signalled = run.signalled \union {u}
      BY ONLY <3>5 DEF Tells, SameTables
    <3>7. QED
      BY <1>12, <3>1, <3>4, <3>6
  <2>3. QED
    BY <2>1, <2>2
<1>x. /\ r.waiter[t] = NoThread
      /\ \A u \in Threads : r.waiter[u] # t
  <2>1. sys.waiter \in [Threads -> Threads \union {NoThread}]
    BY <1>i, SystemsType
  <2>2. QED
    BY <1>7, <1>14, <1>n, <2>1
<1>15. Fits(r, w, here, t, "check")
  <2>1. r.coreRunning[t] # NoCore =>
          /\ r.status[t] \in {"RUNNING", "INITIALIZING"}
          /\ r.core[t] # NoCore => r.cstate[r.core[t]] = r.status[t]
    BY <1>12, <1>14
  <2>2. r.status[t] = "RUNNING" \/ (r.status[t] = "STALLED" /\ r.reason[t] \in {"JOIN", "UNSCHEDULED"})
    BY <1>12, <1>14
  <2>3. \A i \in DOMAIN r.sleeping : r.sleeping[i] # t
    BY <1>7, <1>14
  <2>4. QED
    BY <1>x, <2>1, <2>2, <2>3 DEF Fits
<1>16. PICK v : v = [where EXCEPT ![t] = "check"]
  BY Zenon
<1>17. v = [w EXCEPT ![t] = "check"] /\ \A u \in Threads : v[u] = IF u = t THEN "check" ELSE where[u]
  BY <1>8, <1>16, <1>i
<1>18. Ends(r, v, here)
  <2>1. w[t] \notin {"barrier", "startwait"}
    BY <1>w
  <2>2. QED
    BY Zenon, <1>14, <1>15, <1>17, <1>w, <2>1, PlaceEnds
<1>19. Heard(r, v)
  <2>1. ASSUME NEW u \in Threads, v[u] = "stalled", u \in r.signalled
        PROVE  r.status[u] = "RUNNING" \/ (r.status[u] = "STALLED" /\ r.reason[u] = "JOIN")
    <3>1. u # t /\ where[u] = "stalled"
      BY <1>17, <2>1
    <3>2. CASE u \in run.signalled
      BY <1>13, <1>14, <3>1, <3>2
    <3>3. CASE u = sys.waiter[t]
      <4>1. r.status[u] \in {"STALLED", "RUNNING"}
        BY Zenon, <1>18, <1>17, <2>1 DEF Ends, Mid, AtPlaces
      <4>2. run.waiter[t] = u /\ w[u] = "stalled" /\ u # NoThread
        BY <1>12, <1>w, <1>n, <3>1, <3>3
      <4>3. run.status[u] = "STALLED" /\ run.reason[u] = "JOIN"
        BY Zenon, <1>12, <4>2 DEF Ends, Mid, Waits
      <4>4. QED
        BY <1>14, <4>3
    <3>4. QED
      BY <1>14, <2>1, <3>2, <3>3
  <2>2. QED
    BY <2>1 DEF Heard
<1>20. Goes(r, v)
  BY <1>17 DEF Goes
<1>21. PICK core : core = r.core[t]
  OBVIOUS
<1>k. Woken(r, v, Abandoned(r))
  <2>1. Woken(sys, where, abandoned) /\ Sleepers(sys) \subseteq Sleepers(up)
    BY <1>9 DEF ThreadInv, Sleepers
  <2>2. \A u \in Threads : u # t => v[u] = where[u]
    BY <1>17
  <2>3. \A x \in Threads : sys.status[x] \notin {"none", "IDLE"} => up.status[x] \notin {"none", "IDLE"}
    BY <1>9 DEF Acts
  <2>4. Woken(up, v, abandoned)
    BY <1>9, <2>1, <2>2, <2>3, ActsWoken
  <2>5. Woken(put, v, abandoned) /\ put.runnable[t]
    <3>1. \A u \in Threads : (v[u] = "paused" /\ put.status[u] = "STALLED") => v[u] = "paused"
      OBVIOUS
    <3>2. Woken(put, v, abandoned)
      BY <1>11, <2>4, <3>1, WokenOn
    <3>3. QED
      BY <1>11, <3>2 DEF Woken
  <2>6. SUFFICES ASSUME NEW u \in Threads
                 PROVE  /\ r.status[u] = "RUNNING" => r.runnable[u]
                        /\ (r.status[u] = "STALLED" /\ u \notin Abandoned(r)) =>
                             Waker(r, u) \/ (r.reason[u] = "PAUSE" /\ v[u] = "paused")
    BY DEF Woken
  <2>7. CASE u = t
    BY <1>12, <1>14, <2>5, <2>7 DEF Waker
  <2>8. CASE u # t
    <3>1. /\ r.status[u] = put.status[u] /\ r.reason[u] = put.reason[u] /\ r.runnable[u] = put.runnable[u]
          /\ Sleepers(r) = Sleepers(put)
      BY <1>11, <1>12, <1>14, <2>8 DEF Sleepers
    <3>2. ASSUME Waker(put, u), u \notin Abandoned(r), r.status[u] = "STALLED" PROVE Waker(r, u)
      <4>n. u # NoThread
        BY <1>n
      <4>1. u # sys.waiter[t]
        <5>1. SUFFICES ASSUME u = sys.waiter[t] PROVE FALSE
          OBVIOUS
        <5>2. sys.status[u] = "STALLED" /\ r.reason[u] = sys.reason[u]
          <6>1. put.status[u] = "STALLED" /\ r.reason[u] = put.reason[u]
            BY <3>1, <3>2
          <6>2. (put.status[u] = "RUNNING" /\ put.runnable[u]) \/ Rests(up, put, u)
            BY <1>11 DEF Signals
          <6>3. up.status[u] = put.status[u] /\ up.reason[u] = put.reason[u]
            BY <6>1, <6>2 DEF Rests
          <6>4. up.status[u] = sys.status[u] /\ up.reason[u] = sys.reason[u]
            BY <1>9, <2>8 DEF Acts
          <6>5. QED
            BY <6>1, <6>3, <6>4
        <5>3. where[u] # "startwait"
          BY <1>i, <5>2 DEF AtPlaces
        <5>4. sys.reason[u] = "JOIN"
          BY <1>i, <4>n, <5>1, <5>3 DEF Waits
        <5>5. u \in r.signalled
          BY <1>14, <4>n, <5>1
        <5>6. QED
          BY <3>2, <5>2, <5>4, <5>5 DEF Abandoned
      <4>2. \A x \in Threads : put.waiter[x] = u =>
               x # t /\ r.waiter[x] = u /\ r.status[x] = put.status[x]
        <5>1. sys.waiter \in [Threads -> Threads \union {NoThread}]
          BY <1>i, SystemsType
        <5>2. QED
          BY <1>11, <1>12, <1>14, <4>1, <4>n, <5>1
      <4>3. QED
        BY <3>1, <3>2, <4>2 DEF Waker
    <3>3. u \notin Abandoned(r) => u \notin abandoned
      BY MoreAbandoned
    <3>4. QED
      BY <2>5, <3>1, <3>2, <3>3 DEF Woken
  <2>9. QED
    BY <2>7, <2>8
<1>22. Done(r, v, here, t, "check", core)
  BY <1>i, <1>16, <1>18, <1>19, <1>20, <1>k DEF Done, Places
<1>23. QED
  BY <1>6, <1>21, <1>22, <1>i, CommitInv

(* Thread t has ended, and nobody waits for it any more. *)
Ended(s, t) == [s EXCEPT !.status[t] = "IDLE", !.waiter[t] = NoThread]

(* What this changes. *)
LEMMA EndedIs ==
  ASSUME NEW s \in Systems, NEW t \in Threads
  PROVE  /\ Acts(s, Ended(s, t), t)
         /\ Ended(s, t).waiter = [s.waiter EXCEPT ![t] = NoThread] /\ Ended(s, t).sleeping = s.sleeping
         /\ Ended(s, t).status[t] = "IDLE"
<1>1. PICK status : status = [s.status EXCEPT ![t] = "IDLE"]
  BY Zenon
<1>2. PICK waiter : waiter = [s.waiter EXCEPT ![t] = NoThread]
  BY Zenon
<1>t. s.status \in [Threads -> Statuses] /\ s.waiter \in [Threads -> Threads \union {NoThread}]
  BY SystemsType
<1>3. status \in [Threads -> Statuses] /\ waiter \in [Threads -> Threads \union {NoThread}]
  BY <1>1, <1>2, <1>t DEF Statuses
<1>4. PICK d : d = [s EXCEPT !.status = status, !.waiter = waiter]
  OBVIOUS
<1>5. Ended(s, t) = d
  BY <1>1, <1>2, <1>4 DEF Ended, Systems
<1>6. d \in Systems
  BY ZenonT(40), <1>3, <1>4 DEF Systems
<1>7. /\ SameTables(s, d) /\ SameModes(s, d)
      /\ d.clock = s.clock /\ d.acquired = s.acquired /\ d.slot = s.slot /\ d.next = s.next
      /\ d.lastPeriodic = s.lastPeriodic /\ d.signalled = s.signalled /\ d.failed = s.failed
      /\ d.waiter = waiter /\ d.sleeping = s.sleeping /\ d.reason = s.reason
      /\ d.status = status /\ d.runnable = s.runnable
  BY <1>4 DEF Systems, SameTables, SameModes
<1>8. status[t] = "IDLE" /\ \A u \in Threads : u # t => status[u] = s.status[u]
  BY <1>1, <1>t
<1>9. QED
  BY <1>2, <1>5, <1>6, <1>7, <1>8 DEF Acts

(* Thread t, which has ended, gives its core up; the scheduler still has it *)
(* there.                                                                   *)
GivenUp(s, c, t) == [SetCore(SetState(s, c, "IDLE"), t, NoCore) EXCEPT !.runnable[t] = FALSE]

(* What this changes. *)
Gives(s, f, c, t) ==
    /\ f \in Systems /\ SameRest(s, f) /\ f.clock = s.clock
    /\ f.status = s.status /\ f.reason = s.reason /\ f.signalled = s.signalled
    /\ f.runnable = [s.runnable EXCEPT ![t] = FALSE]
    /\ f.core = [s.core EXCEPT ![t] = NoCore] /\ f.cthread = [s.cthread EXCEPT ![c] = NoThread]
    /\ f.cstate = [s.cstate EXCEPT ![c] = "IDLE"]
    /\ f.coreRunning = s.coreRunning /\ f.running = s.running

(* A state with other threads ready is a state. *)
LEMMA RunnableType ==
  ASSUME NEW s \in Systems, NEW n \in [Threads -> BOOLEAN]
  PROVE  [s EXCEPT !.runnable = n] \in Systems
BY Zenon DEF Systems

(* It changes this. *)
LEMMA GivenUpIs ==
  ASSUME NEW s \in Systems, NEW t \in Threads, NEW c \in Cores, s.core[t] = c
  PROVE  Gives(s, GivenUp(s, c, t), c, t)
<1>0. c # NoCore
  BY CoresAndThreads
<1>t. /\ s.core \in [Threads -> Cores \union {NoCore}] /\ s.cthread \in [Cores -> Threads \union {NoThread}]
      /\ s.cstate \in [Cores -> {"IDLE", "INITIALIZING", "RUNNING"}] /\ s.runnable \in [Threads -> BOOLEAN]
  BY SystemsType
<1>1. PICK o : o = [s.core EXCEPT ![t] = NoCore]
  BY Zenon
<1>2. PICK h : h = [s.cthread EXCEPT ![c] = NoThread]
  BY Zenon
<1>3. PICK n : n = [s.runnable EXCEPT ![t] = FALSE]
  BY Zenon
<1>4. /\ o \in [Threads -> Cores \union {NoCore}] /\ h \in [Cores -> Threads \union {NoThread}]
      /\ n \in [Threads -> BOOLEAN]
  BY <1>t, <1>1, <1>2, <1>3
<1>5. PICK a : a = SetState(s, c, "IDLE")
  OBVIOUS
<1>6. /\ a \in Systems /\ SameRest(s, a) /\ SameThreads(s, a) /\ a.clock = s.clock
      /\ a.core = s.core /\ a.cthread = s.cthread /\ a.coreRunning = s.coreRunning /\ a.running = s.running
      /\ a.cstate = [s.cstate EXCEPT ![c] = "IDLE"]
  <2>1. Stated(s, a, c, "IDLE")
    BY <1>5, StatedIs
  <2>2. QED
    BY ONLY <2>1 DEF Stated
<1>7. PICK b : b = [a EXCEPT !.core = o, !.cthread = h]
  OBVIOUS
<1>8. b \in Systems
  BY Zenon, <1>4, <1>6, <1>7, SeatedType
<1>9. /\ SameRest(a, b) /\ SameThreads(a, b) /\ b.clock = a.clock /\ b.cstate = a.cstate
      /\ b.coreRunning = a.coreRunning /\ b.running = a.running /\ b.core = o /\ b.cthread = h
  BY <1>6, <1>7 DEF Systems, SameRest, SameThreads
<1>10. SetCore(a, t, NoCore) = b
  <2>1. a.core[t] = c /\ [a EXCEPT !.cthread[c] = NoThread] = [a EXCEPT !.cthread = h]
    BY <1>2, <1>6
  <2>2. SetCore(a, t, NoCore) = [[a EXCEPT !.cthread = h] EXCEPT !.core[t] = NoCore]
    BY Zenon, <1>0, <2>1 DEF SetCore, AssertIn
  <2>3. [a EXCEPT !.cthread = h].core = s.core
    BY <1>6 DEF Systems
  <2>4. [[a EXCEPT !.cthread = h] EXCEPT !.core[t] = NoCore] = [[a EXCEPT !.cthread = h] EXCEPT !.core = o]
    BY ONLY Zenon, <1>1, <2>3
  <2>5. [[a EXCEPT !.cthread = h] EXCEPT !.core = o] = b
    BY ONLY Zenon, <1>6, <1>7 DEF Systems
  <2>6. QED
    BY ONLY <2>2, <2>4, <2>5
<1>11. PICK f : f = [b EXCEPT !.runnable = n]
  BY Zenon
<1>12. GivenUp(s, c, t) = f
  <2>1. b.runnable = s.runnable
    BY <1>6, <1>9 DEF SameThreads
  <2>2. GivenUp(s, c, t) = [b EXCEPT !.runnable[t] = FALSE]
    BY Zenon, <1>5, <1>10 DEF GivenUp
  <2>3. QED
    BY <1>3, <1>11, <2>1, <2>2
<1>13. f \in Systems
  BY <1>4, <1>8, <1>11, RunnableType
<1>14. /\ SameRest(b, f) /\ f.clock = b.clock
       /\ f.status = b.status /\ f.reason = b.reason /\ f.signalled = b.signalled /\ f.runnable = n
       /\ f.core = b.core /\ f.cthread = b.cthread /\ f.cstate = b.cstate
       /\ f.coreRunning = b.coreRunning /\ f.running = b.running
  BY <1>8, <1>11 DEF Systems, SameRest
<1>15. SameRest(s, f)
  BY <1>6, <1>9, <1>14 DEF SameRest
<1>16. f.status = s.status /\ f.reason = s.reason /\ f.signalled = s.signalled
  BY <1>6, <1>9, <1>14 DEF SameThreads
<1>17. /\ f.clock = s.clock /\ f.runnable = n /\ f.core = o /\ f.cthread = h
       /\ f.cstate = [s.cstate EXCEPT ![c] = "IDLE"]
       /\ f.coreRunning = s.coreRunning /\ f.running = s.running
  BY <1>6, <1>9, <1>14
<1>18. QED
  BY <1>1, <1>2, <1>3, <1>12, <1>13, <1>15, <1>16, <1>17 DEF Gives

(* It keeps what holds inside a critical section; the scheduler's entry for *)
(* t is not settled yet.                                                    *)
LEMMA GivenUpMid ==
  ASSUME NEW w, NEW h, NEW s, Ends(s, w, h), NEW t \in Threads, w[t] = "acting",
         NEW c \in Cores, s.core[t] = c, \A u \in Threads : s.waiter[u] # t,
         \A i \in DOMAIN s.sleeping : s.sleeping[i] # t
  PROVE  /\ Mid(GivenUp(s, c, t), w, h) /\ Held(GivenUp(s, c, t)) /\ SameModes(s, GivenUp(s, c, t))
         /\ Gives(s, GivenUp(s, c, t), c, t)
<1>m. /\ s \in Systems /\ Mid(s, w, h) /\ Settled(s) /\ Held(s) /\ Waits(s, w) /\ Asleep(s, w)
  BY Zenon DEF Ends, Mid
<1>b. /\ \A u \in Threads, d \in Cores : (s.coreRunning[u] = d) <=> (s.running[d] = u)
      /\ \A u \in Threads, d \in Cores : (s.core[u] = d) <=> (s.cthread[d] = u)
      /\ \A u \in Threads : s.core[u] \in {NoCore, s.coreRunning[u]}
      /\ \A d \in Cores : s.cthread[d] = NoThread => s.cstate[d] = "IDLE"
  BY Zenon DEF Ends, Mid, Tables
<1>t. /\ s.core \in [Threads -> Cores \union {NoCore}] /\ s.cthread \in [Cores -> Threads \union {NoThread}]
      /\ s.cstate \in [Cores -> {"IDLE", "INITIALIZING", "RUNNING"}] /\ s.runnable \in [Threads -> BOOLEAN]
  BY <1>m, SystemsType
<1>n. NoThread \notin Threads /\ NoCore \notin Cores
  BY CoresAndThreads
<1>1. PICK f : f = GivenUp(s, c, t)
  OBVIOUS
<1>g. Gives(s, f, c, t)
  BY <1>1, <1>m, GivenUpIs
<1>2. /\ f \in Systems /\ SameRest(s, f) /\ f.clock = s.clock
      /\ f.status = s.status /\ f.reason = s.reason /\ f.signalled = s.signalled
      /\ f.runnable = [s.runnable EXCEPT ![t] = FALSE]
      /\ f.core = [s.core EXCEPT ![t] = NoCore] /\ f.cthread = [s.cthread EXCEPT ![c] = NoThread]
      /\ f.cstate = [s.cstate EXCEPT ![c] = "IDLE"]
      /\ f.coreRunning = s.coreRunning /\ f.running = s.running
  BY ONLY <1>g DEF Gives
<1>3. /\ \A u \in Threads : f.core[u] = IF u = t THEN NoCore ELSE s.core[u]
      /\ \A d \in Cores : f.cthread[d] = IF d = c THEN NoThread ELSE s.cthread[d]
      /\ \A d \in Cores : f.cstate[d] = IF d = c THEN "IDLE" ELSE s.cstate[d]
  BY <1>2, <1>t
<1>4. PICK n : n = [s.runnable EXCEPT ![t] = FALSE]
  BY Zenon
<1>5. PICK q : q = [s EXCEPT !.runnable = n]
  BY Zenon
<1>6. /\ q \in Systems /\ SameTables(s, q) /\ SameModes(s, q)
      /\ q.clock = s.clock /\ q.acquired = s.acquired /\ q.slot = s.slot /\ q.next = s.next
      /\ q.lastPeriodic = s.lastPeriodic /\ q.signalled = s.signalled /\ q.failed = s.failed
      /\ q.status = s.status /\ q.reason = s.reason /\ q.waiter = s.waiter /\ q.sleeping = s.sleeping
      /\ q.runnable = n
  <2>1. n \in [Threads -> BOOLEAN]
    BY <1>4, <1>t
  <2>2. q \in Systems
    BY <1>5, <1>m, <2>1, RunnableType
  <2>3. QED
    BY ZenonT(40), <1>5, <1>m, <2>2 DEF Systems, SameTables, SameModes
<1>7. Acts(s, q, t) /\ ~q.runnable[t]
  <2>1. ~n[t] /\ \A u \in Threads : u # t => n[u] = s.runnable[u]
    BY <1>4, <1>t
  <2>2. QED
    BY <1>6, <2>1 DEF Acts
<1>8. Mid(q, w, h) /\ Held(q)
  <2>1. Waits(q, w) /\ Asleep(q, w)
    BY <1>m, <1>6, <1>7, ActsWaits, ActsSleeps
  <2>2. Mid(q, w, h)
    BY <1>m, <1>7, <2>1, ActsMid
  <2>3. Held(q)
    BY <1>m, <1>6 DEF Held, SameTables, SameModes
  <2>4. QED
    BY <2>2, <2>3
<1>c. q.core = s.core /\ q.coreRunning = s.coreRunning /\ q.cstate = s.cstate
  BY <1>6 DEF SameTables
<1>9. Tables(f)
  <2>1. s.cthread[c] = t
    BY <1>b
  <2>2. ASSUME NEW u \in Threads, NEW d \in Cores
        PROVE  (f.core[u] = d) <=> (f.cthread[d] = u)
    BY <1>3, <1>b, <1>n, <2>1
  <2>3. \A d \in Cores : f.cthread[d] = NoThread => f.cstate[d] = "IDLE"
    BY <1>3, <1>b
  <2>4. \A u \in Threads : f.core[u] \in {NoCore, f.coreRunning[u]}
    BY <1>2, <1>3, <1>b
  <2>5. \A u \in Threads, d \in Cores : (f.coreRunning[u] = d) <=> (f.running[d] = u)
    BY <1>2, <1>b
  <2>6. QED
    BY <2>2, <2>3, <2>4, <2>5 DEF Tables
<1>10. Touches(q, f, t)
  <2>1. \A u \in Threads : u # t => s.core[u] # c
    BY <1>b
  <2>2. \A u \in Threads : u # t =>
          /\ f.core[u] = q.core[u] /\ f.coreRunning[u] = q.coreRunning[u]
          /\ q.core[u] # NoCore => f.cstate[q.core[u]] = q.cstate[q.core[u]]
    BY <1>2, <1>3, <1>c, <1>t, <2>1
  <2>3. SameThreads(q, f) /\ SameModes(q, f)
    BY <1>2, <1>4, <1>6 DEF SameThreads, SameModes, SameRest
  <2>4. /\ f.waiter = q.waiter /\ f.sleeping = q.sleeping /\ f.failed = q.failed
        /\ f.clock = q.clock /\ f.acquired = q.acquired /\ f.slot = q.slot /\ f.next = q.next
        /\ f.lastPeriodic = q.lastPeriodic
    BY <1>2, <1>6 DEF SameRest
  <2>5. QED
    BY <1>2, <1>c, <2>2, <2>3, <2>4 DEF Touches
<1>11. Mid(f, w, h) /\ Held(f)
  BY <1>8, <1>9, <1>10, TouchMid
<1>12. QED
  BY <1>1, <1>2, <1>g, <1>11 DEF SameModes, SameRest

(* Thread t, which has given its core up, leaves it to another one. *)
LEMMA GivenUpEnds ==
  ASSUME NEW w \in [Threads -> Places \union {"acting"}], NEW h, NEW s, Ends(s, w, h), NEW t \in Threads,
         w[t] = "acting", s.status[t] = "IDLE", NEW c \in Cores, s.core[t] = c,
         \A u \in Threads : s.waiter[u] # t, \A i \in DOMAIN s.sleeping : s.sleeping[i] # t,
         NEW g, g = RescheduleCoreOf(GivenUp(s, c, t), t)
  PROVE  /\ Ends(g, w, h) /\ SameModes(s, g) /\ Signals(s, g)
         /\ g.coreRunning[t] = NoCore /\ g.status[t] = "IDLE"
         /\ g.waiter = s.waiter /\ g.sleeping = s.sleeping
<1>m. s \in Systems /\ Settled(s)
  BY Zenon DEF Ends, Mid
<1>n. NoCore \notin Cores
  BY CoresAndThreads
<1>1. PICK f : f = GivenUp(s, c, t)
  OBVIOUS
<1>2. Mid(f, w, h) /\ Held(f) /\ SameModes(s, f) /\ Gives(s, f, c, t)
  BY <1>1, GivenUpMid
<1>3. /\ f.status = s.status /\ f.reason = s.reason /\ f.signalled = s.signalled
      /\ f.runnable = [s.runnable EXCEPT ![t] = FALSE]
      /\ f.core = [s.core EXCEPT ![t] = NoCore]
      /\ f.coreRunning = s.coreRunning /\ f.waiter = s.waiter /\ f.sleeping = s.sleeping
  BY <1>2 DEF Gives, SameRest
<1>4. ~f.runnable[t]
  BY <1>3, <1>m, SystemsType
<1>5. f.coreRunning[t] = c /\ f.running[c] = t
  <2>1. f.coreRunning[t] = c
    BY <1>3, <1>m DEF Settled
  <2>2. QED
    BY Zenon, <1>2, <2>1 DEF Mid, Tables
<1>6. g = RescheduleCore(f, c)
  BY <1>1, <1>5, <1>n DEF RescheduleCoreOf
<1>7. Movable(f, w, c)
  BY <1>4, <1>5 DEF Movable
<1>8. Mid(g, w, h) /\ Moves(f, g, {f.running[c]}) /\ g.coreRunning[t] = NoCore
  <2>1. f.status[t] # "INITIALIZING"
    BY <1>3
  <2>2. QED
    BY <1>2, <1>4, <1>5, <1>6, <1>7, <2>1, RescheduleCoreMid
<1>9. PICK E : E = {t}
  BY Zenon
<1>10. Moves(f, g, E) /\ \A u \in E : w[u] # "barrier"
  BY <1>5, <1>8, <1>9
<1>11. Held(g) /\ SameModes(f, g) /\ Signals(f, g)
  BY <1>2, <1>8, <1>10, MovesHeld
<1>12. Settled(g)
  <2>1. g \in Systems
    BY Zenon, <1>8 DEF Mid
  <2>2. g.core \in [Threads -> Cores \union {NoCore}] /\ g.coreRunning \in [Threads -> Cores \union {NoCore}]
    BY <2>1, SystemsType
  <2>3. ASSUME NEW u \in Threads PROVE g.core[u] = g.coreRunning[u]
    <3>1. CASE u = t
      BY Zenon, <1>8, <3>1 DEF Mid, Tables
    <3>2. CASE u # t
      <4>1. f.core[u] = f.coreRunning[u]
        BY <1>3, <1>m, <3>2, SystemsType DEF Settled
      <4>2. g.core[u] = g.coreRunning[u] \/ (g.core[u] = f.core[u] /\ g.coreRunning[u] = f.coreRunning[u])
        BY <1>10 DEF Moves
      <4>3. QED
        BY <4>1, <4>2
    <3>3. QED
      BY <3>1, <3>2
  <2>4. QED
    BY <2>2, <2>3 DEF Settled
<1>13. g.status[t] = "IDLE"
  <2>1. f.status[t] = "IDLE"
    BY <1>3
  <2>2. QED
    BY <1>10, <2>1 DEF Moves, Awakens
<1>14. g.waiter = s.waiter /\ g.sleeping = s.sleeping
  BY <1>3, <1>10 DEF Moves, SameRest
<1>15. SameModes(s, g) /\ Signals(s, g)
  <2>1. Signals(s, f)
    <3>1. s.runnable \in [Threads -> BOOLEAN]
      BY <1>m, SystemsType
    <3>2. QED
      BY <1>3, <3>1 DEF Signals, Rests, Sleepers
  <2>2. Signals(s, g)
    BY <1>11, <2>1, SignalsTransitive
  <2>3. QED
    BY <1>2, <1>11, <2>2 DEF SameModes
<1>16. QED
  BY <1>8, <1>11, <1>12, <1>13, <1>14, <1>15 DEF Ends

(* The thread that joins thread t goes on; t keeps its core for now. *)
LEMMA JoinerEnds ==
  ASSUME NEW w \in [Threads -> Places \union {"acting"}], NEW h, NEW s, Ends(s, w, h), NEW t \in Threads,
         w[t] = "acting", s.status[t] = "IDLE", NEW c \in Cores, s.core[t] = c,
         NEW u \in Threads, u # t, w[u] = "stalled", s.status[u] = "STALLED", s.reason[u] = "JOIN",
         \A x \in Threads : s.waiter[x] # u,
         NEW r, r = ResumeThread(s, u)
  PROVE  /\ Ends(r, w, h) /\ SameModes(s, r) /\ Signals(s, r)
         /\ r.status[t] = "IDLE" /\ r.status[u] = "RUNNING" /\ r.core[t] = c /\ r.waiter = s.waiter /\ r.sleeping = s.sleeping
<1>m. s \in Systems /\ Settled(s) /\ Placed(s, w) /\ Asleep(s, w)
  BY Zenon DEF Ends, Mid
<1>n. NoCore \notin Cores
  BY CoresAndThreads
<1>1. PICK a : a = SignalThread(s, u)
  OBVIOUS
<1>2. /\ a \in Systems /\ SameRest(s, a) /\ SameTables(s, a) /\ a.clock = s.clock
      /\ a.status = s.status /\ a.reason = s.reason /\ a.runnable = s.runnable
      /\ a.signalled = s.signalled \union {u}
  BY <1>1, <1>m, SignalIs
<1>3. s.coreRunning[u] = NoCore
  BY <1>m DEF Placed
<1>4. \A i \in DOMAIN s.sleeping : s.sleeping[i] # u
  BY <1>m DEF Asleep
<1>5. Wakable(a, w, u)
  <2>1. /\ a.coreRunning = s.coreRunning /\ a.waiter = s.waiter /\ a.sleeping = s.sleeping
        /\ u \in a.signalled
    BY <1>2 DEF SameTables, SameRest
  <2>2. QED
    BY <1>3, <1>4, <2>1 DEF Wakable
<1>6. PICK b : b = Up(a, u)
  OBVIOUS
<1>7. Ends(r, w, h) /\ SameModes(s, r) /\ Signals(s, r) /\ Moves(b, r, {})
  <2>1. w[u] # "barrier" /\ Wakable(SignalThread(s, u), w, u)
    BY <1>1, <1>5
  <2>2. QED
    BY <1>1, <1>6, <2>1, ResumeThreadEnds
<1>8. Ups(a, b, u)
  BY <1>2, <1>6, UpIs
<1>9. b.status[t] = "IDLE" /\ b.status[u] = "RUNNING" /\ b.core = s.core /\ b.coreRunning = s.coreRunning
      /\ b.waiter = s.waiter /\ b.sleeping = s.sleeping
  BY <1>2, <1>8, SystemsType DEF Ups, SameTables, SameRest
<1>10. r.status[t] = "IDLE" /\ r.status[u] = "RUNNING"
  BY <1>7, <1>9 DEF Moves, Awakens
<1>11. r.core[t] = c
  <2>1. b.coreRunning[t] # NoCore /\ b.core[t] = c
    BY <1>9, <1>m, <1>n DEF Settled
  <2>2. QED
    BY <1>7, <2>1 DEF Moves
<1>12. r.waiter = s.waiter /\ r.sleeping = s.sleeping
  BY <1>7, <1>9 DEF Moves, SameRest
<1>13. QED
  BY <1>7, <1>10, <1>11, <1>12

(* What onThreadExit leaves behind, once its assertion is known to hold. *)
ExitOf(s, waiter, c, t) ==
    LET d == Ended(s, t)
        woken == IF waiter = NoThread THEN d ELSE ResumeThread(d, waiter)
    IN  Signal(ReleaseThread(RescheduleCoreOf(GivenUp(woken, c, t), t), t))

(* ThreadManager::onThreadExit. *)
LEMMA ExitInv ==
  ASSUME ~FollowAborts, ThreadInv, NEW t \in Threads, Exit(t)
  PROVE  ThreadInv'
<1>i. /\ where \in [Threads -> Places] /\ here \in [Threads -> Cores \union {NoCore}]
      /\ sys.signalled = {} /\ sys \in Systems /\ AtPlaces(sys, where, here)
      /\ Waits(sys, where) /\ Asleep(sys, where) /\ Settled(sys)
  BY Zenon DEF ThreadInv, Mid
<1>n. NoThread \notin Threads /\ NoCore \notin Cores
  BY CoresAndThreads
<1>0. where[t] = "user"
  BY Zenon DEF Exit
<1>1. PICK c \in Cores : c = sys.core[t] /\ sys.status[t] = "RUNNING" /\ c # NoCore
  BY <1>0, <1>i, <1>n DEF AtPlaces
<1>2. PICK d : d = Ended(sys, t)
  OBVIOUS
<1>3. PICK woken : woken = IF sys.waiter[t] = NoThread THEN d ELSE ResumeThread(d, sys.waiter[t])
  OBVIOUS
<1>4. PICK g : g = RescheduleCoreOf(GivenUp(woken, c, t), t)
  OBVIOUS
<1>5. PICK r : r = Signal(ReleaseThread(g, t))
  OBVIOUS
<1>6. Commit(r, t, "exited", NoCore)
  <2>2. QED
    <3>1. sys.core[t] # NoCore /\ sys.status[t] = "RUNNING"
      BY <1>1
    <3>2. Commit(ExitOf(IF sys.core[t] # NoCore /\ sys.status[t] = "RUNNING" THEN sys
                        ELSE Fail(sys, "thread ends while not running"), sys.waiter[t], sys.core[t], t),
                 t, "exited", NoCore)
      BY DEF Exit, ExitOf, Ended, GivenUp, AssertIn
    <3>3. Commit(ExitOf(sys, sys.waiter[t], sys.core[t], t), t, "exited", NoCore)
      BY <3>1, <3>2
    <3>4. ExitOf(sys, sys.waiter[t], c, t) = r
      BY <1>2, <1>3, <1>4, <1>5 DEF ExitOf
    <3>5. ExitOf(sys, sys.waiter[t], sys.core[t], t) = r
      BY <1>1, <3>4
    <3>6. QED
      BY <3>3, <3>5
<1>7. /\ \A u \in Threads : sys.waiter[u] # t
      /\ \A i \in DOMAIN sys.sleeping : sys.sleeping[i] # t
      /\ sys.waiter[t] = NoThread \/ where[sys.waiter[t]] # "startwait"
  BY <1>0, CallerIsFree
<1>8. PICK w : w = [where EXCEPT ![t] = "acting"]
  BY Zenon
<1>w. /\ Ends(sys, w, here) /\ w \in [Threads -> Places \union {"acting"}]
      /\ w[t] = "acting" /\ \A u \in Threads : u # t => w[u] = where[u] /\ w[u] # "acting"
  <2>1. where[t] \notin {"barrier", "startwait"}
    BY <1>0
  <2>2. QED
    BY Zenon, <1>8, <2>1, EnterEnds
<1>9. /\ Acts(sys, d, t) /\ d.waiter = [sys.waiter EXCEPT ![t] = NoThread]
      /\ d.sleeping = sys.sleeping /\ d.status[t] = "IDLE"
  BY <1>2, <1>i, EndedIs
<1>t. sys.waiter \in [Threads -> Threads \union {NoThread}]
  BY <1>i, SystemsType
<1>x. \A u \in Threads : d.waiter[u] = IF u = t THEN NoThread ELSE sys.waiter[u]
  BY <1>9, <1>t
<1>10. d.core = sys.core /\ d.coreRunning = sys.coreRunning /\ d.signalled = {} /\ SameModes(sys, d)
  BY <1>9, <1>i DEF Acts, SameTables
<1>11. Waits(d, w)
  <2>m. Waits(sys, w) /\ sys.signalled = {}
    BY Zenon, <1>w, <1>i DEF Ends, Mid
  <2>1. ASSUME NEW x \in Threads, d.waiter[x] # NoThread
        PROVE  \/ w[d.waiter[x]] = "startwait" /\ w[x] \in {"created", "acting"}
               \/ /\ w[d.waiter[x]] \in {"stalled", "acting"}
                  /\ d.status[d.waiter[x]] = "STALLED" /\ d.reason[d.waiter[x]] = "JOIN"
    <3>1. PICK y \in Threads : y = sys.waiter[x] /\ y = d.waiter[x] /\ y # t
      BY <1>x, <1>t, <1>7, <2>1
    <3>2. \/ w[y] = "startwait" /\ w[x] \in {"created", "acting"}
          \/ /\ w[y] \in {"stalled", "acting"}
             /\ sys.status[y] = "STALLED" /\ sys.reason[y] = "JOIN"
      <4>1. sys.waiter[x] # NoThread
        BY <3>1, <1>n
      <4>2. \/ w[sys.waiter[x]] = "startwait" /\ w[x] \in {"created", "acting"}
            \/ /\ w[sys.waiter[x]] \in {"stalled", "acting"}
               /\ sys.status[sys.waiter[x]] = "STALLED" /\ sys.reason[sys.waiter[x]] = "JOIN"
        BY <2>m, <4>1 DEF Waits
      <4>3. QED
        BY ONLY <3>1, <4>2
    <3>3. d.status[y] = sys.status[y] /\ d.reason[y] = sys.reason[y]
      BY <1>9, <3>1 DEF Acts
    <3>4. QED
      BY <3>1, <3>2, <3>3
  <2>2. ASSUME NEW x \in Threads, NEW y \in Threads, d.waiter[x] = d.waiter[y], d.waiter[x] # NoThread
        PROVE  x = y
    <3>1. \A p, q \in Threads : (sys.waiter[p] = sys.waiter[q] /\ sys.waiter[p] # NoThread) => p = q
      BY <2>m DEF Waits
    <3>2. sys.waiter[x] = sys.waiter[y] /\ sys.waiter[x] # NoThread
      BY <1>x, <2>2
    <3>3. QED
      BY <3>1, <3>2
  <2>3. ASSUME NEW v \in Threads, w[v] = "startwait"
        PROVE  \E x \in Threads : d.waiter[x] = v /\ w[x] \in {"created", "acting"}
    <3>1. PICK x \in Threads : sys.waiter[x] = v /\ w[x] \in {"created", "acting"}
      BY <2>m, <2>3 DEF Waits
    <3>2. where[v] = "startwait"
      BY <1>w, <2>3
    <3>3. x # t
      BY <1>7, <1>n, <3>1, <3>2
    <3>4. QED
      BY <1>x, <3>1, <3>3
  <2>4. QED
    BY <1>10, <2>1, <2>2, <2>3 DEF Waits
<1>12. Asleep(d, w)
  BY Zenon, <1>7, <1>8, <1>9, CallerSleeps
<1>13. Ends(d, w, here)
  <2>1. Mid(sys, w, here) /\ Settled(sys) /\ Held(sys)
    BY <1>w DEF Ends
  <2>2. d.coreRunning[t] # NoCore
    BY <1>1, <1>10, <1>i DEF Settled
  <2>3. Mid(d, w, here)
    BY <1>9, <1>11, <1>12, <1>w, <2>1, <2>2, ActsMid
  <2>4. Settled(d) /\ Held(d)
    BY <1>9, <2>1 DEF Acts, SameTables, SameModes, Settled, Held
  <2>5. QED
    BY <2>3, <2>4 DEF Ends
<1>14. /\ Ends(woken, w, here) /\ SameModes(d, woken) /\ Signals(d, woken)
       /\ woken.status[t] = "IDLE" /\ woken.core[t] = c /\ woken.waiter = d.waiter
       /\ woken.sleeping = d.sleeping
       /\ sys.waiter[t] # NoThread => woken.status[sys.waiter[t]] = "RUNNING"
  <2>1. CASE sys.waiter[t] = NoThread
    <3>1. woken = d
      BY <1>3, <2>1
    <3>2. QED
      BY <1>1, <1>9, <1>10, <1>13, <2>1, <3>1, SameSignals DEF SameModes
  <2>2. CASE sys.waiter[t] # NoThread
    <3>1. PICK u \in Threads : u = sys.waiter[t] /\ u # t /\ where[u] # "startwait"
      BY <1>t, <1>7, <2>2
    <3>2. where[u] \in {"stalled", "acting"} /\ sys.status[u] = "STALLED" /\ sys.reason[u] = "JOIN"
      BY <1>i, <2>2, <3>1 DEF Waits
    <3>3. w[u] = "stalled" /\ d.status[u] = "STALLED" /\ d.reason[u] = "JOIN"
      BY <1>9, <1>w, <3>1, <3>2 DEF Acts
    <3>4. \A x \in Threads : d.waiter[x] # u
      <4>1. \A p, q \in Threads : (sys.waiter[p] = sys.waiter[q] /\ sys.waiter[p] # NoThread) => p = q
        BY <1>i DEF Waits
      <4>2. QED
        BY <1>x, <1>n, <3>1, <4>1
    <3>5. woken = ResumeThread(d, u) /\ d.core[t] = c
      BY <1>1, <1>3, <1>10, <2>2, <3>1
    <3>6. w \in [Threads -> Places \union {"acting"}] /\ w[t] = "acting" /\ u # t /\ d.status[t] = "IDLE"
      BY <1>9, <1>w, <3>1
    <3>7. QED
      BY <1>13, <3>1, <3>3, <3>4, <3>5, <3>6, JoinerEnds
  <2>3. QED
    BY <2>1, <2>2
<1>15. /\ \A u \in Threads : woken.waiter[u] # t
       /\ \A i \in DOMAIN woken.sleeping : woken.sleeping[i] # t
       /\ woken.waiter[t] = NoThread
  BY <1>7, <1>9, <1>14, <1>x, <1>n
<1>16. /\ Ends(g, w, here) /\ SameModes(woken, g) /\ Signals(woken, g)
       /\ g.coreRunning[t] = NoCore /\ g.status[t] = "IDLE"
       /\ g.waiter = woken.waiter /\ g.sleeping = woken.sleeping
  BY <1>4, <1>14, <1>15, <1>w, GivenUpEnds
<1>17. ~sys.aborted /\ r.next <= MaxTime
  BY <1>6, CommitBegins
<1>18. ~g.aborted
  BY <1>10, <1>14, <1>16, <1>17 DEF SameModes
<1>19. PICK v : v = [where EXCEPT ![t] = "exited"]
  BY Zenon
<1>20. v = [w EXCEPT ![t] = "exited"]
  BY <1>8, <1>19, <1>i
<1>21. Fits(g, w, here, t, "exited")
  BY <1>15, <1>16 DEF Fits
<1>22. Over(g, r, v, here)
  <2>1. \A u \in Threads : u # t => w[u] # "acting"
    BY <1>w
  <2>2. "exited" \in Places
    BY DEF Places
  <2>3. QED
    BY Zenon, <1>5, <1>16, <1>18, <1>20, <1>21, <1>w, <2>1, <2>2, LeaveEnd
<1>23. Ends(r, v, here) /\ Goes(r, v) /\ Signals(g, r)
  BY <1>17, <1>22 DEF Over
<1>24. Heard(r, v)
  <2>1. Signals(d, r)
    BY <1>14, <1>16, <1>23, SignalsTransitive
  <2>2. QED
    BY <1>10, <2>1, HeardNobody
<1>k. Woken(r, v, Abandoned(r))
  <2>1. Woken(sys, where, abandoned) /\ Sleepers(sys) \subseteq Sleepers(d)
    BY <1>9 DEF ThreadInv, Sleepers
  <2>2. \A u \in Threads : u # t => v[u] = where[u]
    BY <1>19, <1>i
  <2>3. PICK B : B = abandoned \union {sys.waiter[t]}
    OBVIOUS
  <2>4. \A x \in Threads : sys.waiter[x] \in Threads /\ sys.status[x] \notin {"none", "IDLE"} =>
           sys.waiter[x] \in B \/ (d.waiter[x] = sys.waiter[x] /\ d.status[x] \notin {"none", "IDLE"})
    BY <1>9, <1>x, <2>3 DEF Acts
  <2>5. Woken(d, v, B)
    <3>1. abandoned \subseteq B /\ d.status[t] = "IDLE" /\ Acts(sys, d, t)
      BY <1>9, <2>3
    <3>2. QED
      BY <2>1, <2>2, <2>4, <3>1, ActsWoken
  <2>6. Signals(woken, r)
    BY <1>16, <1>23, SignalsTransitive
  <2>7. \A u \in B : u \in Abandoned(r) \/ u = NoThread \/ (u \in Threads /\ r.status[u] = "RUNNING")
    <3>1. sys.waiter[t] # NoThread => woken.status[sys.waiter[t]] = "RUNNING"
      BY <1>14
    <3>2. (sys.waiter[t] \in Threads /\ woken.status[sys.waiter[t]] = "RUNNING") => r.status[sys.waiter[t]] = "RUNNING"
      BY <2>6 DEF Signals, Rests
    <3>3. QED
      BY <1>t, <2>3, <3>1, <3>2, MoreAbandoned
  <2>8. Woken(d, v, B \ {NoThread})
    BY <1>n, <2>5 DEF Woken
  <2>9. Signals(d, r)
    BY <1>14, <2>6, SignalsTransitive
  <2>10. \A u \in B \ {NoThread} : u \in Abandoned(r) \/ (u \in Threads /\ r.status[u] = "RUNNING")
    BY <2>7
  <2>11. QED
    BY <2>8, <2>9, <2>10, WokenOn
<1>25. Done(r, v, here, t, "exited", NoCore)
  BY <1>i, <1>19, <1>23, <1>24, <1>k DEF Done, Places
<1>26. QED
  BY <1>6, <1>25, <1>i, CommitInv

(* Thread t is held in the barrier, at the core it executed on. *)
Entered(s, c, t, time) == [s EXCEPT !.clock[c] = time, !.acquired[c] = TRUE, !.slot[c] = t]

(* What this changes. *)
Enters(s, r, c, t, time) ==
    /\ r \in Systems /\ SameTables(s, r) /\ SameModes(s, r) /\ SameThreads(s, r)
    /\ r.waiter = s.waiter /\ r.sleeping = s.sleeping /\ r.failed = s.failed /\ r.next = s.next
    /\ r.lastPeriodic = s.lastPeriodic
    /\ r.clock = [s.clock EXCEPT ![c] = time] /\ r.acquired = [s.acquired EXCEPT ![c] = TRUE]
    /\ r.slot = [s.slot EXCEPT ![c] = t]

(* A state with another barrier is a state. *)
LEMMA BarrierType ==
  ASSUME NEW s \in Systems, NEW k \in [Cores -> Nat], NEW a \in [Cores -> BOOLEAN],
         NEW l \in [Cores -> Threads \union {NoThread}]
  PROVE  [s EXCEPT !.clock = k, !.acquired = a, !.slot = l] \in Systems
BY Zenon DEF Systems

(* It changes this. *)
LEMMA EnteredIs ==
  ASSUME NEW s \in Systems, NEW c \in Cores, NEW t \in Threads, NEW time \in Nat
  PROVE  Enters(s, Entered(s, c, t, time), c, t, time)
<1>t. /\ s.clock \in [Cores -> Nat] /\ s.acquired \in [Cores -> BOOLEAN]
      /\ s.slot \in [Cores -> Threads \union {NoThread}]
  BY SystemsType
<1>1. PICK k : k = [s.clock EXCEPT ![c] = time]
  BY Zenon
<1>2. PICK a : a = [s.acquired EXCEPT ![c] = TRUE]
  BY Zenon
<1>3. PICK l : l = [s.slot EXCEPT ![c] = t]
  BY Zenon
<1>4. k \in [Cores -> Nat] /\ a \in [Cores -> BOOLEAN] /\ l \in [Cores -> Threads \union {NoThread}]
  BY <1>t, <1>1, <1>2, <1>3
<1>5. PICK r : r = [s EXCEPT !.clock = k, !.acquired = a, !.slot = l]
  OBVIOUS
<1>6. Entered(s, c, t, time) = r
  BY <1>1, <1>2, <1>3, <1>5 DEF Entered, Systems
<1>7. r \in Systems
  BY Zenon, <1>4, <1>5, BarrierType
<1>8. /\ SameTables(s, r) /\ SameModes(s, r) /\ SameThreads(s, r)
      /\ r.waiter = s.waiter /\ r.sleeping = s.sleeping /\ r.failed = s.failed /\ r.next = s.next
      /\ r.lastPeriodic = s.lastPeriodic /\ r.clock = k /\ r.acquired = a /\ r.slot = l
  BY <1>5 DEF Systems, SameTables, SameModes, SameThreads
<1>9. QED
  BY <1>1, <1>2, <1>3, <1>6, <1>7, <1>8 DEF Enters

(* What holds when a thread has just entered the barrier: the assertions of *)
(* synchronize held.                                                        *)
JustIn(r, c, t, w) ==
    /\ Ends(r, w, here) /\ SameModes(sys, r) /\ r.signalled = {} /\ c \in Cores
    /\ sys.cthread[c] = t /\ sys.cstate[c] = "RUNNING" /\ ~sys.acquired[c]
    /\ r.acquired[c] /\ r.slot[c] = t

(* A thread that executes may enter the barrier. *)
LEMMA EnteredEnds ==
  ASSUME ThreadInv, NEW t \in Threads, where[t] = "user", ~sys.disable,
         NEW c, c = here[t], NEW time \in SyncTimes(sys),
         NEW w, w = [where EXCEPT ![t] = "barrier"]
  PROVE  JustIn(Entered(sys, c, t, time), c, t, w)
<1>i. /\ where \in [Threads -> Places] /\ here \in [Threads -> Cores \union {NoCore}]
      /\ sys.signalled = {} /\ sys \in Systems /\ AtPlaces(sys, where, here) /\ Ready(sys)
      /\ Waits(sys, where) /\ Asleep(sys, where) /\ Settled(sys) /\ Held(sys)
      /\ Tables(sys) /\ Placed(sys, where) /\ InBarrier(sys, where, here)
      /\ sys.failed \subseteq {"application deadlocked", "advance spins"}
  BY Zenon DEF ThreadInv, Mid
<1>n. NoThread \notin Threads /\ NoCore \notin Cores
  BY CoresAndThreads
<1>1. c \in Cores /\ sys.core[t] = c /\ sys.coreRunning[t] = c /\ sys.status[t] = "RUNNING"
  BY Zenon, <1>i DEF AtPlaces, Settled
<1>2. sys.cthread[c] = t /\ sys.cstate[c] = "RUNNING"
  <2>1. sys.cthread[c] = t
    BY ZenonT(40), <1>i, <1>1 DEF Tables
  <2>2. sys.coreRunning[t] # NoCore /\ where[t] # "acting"
    BY <1>1, <1>n
  <2>3. sys.cstate[sys.core[t]] = sys.status[t]
    BY Zenon, <1>i, <1>1, <2>2 DEF Placed
  <2>4. QED
    BY <1>1, <2>1, <2>3
<1>b. /\ \A d \in Cores : sys.acquired[d] =>
              /\ sys.slot[d] \in Threads /\ sys.slot[d] \notin sys.signalled
              /\ where[sys.slot[d]] = "barrier" /\ here[sys.slot[d]] = d
              /\ sys.core[sys.slot[d]] = d \/ sys.clock[d] = 0
      /\ \A x \in Threads : where[x] = "barrier" =>
              here[x] \in Cores /\ (x \in sys.signalled \/ (sys.acquired[here[x]] /\ sys.slot[here[x]] = x))
  BY Zenon, <1>i DEF InBarrier
<1>3. ~sys.acquired[c]
  <2>1. ASSUME sys.acquired[c] PROVE FALSE
    <3>1. sys.core[sys.slot[c]] = c /\ sys.slot[c] \in Threads /\ where[sys.slot[c]] = "barrier"
      BY Zenon, <1>i, <1>b, <1>1, <2>1 DEF Held
    <3>2. sys.slot[c] = t
      <4>1. PICK x \in Threads : x = sys.slot[c] /\ sys.core[x] = c
        BY <3>1
      <4>2. sys.cthread[c] = x
        <5>1. \A y \in Threads, d \in Cores : (sys.core[y] = d) <=> (sys.cthread[d] = y)
          BY Zenon, <1>i DEF Tables
        <5>2. QED
          BY <5>1, <1>1, <4>1
      <4>3. QED
        BY <1>2, <4>1, <4>2
    <3>3. QED
      BY <3>1, <3>2
  <2>2. QED
    BY <2>1
<1>4. sys.next \in Nat \ {0} /\ time \in Nat /\ (sys.fastforward \/ time >= sys.next)
  <2>1. sys.next \in Nat \ {0}
    BY Zenon, <1>i, SystemsType
  <2>2. time \in IF sys.fastforward THEN {sys.next - 1, sys.next + 1} ELSE {sys.next, sys.next + 1}
    BY DEF SyncTimes
  <2>3. QED
    BY <2>1, <2>2
<1>5. PICK r : r = Entered(sys, c, t, time)
  OBVIOUS
<1>6. /\ r \in Systems /\ SameTables(sys, r) /\ SameModes(sys, r) /\ SameThreads(sys, r)
      /\ r.waiter = sys.waiter /\ r.sleeping = sys.sleeping /\ r.failed = sys.failed /\ r.next = sys.next
      /\ r.lastPeriodic = sys.lastPeriodic
      /\ r.clock = [sys.clock EXCEPT ![c] = time] /\ r.acquired = [sys.acquired EXCEPT ![c] = TRUE]
      /\ r.slot = [sys.slot EXCEPT ![c] = t]
  <2>1. Enters(sys, r, c, t, time)
    BY Zenon, <1>i, <1>1, <1>4, <1>5, EnteredIs
  <2>2. QED
    BY ONLY <2>1 DEF Enters
<1>a. /\ r.status = sys.status /\ r.reason = sys.reason /\ r.runnable = sys.runnable
      /\ r.signalled = {}
  BY Zenon, <1>6, <1>i DEF SameThreads
<1>c. /\ r.core = sys.core /\ r.cthread = sys.cthread /\ r.cstate = sys.cstate
      /\ r.coreRunning = sys.coreRunning /\ r.running = sys.running
  BY <1>6 DEF SameTables
<1>d. /\ \A d \in Cores : r.clock[d] = IF d = c THEN time ELSE sys.clock[d]
      /\ \A d \in Cores : r.acquired[d] <=> (d = c \/ sys.acquired[d])
      /\ \A d \in Cores : r.slot[d] = IF d = c THEN t ELSE sys.slot[d]
  <2>1. /\ sys.clock \in [Cores -> Nat] /\ sys.acquired \in [Cores -> BOOLEAN]
        /\ sys.slot \in [Cores -> Threads \union {NoThread}]
    BY Zenon, <1>i, SystemsType
  <2>2. r.clock = [sys.clock EXCEPT ![c] = time] /\ r.slot = [sys.slot EXCEPT ![c] = t]
    BY <1>6
  <2>3. r.acquired = [sys.acquired EXCEPT ![c] = TRUE]
    BY <1>6
  <2>4. \A d \in Cores : r.acquired[d] <=> (d = c \/ sys.acquired[d])
    BY ONLY <2>1, <2>3, Zenon
  <2>5. QED
    BY <2>1, <2>2, <2>4
<1>w. \A x \in Threads : w[x] = IF x = t THEN "barrier" ELSE where[x]
  BY Zenon, <1>i
<1>x. /\ \A x \in Threads : sys.waiter[x] # t
      /\ \A i \in DOMAIN sys.sleeping : sys.sleeping[i] # t
      /\ sys.waiter[t] = NoThread \/ where[sys.waiter[t]] # "startwait"
  BY CallerIsFree
<1>7. Tables(r) /\ Ready(r)
  <2>1. Tables(sys) /\ Ready(sys)
    BY Zenon, <1>i
  <2>2. QED
    BY ONLY <2>1, <1>a, <1>c DEF Tables, Ready
<1>8. Placed(r, w)
  <2>1. Placed(sys, where)
    BY Zenon, <1>i
  <2>2. \A x \in Threads : w[x] # "acting" => where[x] # "acting"
    BY <1>w
  <2>3. QED
    BY ONLY <2>1, <2>2, <1>a, <1>c DEF Placed
<1>9. AtPlaces(r, w, here)
  <2>1. SUFFICES ASSUME NEW x \in Threads
                 PROVE  /\ w[x] = "none" => sys.status[x] = "none" /\ sys.coreRunning[x] = NoCore
                        /\ w[x] = "created" => sys.status[x] = "INITIALIZING" /\ sys.core[x] = sys.coreRunning[x]
                        /\ w[x] = "user" => sys.status[x] = "RUNNING" /\ sys.core[x] = here[x] /\ here[x] \in Cores
                        /\ w[x] = "check" => sys.status[x] = "RUNNING"
                             \/ (sys.status[x] = "STALLED" /\ sys.reason[x] \in {"JOIN", "UNSCHEDULED"})
                        /\ w[x] = "stalled" =>
                             sys.status[x] = "STALLED" \/ (sys.status[x] = "RUNNING" /\ x \in sys.signalled)
                        /\ w[x] \in {"startwait", "barrier"} => sys.status[x] = "RUNNING"
                        /\ w[x] = "paused" => sys.status[x] = "STALLED" /\ sys.reason[x] = "PAUSE"
                        /\ w[x] = "exited" => sys.status[x] = "IDLE"
    <3>1. r.status = sys.status /\ r.reason = sys.reason /\ r.signalled = sys.signalled
      BY Zenon, <1>a, <1>i
    <3>2. QED
      BY <3>1, <1>c DEF AtPlaces
  <2>2. CASE x = t
    BY <1>1, <1>w, <2>2
  <2>3. CASE x # t
    <3>1. w[x] = where[x] /\ AtPlaces(sys, where, here)
      BY Zenon, <1>w, <1>i, <2>3
    <3>2. QED
      BY ONLY <2>1, <3>1 DEF AtPlaces
  <2>4. QED
    BY <2>2, <2>3
<1>10. Waits(r, w)
  <2>t. sys.waiter \in [Threads -> Threads \union {NoThread}]
    BY Zenon, <1>i, SystemsType
  <2>1. ASSUME NEW x \in Threads, sys.waiter[x] # NoThread
        PROVE  \/ w[sys.waiter[x]] = "startwait" /\ w[x] \in {"created", "acting"}
               \/ /\ w[sys.waiter[x]] \in {"stalled", "acting"}
                  /\ sys.status[sys.waiter[x]] = "STALLED" /\ sys.reason[sys.waiter[x]] = "JOIN"
    <3>1. \/ where[sys.waiter[x]] = "startwait" /\ where[x] \in {"created", "acting"}
          \/ /\ where[sys.waiter[x]] \in {"stalled", "acting"}
             /\ sys.status[sys.waiter[x]] = "STALLED" /\ sys.reason[sys.waiter[x]] = "JOIN"
      BY Zenon, <1>i, <2>1 DEF Waits
    <3>2. w[sys.waiter[x]] = where[sys.waiter[x]]
      BY <1>w, <1>x, <2>1, <2>t
    <3>3. where[x] \in {"created", "acting"} => w[x] = where[x]
      BY <1>w
    <3>4. QED
      BY <3>1, <3>2, <3>3
  <2>2. \A x, y \in Threads : (sys.waiter[x] = sys.waiter[y] /\ sys.waiter[x] # NoThread) => x = y
    BY Zenon, <1>i DEF Waits
  <2>3. ASSUME NEW u \in Threads, w[u] = "startwait"
        PROVE  \E x \in Threads : sys.waiter[x] = u /\ w[x] \in {"created", "acting"}
    <3>1. where[u] = "startwait"
      BY <1>w, <2>3
    <3>2. PICK x \in Threads : sys.waiter[x] = u /\ where[x] \in {"created", "acting"}
      BY Zenon, <1>i, <3>1 DEF Waits
    <3>3. QED
      BY <1>w, <3>2
  <2>4. r.waiter = sys.waiter
    BY <1>6
  <2>5. QED
    BY <1>a, <2>1, <2>2, <2>3, <2>4 DEF Waits
<1>11. Asleep(r, w)
  <2>1. \A i \in DOMAIN sys.sleeping : sys.sleeping[i] \in Threads
    <3>1. sys.sleeping \in Seq(Threads)
      BY Zenon, <1>i, SystemsType
    <3>2. QED
      BY <3>1, ElementOfSeq, LenProperties
  <2>2. \A i \in DOMAIN sys.sleeping : w[sys.sleeping[i]] = where[sys.sleeping[i]]
    BY <1>w, <1>x, <2>1
  <2>3. Asleep(sys, where) /\ r.sleeping = sys.sleeping
    BY Zenon, <1>i, <1>6
  <2>4. QED
    BY ONLY <2>2, <2>3, <1>a DEF Asleep
<1>12. InBarrier(r, w, here)
  <2>1. ASSUME NEW d \in Cores, r.acquired[d]
        PROVE  /\ r.slot[d] \in Threads /\ r.slot[d] \notin r.signalled
               /\ w[r.slot[d]] = "barrier" /\ here[r.slot[d]] = d
               /\ r.core[r.slot[d]] = d \/ r.clock[d] = 0
    <3>1. CASE d = c
      BY <1>1, <1>a, <1>c, <1>d, <1>w, <3>1
    <3>2. CASE d # c
      BY <1>a, <1>b, <1>c, <1>d, <1>w, <2>1, <3>2
    <3>3. QED
      BY <3>1, <3>2
  <2>2. ASSUME NEW x \in Threads, w[x] = "barrier"
        PROVE  here[x] \in Cores /\ r.acquired[here[x]] /\ r.slot[here[x]] = x
    <3>1. CASE x = t
      BY <1>1, <1>d, <3>1
    <3>2. CASE x # t
      <4>1. here[x] \in Cores /\ sys.acquired[here[x]] /\ sys.slot[here[x]] = x
        BY ZenonT(40), <1>b, <1>i, <1>w, <2>2, <3>2
      <4>2. QED
        BY <1>3, <1>d, <4>1
    <3>3. QED
      BY <3>1, <3>2
  <2>3. Clocks(sys)
    BY Zenon, <1>i DEF InBarrier, Clocks
  <2>4. Clocks(r)
    <3>1. r.next = sys.next /\ r.lastPeriodic = sys.lastPeriodic /\ ~r.disable /\ r.aborted = sys.aborted
      BY <1>6 DEF SameModes
    <3>2. QED
      BY <1>d, <2>3, <3>1 DEF Clocks
  <2>5. QED
    BY <2>1, <2>2, <2>4 DEF InBarrier, Clocks
<1>13. Mid(r, w, here)
  BY Zenon, <1>6, <1>7, <1>8, <1>9, <1>10, <1>11, <1>12, <1>i DEF Mid
<1>14. Settled(r)
  BY Zenon, <1>c, <1>i DEF Settled
<1>15. Held(r)
  <2>1. r.next = sys.next /\ r.fastforward = sys.fastforward
    BY <1>6 DEF SameModes
  <2>2. \A d \in Cores : sys.acquired[d] =>
          sys.core[sys.slot[d]] = d /\ (sys.fastforward \/ sys.clock[d] >= sys.next)
    BY Zenon, <1>i DEF Held
  <2>3. QED
    BY <1>1, <1>4, <1>c, <1>d, <2>1, <2>2 DEF Held
<1>16. r.acquired[c] /\ r.slot[c] = t
  BY <1>1, <1>d
<1>17. JustIn(r, c, t, w)
  BY <1>1, <1>2, <1>3, <1>6, <1>13, <1>14, <1>15, <1>16, <1>a DEF Ends, JustIn
<1>18. QED
  BY <1>5, <1>17

(* The thread at the barrier waits, or is the one that releases it. *)
AtBarrier(in, t) == IF IsBarrierReached(in) THEN BarrierRelease(in, t, FALSE) ELSE Answer(in, TRUE, FALSE)

(* The thread waits, or the barrier has been reached and somebody goes on. *)
LEMMA AtBarrierIs ==
  ASSUME NEW w \in [Threads -> Places], NEW h, NEW s, Ends(s, w, h), ~s.aborted, ~s.disable,
         s.signalled = {},
         NEW t \in Threads, NEW c \in Cores, s.acquired[c], s.slot[c] = t,
         NEW r, r = AtBarrier(s, t), r.s.next <= MaxTime,
         NEW v, v = IF r.wait THEN w ELSE [w EXCEPT ![t] = "check"]
  PROVE  /\ Ends(r.s, v, h) /\ Heard(r.s, v) /\ Goes(r.s, v) /\ (r.wait => t \notin r.s.signalled)
         /\ Signals(s, r.s)
<1>m. Mid(s, w, h) /\ Settled(s) /\ Held(s)
  BY DEF Ends
<1>w. w \in [Threads -> Places \union {"acting"}] /\ NoActing(w)
  BY DEF NoActing, Places
<1>1. CASE IsBarrierReached(s)
  <2>1. NoUser(w)
    BY <1>1, <1>m, <1>w, ReachedNoUser
  <2>2. r = BarrierRelease(s, t, FALSE)
    BY <1>1 DEF AtBarrier
  <2>3. PICK cont : cont = FALSE
    OBVIOUS
  <2>4. cont \in BOOLEAN /\ t \in Threads \union {NoThread} /\ r = BarrierRelease(s, t, cont)
    BY Zenon, <2>2, <2>3
  <2>5. Released(s, r, w, h, t, cont) /\ r.wait \in BOOLEAN
    BY <1>m, <1>w, <2>1, <2>4, ReleaseMid
  <2>6. Freed(s, r, w, h, t)
    BY <2>3, <2>5 DEF Released
  <2>7. /\ Settled(r.s) /\ Held(r.s) /\ Mid(r.s, Back(w, t, ~r.wait), h) /\ Signals(s, r.s)
        /\ r.wait => \E x \in Threads : w[x] = "barrier" /\ x \in r.s.signalled
        /\ t \notin r.s.signalled
    BY <2>6 DEF Freed
  <2>8. Back(w, t, ~r.wait) = v
    BY <2>5 DEF Back
  <2>9. Ends(r.s, v, h)
    BY <2>7, <2>8 DEF Ends
  <2>10. Heard(r.s, v)
    BY <2>7, HeardNobody
  <2>11. Goes(r.s, v)
    <3>1. CASE r.wait
      <4>1. \E x \in Threads : v[x] = "barrier" /\ x \in r.s.signalled
        BY <2>7, <3>1
      <4>2. QED
        BY <4>1 DEF Goes
    <3>2. CASE ~r.wait
      <4>1. v[t] = "check"
        BY <3>2
      <4>2. QED
        BY <4>1 DEF Goes
    <3>3. QED
      BY <3>1, <3>2
  <2>12. QED
    BY <2>7, <2>9, <2>10, <2>11
<1>2. CASE ~IsBarrierReached(s)
  <2>1. r = Answer(s, TRUE, FALSE)
    BY <1>2 DEF AtBarrier
  <2>2. r.s = s /\ r.wait = TRUE
    BY <2>1 DEF Answer
  <2>3. v = w
    BY <2>2
  <2>4. Heard(s, w) /\ Goes(s, w)
    BY <1>2 DEF Heard, Goes
  <2>5. QED
    BY <2>2, <2>3, <2>4, SameSignals
<1>3. QED
  BY <1>1, <1>2

(* BarrierSyncServer::synchronize. *)
LEMMA SynchronizeInv ==
  ASSUME ~FollowAborts, ThreadInv, NEW t \in Threads, Synchronize(t)
  PROVE  ThreadInv'
<1>i. /\ where \in [Threads -> Places] /\ here \in [Threads -> Cores \union {NoCore}]
      /\ sys.signalled = {} /\ sys \in Systems
  BY Zenon DEF ThreadInv, Mid
<1>0. where[t] = "user" /\ ~sys.disable
  BY DEF Synchronize
<1>1. PICK c : c = here[t]
  OBVIOUS
<1>2. PICK w : w = [where EXCEPT ![t] = "barrier"]
  BY Zenon
<1>3. PICK time \in SyncTimes(sys) :
        \E r \in {AtBarrier(Entered(
                    IF ~sys.acquired[here[t]]
                    THEN (IF sys.cthread[here[t]] = t /\ sys.cstate[here[t]] \in {"RUNNING", "INITIALIZING"}
                          THEN sys ELSE Fail(sys, "core is not running"))
                    ELSE Fail(IF sys.cthread[here[t]] = t /\ sys.cstate[here[t]] \in {"RUNNING", "INITIALIZING"}
                              THEN sys ELSE Fail(sys, "core is not running"), "core is already in the barrier"),
                    here[t], t, time), t)} :
          Commit(r.s, t, IF r.wait THEN "barrier" ELSE "check", here[t])
  BY Zenon DEF Synchronize, AtBarrier, Entered, AssertIn
<1>4. PICK s : s = Entered(sys, c, t, time)
  OBVIOUS
<1>5. /\ Ends(s, w, here) /\ SameModes(sys, s) /\ s.signalled = {}
      /\ c \in Cores /\ sys.cthread[c] = t /\ sys.cstate[c] = "RUNNING" /\ ~sys.acquired[c]
      /\ s.acquired[c] /\ s.slot[c] = t
  <2>1. JustIn(Entered(sys, c, t, time), c, t, w)
    BY Zenon, <1>0, <1>1, <1>2, EnteredEnds
  <2>2. JustIn(s, c, t, w)
    BY <1>4, <2>1
  <2>3. QED
    BY ONLY <2>2 DEF JustIn
<1>6. PICK r : r = AtBarrier(s, t)
  OBVIOUS
<1>7. Commit(r.s, t, IF r.wait THEN "barrier" ELSE "check", c)
  <2>1. /\ sys.cthread[here[t]] = t /\ sys.cstate[here[t]] \in {"RUNNING", "INITIALIZING"}
        /\ ~sys.acquired[here[t]]
    BY <1>1, <1>5
  <2>2. \E q \in {AtBarrier(Entered(sys, here[t], t, time), t)} :
          Commit(q.s, t, IF q.wait THEN "barrier" ELSE "check", here[t])
    BY <1>3, <2>1
  <2>3. QED
    BY <1>1, <1>4, <1>6, <2>2
<1>8. PICK next : next = IF r.wait THEN "barrier" ELSE "check"
  OBVIOUS
<1>9. Commit(r.s, t, next, c)
  BY <1>7, <1>8
<1>10. ~sys.aborted /\ r.s.next <= MaxTime
  BY <1>9, CommitBegins
<1>11. ~s.aborted /\ ~s.disable
  BY <1>0, <1>5, <1>10 DEF SameModes
<1>12. w \in [Threads -> Places]
  BY <1>2, <1>i DEF Places
<1>13. PICK v : v = IF r.wait THEN w ELSE [w EXCEPT ![t] = "check"]
  BY Zenon
<1>14. /\ Ends(r.s, v, here) /\ Heard(r.s, v) /\ Goes(r.s, v) /\ (r.wait => t \notin r.s.signalled)
       /\ Signals(s, r.s)
  BY ZenonT(40), <1>5, <1>6, <1>10, <1>11, <1>12, <1>13, AtBarrierIs
<1>15. v = [where EXCEPT ![t] = next]
  BY <1>2, <1>8, <1>13, <1>i
<1>k. Woken(r.s, v, Abandoned(r.s))
  <2>1. Enters(sys, s, c, t, time)
    <3>1. c \in Cores /\ time \in Nat
      BY <1>5, <1>i, SystemsType DEF SyncTimes
    <3>2. QED
      BY <1>4, <1>i, <3>1, EnteredIs
  <2>2. Woken(s, where, abandoned)
    BY <2>1, SameWoken DEF ThreadInv, Enters, SameThreads
  <2>3. where[t] # "paused" /\ \A u \in Threads : u # t => v[u] = where[u]
    BY <1>0, <1>15, <1>i
  <2>4. QED
    BY <1>14, <2>2, <2>3, StillWoken
<1>16. Done(r.s, v, here, t, next, c)
  BY <1>1, <1>8, <1>14, <1>15, <1>i, <1>k DEF Done, Places
<1>17. QED
  BY <1>9, <1>16, <1>i, CommitInv

(* A change of the barrier's modes, with which some cores may leave it. *)
LEMMA ModesInv ==
  ASSUME ThreadInv, NEW t \in Threads, where[t] = "user", NEW S \in SUBSET Cores,
         \A c \in S : sys.acquired[c], NEW r, Leaves(sys, r, S, NoThread), Clocks(r), Held(r),
         Commit(r, t, "user", here[t])
  PROVE  ThreadInv'
<1>i. /\ where \in [Threads -> Places] /\ here \in [Threads -> Cores \union {NoCore}]
      /\ sys.signalled = {} /\ sys \in Systems /\ Settled(sys) /\ InBarrier(sys, where, here)
      /\ Mid(sys, where, here)
  BY Zenon DEF ThreadInv, Mid
<1>n. NoThread \notin Threads
  BY CoresAndThreads
<1>1. \A c \in S : sys.slot[c] \in Threads /\ where[sys.slot[c]] = "barrier"
  BY <1>i DEF InBarrier
<1>2. PICK gone : gone = FALSE
  BY Zenon
<1>3. gone <=> NoThread \in {sys.slot[c] : c \in S}
  BY <1>1, <1>2, <1>n
<1>4. Back(where, NoThread, gone) = where
  BY <1>2 DEF Back
<1>5. Mid(r, where, here)
  <2>1. where \in [Threads -> Places \union {"acting"}] /\ NoThread \in Threads \union {NoThread}
    BY <1>i
  <2>2. Mid(r, Back(where, NoThread, gone), here)
    BY <1>3, <1>i, <2>1, LeavesMid
  <2>3. QED
    BY <1>4, <2>2
<1>6. Settled(r)
  BY Zenon, <1>i DEF Leaves, SameTables, Settled
<1>7. r.signalled = {sys.slot[c] : c \in S}
  <2>1. r.signalled = sys.signalled \union ({sys.slot[c] : c \in S} \ {NoThread})
    BY Zenon DEF Leaves
  <2>2. NoThread \notin {sys.slot[c] : c \in S}
    BY <1>2, <1>3
  <2>3. QED
    BY <1>i, <2>1, <2>2
<1>8. Heard(r, where)
  BY <1>1, <1>7 DEF Heard
<1>9. Goes(r, where)
  BY DEF Goes
<1>10. where = [where EXCEPT ![t] = "user"]
  BY <1>i
<1>k. Woken(r, where, Abandoned(r))
  BY Zenon, SameWoken, MoreAbandoned DEF ThreadInv, Leaves
<1>11. Done(r, where, here, t, "user", here[t])
  BY <1>5, <1>6, <1>8, <1>9, <1>10, <1>i, <1>k DEF Done, Places, Ends
<1>12. QED
  BY <1>11, <1>i, CommitInv

(* The modes of the barrier, with its time, are all that differs. *)
Switched(s, q) ==
    /\ q \in Systems /\ SameThreads(s, q) /\ SameTables(s, q) /\ q.clock = s.clock
    /\ q.waiter = s.waiter /\ q.sleeping = s.sleeping /\ q.acquired = s.acquired /\ q.slot = s.slot
    /\ q.failed = s.failed /\ q.lastPeriodic = s.lastPeriodic /\ q.aborted = s.aborted
    /\ s.next <= q.next

(* Nobody leaves the barrier, and its clocks are still right. *)
LEMMA SwitchedLeaves ==
  ASSUME ThreadInv, NEW q, Switched(sys, q), q.disable => sys.disable, NEW S, S = {}
  PROVE  Leaves(sys, q, S, NoThread) /\ Clocks(q)
<1>m. /\ sys \in Systems /\ sys.failed \subseteq {"application deadlocked", "advance spins"}
      /\ InBarrier(sys, where, here)
  BY Zenon DEF ThreadInv, Mid
<1>t. sys.clock \in [Cores -> Nat] /\ sys.next \in Nat /\ sys.lastPeriodic \in Nat
  BY Zenon, <1>m, SystemsType
<1>q. q \in Systems /\ q.next \in Nat
  BY SystemsType DEF Switched
<1>1. Clocks(sys)
  BY Zenon, <1>m DEF InBarrier, Clocks
<1>2. /\ q.clock = sys.clock /\ q.acquired = sys.acquired /\ q.aborted = sys.aborted
      /\ q.lastPeriodic = sys.lastPeriodic /\ sys.next <= q.next
  BY DEF Switched
<1>3. Clocks(q)
  BY <1>t, <1>q, <1>1, <1>2 DEF Clocks
<1>4. Leaves(sys, q, S, NoThread)
  BY Zenon, <1>m DEF Switched, Leaves, SameThreads
<1>5. QED
  BY <1>3, <1>4

(* BarrierSyncServer::abortBarrier. *)
Aborts(q, r) ==
    /\ r \in Systems /\ SameTables(q, r) /\ r.clock = q.clock
    /\ r.status = q.status /\ r.reason = q.reason /\ r.runnable = q.runnable
    /\ r.waiter = q.waiter /\ r.sleeping = q.sleeping /\ r.failed = q.failed
    /\ r.next = q.next /\ r.lastPeriodic = q.lastPeriodic
    /\ \A c \in Cores : ~r.acquired[c]
    /\ \A c \in Cores : ~q.acquired[c] => r.slot[c] = q.slot[c]
    /\ r.signalled = q.signalled \union ({q.slot[c] : c \in {d \in Cores : q.acquired[d]}} \ {NoThread})
    /\ r.aborted <=> (q.aborted \/ \E c \in Cores : q.acquired[c] /\ q.clock[c] >= q.next)

(* A state with or without a stale clock is a state. *)
LEMMA AbortedType ==
  ASSUME NEW s \in Systems, NEW b \in BOOLEAN
  PROVE  [s EXCEPT !.aborted = b] \in Systems
BY Zenon DEF Systems

(* What abortBarrier changes. *)
LEMMA AbortIs ==
  ASSUME NEW q \in Systems, \A c \in Cores : q.acquired[c] => q.slot[c] \in Threads
  PROVE  Aborts(q, AbortBarrier(q))
<1>t. /\ q.clock \in [Cores -> Nat] /\ q.acquired \in [Cores -> BOOLEAN] /\ q.aborted \in BOOLEAN
      /\ q.slot \in [Cores -> Threads \union {NoThread}] /\ q.signalled \in SUBSET Threads
  BY SystemsType
<1>1. PICK S : S = {c \in Cores : q.acquired[c]}
  BY Zenon
<1>2. PICK acquired : acquired = [c \in Cores |-> q.acquired[c] /\ c \notin S]
  BY Zenon
<1>3. PICK slot : slot = [c \in Cores |-> IF c \in S THEN NoThread ELSE q.slot[c]]
  BY Zenon
<1>4. PICK signalled : signalled = q.signalled \union ({q.slot[c] : c \in S} \ {NoThread})
  BY Zenon
<1>5. PICK b : b = (q.aborted \/ \E c \in Cores : q.acquired[c] /\ q.clock[c] >= q.next)
  OBVIOUS
<1>6. /\ acquired \in [Cores -> BOOLEAN] /\ slot \in [Cores -> Threads \union {NoThread}]
      /\ signalled \in SUBSET Threads /\ b \in BOOLEAN
  <2>1. signalled \in SUBSET Threads
    BY <1>1, <1>4, <1>t
  <2>2. acquired \in [Cores -> BOOLEAN] /\ slot \in [Cores -> Threads \union {NoThread}]
    BY <1>1, <1>2, <1>3, <1>t
  <2>3. b \in BOOLEAN
    BY <1>5
  <2>4. QED
    BY <2>1, <2>2, <2>3
<1>7. PICK a : a = [q EXCEPT !.acquired = acquired, !.slot = slot, !.signalled = signalled]
  OBVIOUS
<1>8. a \in Systems
  BY Zenon, <1>6, <1>7, LeftType
<1>9. LeaveBarrier(q, S, NoThread) = a
  BY <1>2, <1>3, <1>4, <1>7 DEF LeaveBarrier, Systems
<1>10. PICK r : r = [a EXCEPT !.aborted = b]
  BY Zenon
<1>11. a.aborted = q.aborted
  BY <1>7 DEF Systems
<1>12. AbortBarrier(q) = r
  BY <1>1, <1>5, <1>9, <1>10, <1>11 DEF AbortBarrier
<1>13. r \in Systems
  BY <1>6, <1>8, <1>10, AbortedType
<1>14. /\ SameTables(q, a) /\ a.clock = q.clock
       /\ a.status = q.status /\ a.reason = q.reason /\ a.runnable = q.runnable
       /\ a.waiter = q.waiter /\ a.sleeping = q.sleeping /\ a.failed = q.failed
       /\ a.next = q.next /\ a.lastPeriodic = q.lastPeriodic
       /\ a.acquired = acquired /\ a.slot = slot /\ a.signalled = signalled
  BY <1>7 DEF Systems, SameTables
<1>15. /\ SameTables(a, r) /\ r.clock = a.clock
       /\ r.status = a.status /\ r.reason = a.reason /\ r.runnable = a.runnable
       /\ r.waiter = a.waiter /\ r.sleeping = a.sleeping /\ r.failed = a.failed
       /\ r.next = a.next /\ r.lastPeriodic = a.lastPeriodic
       /\ r.acquired = a.acquired /\ r.slot = a.slot /\ r.signalled = a.signalled
       /\ r.aborted = b
  BY <1>8, <1>10 DEF Systems, SameTables
<1>16. \A c \in Cores : ~acquired[c]
  BY Zenon, <1>1, <1>2
<1>17. \A c \in Cores : ~q.acquired[c] => slot[c] = q.slot[c]
  BY <1>1, <1>3
<1>18. SameTables(q, r)
  BY <1>14, <1>15 DEF SameTables
<1>19. r.aborted <=> (q.aborted \/ \E c \in Cores : q.acquired[c] /\ q.clock[c] >= q.next)
  BY Zenon, <1>5, <1>15
<1>20. r.signalled = q.signalled \union ({q.slot[c] : c \in {d \in Cores : q.acquired[d]}} \ {NoThread})
  BY <1>1, <1>4, <1>14, <1>15
<1>21. Aborts(q, r)
  BY <1>13, <1>14, <1>15, <1>16, <1>17, <1>18, <1>19, <1>20 DEF Aborts
<1>22. QED
  BY <1>12, <1>21

(* With abortBarrier everybody leaves the barrier. *)
LEMMA AbortLeaves ==
  ASSUME ThreadInv, NEW q, Switched(sys, q), NEW S, S = {c \in Cores : sys.acquired[c]},
         NEW r, r = AbortBarrier(q)
  PROVE  Leaves(sys, r, S, NoThread) /\ Clocks(r) /\ Held(r)
<1>m. /\ sys \in Systems /\ sys.failed \subseteq {"application deadlocked", "advance spins"}
      /\ InBarrier(sys, where, here)
  BY Zenon DEF ThreadInv, Mid
<1>t. sys.clock \in [Cores -> Nat] /\ sys.next \in Nat /\ sys.lastPeriodic \in Nat
  BY Zenon, <1>m, SystemsType
<1>q. q \in Systems /\ q.next \in Nat
  BY SystemsType DEF Switched
<1>1. Clocks(sys) /\ \A c \in Cores : sys.acquired[c] => sys.slot[c] \in Threads
  BY Zenon, <1>m DEF InBarrier, Clocks
<1>2. /\ SameThreads(sys, q) /\ SameTables(sys, q) /\ q.clock = sys.clock
      /\ q.waiter = sys.waiter /\ q.sleeping = sys.sleeping /\ q.acquired = sys.acquired
      /\ q.slot = sys.slot /\ q.failed = sys.failed /\ q.lastPeriodic = sys.lastPeriodic
      /\ q.aborted = sys.aborted /\ sys.next <= q.next
  BY DEF Switched
<1>3. Aborts(q, r)
  <2>1. \A c \in Cores : q.acquired[c] => q.slot[c] \in Threads
    BY <1>1, <1>2
  <2>2. QED
    BY <1>q, <2>1, AbortIs
<1>4. /\ r \in Systems /\ SameTables(q, r) /\ r.clock = q.clock
      /\ r.status = q.status /\ r.reason = q.reason /\ r.runnable = q.runnable
      /\ r.waiter = q.waiter /\ r.sleeping = q.sleeping /\ r.failed = q.failed
      /\ r.next = q.next /\ r.lastPeriodic = q.lastPeriodic
      /\ \A c \in Cores : ~r.acquired[c]
      /\ \A c \in Cores : ~q.acquired[c] => r.slot[c] = q.slot[c]
      /\ r.signalled = q.signalled \union ({q.slot[c] : c \in {d \in Cores : q.acquired[d]}} \ {NoThread})
      /\ r.aborted <=> (q.aborted \/ \E c \in Cores : q.acquired[c] /\ q.clock[c] >= q.next)
  BY ONLY <1>3 DEF Aborts
<1>5. Clocks(r)
  <2>1. ASSUME NEW c \in Cores, ~r.aborted PROVE r.clock[c] < r.next
    <3>1. ~sys.aborted /\ r.clock[c] = sys.clock[c] /\ r.next = q.next
      BY <1>2, <1>4, <2>1
    <3>2. CASE sys.acquired[c]
      <4>1. ~(sys.clock[c] >= q.next)
        BY <1>2, <1>4, <2>1, <3>2
      <4>2. QED
        BY <1>t, <1>q, <3>1, <4>1
    <3>3. CASE ~sys.acquired[c]
      <4>1. sys.clock[c] < sys.next
        BY <1>1, <3>1, <3>3 DEF Clocks
      <4>2. QED
        BY <1>2, <1>t, <1>q, <3>1, <4>1
    <3>4. QED
      BY <3>2, <3>3
  <2>2. r.lastPeriodic <= r.next
    <3>1. sys.lastPeriodic <= sys.next /\ r.lastPeriodic = sys.lastPeriodic /\ r.next = q.next
      BY <1>1, <1>2, <1>4 DEF Clocks
    <3>2. QED
      BY <1>2, <1>t, <1>q, <3>1
  <2>3. QED
    BY <1>4, <2>1, <2>2 DEF Clocks
<1>6. Held(r)
  BY <1>4 DEF Held
<1>7. Leaves(sys, r, S, NoThread)
  <2>1. SameTables(sys, r)
    BY <1>2, <1>4 DEF SameTables
  <2>2. r.status = sys.status /\ r.reason = sys.reason /\ r.runnable = sys.runnable
    BY <1>2, <1>4 DEF SameThreads
  <2>3. q.signalled = sys.signalled
    BY <1>2 DEF SameThreads
  <2>4. r.signalled = sys.signalled \union ({sys.slot[c] : c \in S} \ {NoThread})
    BY <1>2, <1>4, <2>3
  <2>5. \A c \in Cores : r.acquired[c] <=> (sys.acquired[c] /\ c \notin S)
    BY <1>4
  <2>6. \A c \in Cores \ S : r.slot[c] = sys.slot[c] /\ r.clock[c] = sys.clock[c]
    BY <1>2, <1>4
  <2>7. QED
    BY Zenon, <1>2, <1>4, <1>m, <2>1, <2>2, <2>4, <2>5, <2>6 DEF Leaves
<1>8. QED
  BY <1>5, <1>6, <1>7

(* Simulator::setInstrumentationMode: BarrierSyncServer::setDisable. *)
LEMMA SetDisableInv ==
  ASSUME ThreadInv, NEW t \in Threads, SetDisable(t)
  PROVE  ThreadInv'
<1>m. sys \in Systems /\ Held(sys)
  BY Zenon DEF ThreadInv, Mid
<1>t. sys.disable \in BOOLEAN /\ sys.next \in Nat
  BY <1>m, SystemsType
<1>1. PICK b : b = ~sys.disable
  OBVIOUS
<1>2. PICK q : q = [sys EXCEPT !.disable = b]
  BY Zenon
<1>3. PICK r : r = IF q.disable THEN AbortBarrier(q) ELSE q
  OBVIOUS
<1>4. where[t] = "user" /\ Commit(r, t, "user", here[t])
  BY <1>1, <1>2, <1>3 DEF SetDisable
<1>5. Switched(sys, q) /\ q.disable = b /\ q.fastforward = sys.fastforward /\ q.next = sys.next
  <2>1. q \in Systems
    <3>1. b \in BOOLEAN
      BY <1>1
    <3>2. QED
      BY Zenon, <1>2, <1>m, <3>1 DEF Systems
  <2>2. sys.next <= sys.next
    BY <1>t, AtMostItself
  <2>3. QED
    BY ZenonT(40), <1>2, <1>m, <2>1, <2>2 DEF Systems, Switched, SameThreads, SameTables
<1>6. CASE q.disable
  <2>1. PICK S : S = {c \in Cores : sys.acquired[c]}
    BY Zenon
  <2>2. r = AbortBarrier(q)
    BY <1>3, <1>6
  <2>3. Leaves(sys, r, S, NoThread) /\ Clocks(r) /\ Held(r)
    BY <1>5, <2>1, <2>2, AbortLeaves
  <2>4. S \in SUBSET Cores /\ \A c \in S : sys.acquired[c]
    BY <2>1
  <2>5. QED
    BY <1>4, <2>3, <2>4, ModesInv
<1>7. CASE ~q.disable
  <2>1. PICK S : S = {}
    BY Zenon
  <2>2. r = q
    BY <1>3, <1>7
  <2>3. Leaves(sys, r, S, NoThread) /\ Clocks(r)
    BY <1>5, <1>7, <2>1, <2>2, SwitchedLeaves
  <2>4. Held(r)
    BY <1>5, <1>m, <2>2 DEF Held, Switched, SameTables
  <2>5. S \in SUBSET Cores /\ \A c \in S : sys.acquired[c]
    BY <2>1
  <2>6. QED
    BY <1>4, <2>3, <2>4, <2>5, ModesInv
<1>8. QED
  BY <1>6, <1>7

(* FastForwardPerformanceManager::step and disable. *)
LEMMA SetFastForwardInv ==
  ASSUME ThreadInv, NEW t \in Threads, SetFastForward(t)
  PROVE  ThreadInv'
<1>m. sys \in Systems
  BY Zenon DEF ThreadInv, Mid
<1>t. sys.fastforward \in BOOLEAN /\ sys.next \in Nat \ {0}
  BY <1>m, SystemsType
<1>1. PICK b : b = ~sys.fastforward
  OBVIOUS
<1>2. PICK latest \in {sys.next, sys.next + 1} :
        /\ where[t] = "user"
        /\ Commit(IF sys.fastforward THEN AbortBarrier([sys EXCEPT !.fastforward = ~@, !.next = latest])
                  ELSE [sys EXCEPT !.fastforward = ~@, !.next = latest], t, "user", here[t])
  BY Zenon DEF SetFastForward
<1>3. PICK q : q = [sys EXCEPT !.fastforward = b, !.next = latest]
  OBVIOUS
<1>4. q = [sys EXCEPT !.fastforward = ~@, !.next = latest]
  BY <1>1, <1>3
<1>5. PICK r : r = IF sys.fastforward THEN AbortBarrier(q) ELSE q
  OBVIOUS
<1>6. where[t] = "user" /\ Commit(r, t, "user", here[t])
  BY <1>2, <1>4, <1>5
<1>7. Switched(sys, q) /\ q.disable = sys.disable /\ q.fastforward = b
  <2>1. q \in Systems
    <3>1. b \in BOOLEAN /\ latest \in Nat \ {0}
      BY <1>1, <1>2, <1>t
    <3>2. QED
      BY ZenonT(40), <1>3, <1>m, <3>1 DEF Systems
  <2>2. sys.next <= latest
    BY <1>2, <1>t
  <2>3. /\ SameThreads(sys, q) /\ SameTables(sys, q)
        /\ q.fastforward = b /\ q.next = latest /\ q.disable = sys.disable
    BY <1>3, <1>m DEF Systems, SameThreads, SameTables
  <2>4. /\ q.waiter = sys.waiter /\ q.sleeping = sys.sleeping /\ q.acquired = sys.acquired
        /\ q.slot = sys.slot /\ q.clock = sys.clock /\ q.failed = sys.failed
        /\ q.aborted = sys.aborted /\ q.lastPeriodic = sys.lastPeriodic
    BY <1>3, <1>m DEF Systems
  <2>5. QED
    BY <2>1, <2>2, <2>3, <2>4 DEF Switched
<1>8. CASE sys.fastforward
  <2>1. PICK S : S = {c \in Cores : sys.acquired[c]}
    BY Zenon
  <2>2. r = AbortBarrier(q)
    BY <1>5, <1>8
  <2>3. Leaves(sys, r, S, NoThread) /\ Clocks(r) /\ Held(r)
    BY <1>7, <2>1, <2>2, AbortLeaves
  <2>4. S \in SUBSET Cores /\ \A c \in S : sys.acquired[c]
    BY <2>1
  <2>5. QED
    BY <1>6, <2>3, <2>4, ModesInv
<1>9. CASE ~sys.fastforward
  <2>1. PICK S : S = {}
    BY Zenon
  <2>2. r = q
    BY <1>5, <1>9
  <2>3. Leaves(sys, r, S, NoThread) /\ Clocks(r)
    BY <1>7, <2>1, <2>2, SwitchedLeaves
  <2>4. Held(r)
    <3>1. Held(sys)
      BY DEF ThreadInv
    <3>2. /\ r.acquired = sys.acquired /\ r.slot = sys.slot /\ r.core = sys.core /\ r.fastforward
      BY Zenon, <1>1, <1>7, <1>9, <2>2 DEF Switched, SameTables
    <3>3. QED
      BY <3>1, <3>2 DEF Held
  <2>5. S \in SUBSET Cores /\ \A c \in S : sys.acquired[c]
    BY <2>1
  <2>6. QED
    BY <1>6, <2>3, <2>4, <2>5, ModesInv
<1>10. QED
  BY <1>8, <1>9

(* There is a core 0. *)
LEMMA ZeroIsCore == 0 \in Cores
<1>1. Cores # {} /\ Cores = 0 .. (Cardinality(Cores) - 1) /\ Cardinality(Cores) \in Nat
  BY ThreadSystemAssumption
<1>2. PICK n : n = Cardinality(Cores)
  OBVIOUS
<1>3. n \in Nat /\ Cores = 0 .. (n - 1) /\ Cores # {}
  BY <1>1, <1>2
<1>4. QED
  BY <1>3

(* The state of the servers before the first thread. *)
LEMMA InitialSysIs ==
  ASSUME NEW policy \in {"pinned", "roaming"}, NEW mode \in {"detailed", "fastforward", "disabled"},
         NEW s, s = InitialSys(policy, mode)
  PROVE  /\ s \in Systems /\ s.failed = {} /\ s.signalled = {} /\ s.next = 1 /\ s.lastPeriodic = 0
         /\ s.sleeping = <<>> /\ s.core = [t \in Threads |-> NoCore]
         /\ s.coreRunning = [t \in Threads |-> NoCore]
         /\ s.cthread = [c \in Cores |-> NoThread] /\ s.running = [c \in Cores |-> NoThread]
         /\ s.cstate = [c \in Cores |-> "IDLE"] /\ s.status = [t \in Threads |-> "none"]
         /\ s.runnable = [t \in Threads |-> FALSE] /\ s.waiter = [t \in Threads |-> NoThread]
         /\ s.acquired = [c \in Cores |-> FALSE] /\ s.clock = [c \in Cores |-> 0]
<1>1. 0 \in Cores /\ Quantum \in Nat
  BY ZeroIsCore, ThreadSystemAssumption
<1>2. 0 \in 0 .. Quantum
  BY <1>1
<1>3. /\ s.failed = {} /\ s.signalled = {} /\ s.next = 1 /\ s.lastPeriodic = 0
      /\ s.sleeping = <<>> /\ s.core = [t \in Threads |-> NoCore]
      /\ s.coreRunning = [t \in Threads |-> NoCore]
      /\ s.cthread = [c \in Cores |-> NoThread] /\ s.running = [c \in Cores |-> NoThread]
      /\ s.cstate = [c \in Cores |-> "IDLE"] /\ s.status = [t \in Threads |-> "none"]
      /\ s.runnable = [t \in Threads |-> FALSE] /\ s.waiter = [t \in Threads |-> NoThread]
      /\ s.acquired = [c \in Cores |-> FALSE] /\ s.clock = [c \in Cores |-> 0]
  BY DEF InitialSys
<1>4. s \in Systems
  BY <1>1, <1>2 DEF InitialSys, Systems, Statuses, Reasons
<1>5. QED
  BY <1>3, <1>4

(* The initial states. *)
LEMMA InitInv ==
  ASSUME Init
  PROVE  ThreadInv
<1>1. PICK policy \in {"pinned", "roaming"}, mode \in {"detailed", "fastforward", "disabled"} :
        sys = InitialSys(policy, mode)
  BY DEF Init
<1>2. where = [t \in Threads |-> "none"] /\ here = [t \in Threads |-> NoCore]
  BY DEF Init
<1>s. /\ sys \in Systems /\ sys.failed = {} /\ sys.signalled = {} /\ sys.next = 1 /\ sys.lastPeriodic = 0
      /\ sys.sleeping = <<>> /\ sys.core = [t \in Threads |-> NoCore]
      /\ sys.coreRunning = [t \in Threads |-> NoCore]
      /\ sys.cthread = [c \in Cores |-> NoThread] /\ sys.running = [c \in Cores |-> NoThread]
      /\ sys.cstate = [c \in Cores |-> "IDLE"] /\ sys.status = [t \in Threads |-> "none"]
      /\ sys.runnable = [t \in Threads |-> FALSE] /\ sys.waiter = [t \in Threads |-> NoThread]
      /\ sys.acquired = [c \in Cores |-> FALSE] /\ sys.clock = [c \in Cores |-> 0]
  BY ZenonT(40), <1>1, InitialSysIs
<1>n. NoCore \notin Cores /\ NoThread \notin Threads
  BY CoresAndThreads
<1>3. Tables(sys)
  BY ONLY <1>s, <1>n DEF Tables
<1>4. Placed(sys, where)
  BY ONLY <1>s DEF Placed
<1>5. Ready(sys)
  BY ONLY <1>s DEF Ready
<1>6. AtPlaces(sys, where, here)
  BY ONLY <1>s, <1>2 DEF AtPlaces
<1>7. Waits(sys, where)
  BY ONLY <1>s, <1>2, <1>n DEF Waits
<1>8. Asleep(sys, where)
  <2>1. DOMAIN sys.sleeping = {}
    BY ONLY <1>s
  <2>2. QED
    BY ONLY <2>1 DEF Asleep
<1>9. InBarrier(sys, where, here)
  BY ONLY <1>s, <1>2 DEF InBarrier
<1>10. Mid(sys, where, here)
  BY <1>s, <1>3, <1>4, <1>5, <1>6, <1>7, <1>8, <1>9 DEF Mid
<1>11. Settled(sys) /\ Held(sys)
  BY ONLY <1>s DEF Settled, Held
<1>12. ~IsBarrierReached(sys)
  <2>1. Cores # {}
    BY ThreadSystemAssumption
  <2>2. \A c \in Cores : ~IsCoreRunning(sys, c)
    BY ONLY <1>s DEF IsCoreRunning
  <2>3. QED
    BY <1>s, <2>2 DEF IsBarrierReached
<1>13. sys.next <= MaxTime
  BY <1>s, ThreadSystemAssumption
<1>14. where \in [Threads -> Places] /\ here \in [Threads -> Cores \union {NoCore}]
  BY <1>2 DEF Places
<1>k. Woken(sys, where, abandoned) /\ abandoned \subseteq Threads
  <2>1. abandoned = {}
    BY DEF Init
  <2>2. Woken(sys, where, abandoned)
    BY ONLY <1>s DEF Woken
  <2>3. QED
    BY <2>1, <2>2
<1>15. QED
  BY <1>s, <1>10, <1>11, <1>12, <1>13, <1>14, <1>k DEF ThreadInv

(* Nothing changes. *)
LEMMA StutterInv ==
  ASSUME ThreadInv, UNCHANGED vars
  PROVE  ThreadInv'
<1>1. sys' = sys /\ where' = where /\ here' = here /\ abandoned' = abandoned
  BY DEF vars
<1>2. Mid(sys', where', here') /\ Settled(sys') /\ Held(sys') /\ sys'.signalled = {} /\ sys'.next <= MaxTime
  BY <1>1 DEF ThreadInv
<1>3. Stuck(sys', where') => ~IsBarrierReached(sys')
  BY <1>1 DEF ThreadInv
<1>4. where' \in [Threads -> Places] /\ here' \in [Threads -> Cores \union {NoCore}]
  BY <1>1 DEF ThreadInv
<1>5. Woken(sys', where', abandoned') /\ abandoned' \subseteq Threads
  BY <1>1 DEF ThreadInv
<1>6. QED
  BY <1>2, <1>3, <1>4, <1>5 DEF ThreadInv

(* Every step of every thread. *)
LEMMA NextInv ==
  ASSUME ~FollowAborts, ThreadInv, Next
  PROVE  ThreadInv'
<1>1. PICK t \in Threads :
        \/ Spawn(t) \/ Start(t) \/ Exit(t) \/ CheckScheduled(t) \/ Synchronize(t)
        \/ Sleep(t) \/ Block(t) \/ Pause(t) \/ EndPause(t) \/ Yield(t)
        \/ SetDisable(t) \/ SetFastForward(t)
        \/ \E u \in Threads : Join(u, t) \/ WaitForThreadStart(u, t) \/ Wake(u, t)
        \/ \E u \in Threads, mask \in SUBSET Cores : SetAffinity(u, t, mask)
  BY DEF Next
<1>2. CASE Spawn(t)
  BY <1>2, SpawnInv
<1>3. CASE Start(t)
  BY <1>3, StartInv
<1>4. CASE Exit(t)
  BY <1>4, ExitInv
<1>5. CASE CheckScheduled(t)
  BY <1>5, CheckScheduledInv
<1>6. CASE Synchronize(t)
  BY <1>6, SynchronizeInv
<1>7. CASE Sleep(t)
  BY <1>7, SleepInv
<1>8. CASE Block(t)
  BY <1>8, BlockInv
<1>9. CASE Pause(t)
  BY <1>9, PauseInv
<1>10. CASE EndPause(t)
  BY <1>10, EndPauseInv
<1>11. CASE Yield(t)
  BY <1>11, YieldInv
<1>12. CASE SetDisable(t)
  BY <1>12, SetDisableInv
<1>13. CASE SetFastForward(t)
  BY <1>13, SetFastForwardInv
<1>14. CASE \E u \in Threads : Join(u, t) \/ WaitForThreadStart(u, t) \/ Wake(u, t)
  <2>1. PICK u \in Threads : Join(u, t) \/ WaitForThreadStart(u, t) \/ Wake(u, t)
    BY <1>14
  <2>2. CASE Join(u, t)
    BY <2>2, JoinInv
  <2>3. CASE WaitForThreadStart(u, t)
    BY <2>3, WaitForThreadStartInv
  <2>4. CASE Wake(u, t)
    BY <2>4, WakeInv
  <2>5. QED
    BY <2>1, <2>2, <2>3, <2>4
<1>15. CASE \E u \in Threads, mask \in SUBSET Cores : SetAffinity(u, t, mask)
  BY <1>15, SetAffinityInv
<1>16. QED
  BY <1>1, <1>2, <1>3, <1>4, <1>5, <1>6, <1>7, <1>8, <1>9, <1>10, <1>11, <1>12, <1>13, <1>14, <1>15

(* The tables of scheduler, thread manager and cores are one placement. *)
LEMMA InvPlaces ==
  ASSUME ThreadInv
  PROVE  PlacementCorrect
<1>n. NoCore \notin Cores /\ NoThread \notin Threads
  BY CoresAndThreads
<1>m. /\ sys \in Systems /\ Tables(sys) /\ Placed(sys, where) /\ AtPlaces(sys, where, here)
      /\ where \in [Threads -> Places] /\ sys.core = sys.coreRunning
  BY Zenon DEF ThreadInv, Mid, Settled
<1>1. TypeOK
  <2>1. sys.next \in Nat \ {0} /\ sys.next <= MaxTime /\ sys.signalled = {} /\ MaxTime \in Nat
    BY <1>m, SystemsType, ThreadSystemAssumption DEF ThreadInv
  <2>2. sys.next \in 1 .. MaxTime
    BY <2>1
  <2>3. QED
    BY <1>m, <2>1, <2>2 DEF TypeOK, ThreadInv
<1>2. \A t \in Threads, c \in Cores : (sys.core[t] = c) <=> (sys.cthread[c] = t)
  BY <1>m DEF Tables
<1>3. sys.cthread = sys.running
  <2>1. sys.cthread \in [Cores -> Threads \union {NoThread}] /\ sys.running \in [Cores -> Threads \union {NoThread}]
    BY <1>m, SystemsType
  <2>2. \A t \in Threads, c \in Cores : (sys.running[c] = t) <=> (sys.cthread[c] = t)
    BY <1>m, <1>2 DEF Tables
  <2>3. SUFFICES ASSUME NEW c \in Cores PROVE sys.cthread[c] = sys.running[c]
    BY <2>1
  <2>4. /\ sys.cthread[c] \in Threads \union {NoThread} /\ sys.running[c] \in Threads \union {NoThread}
    BY <2>1
  <2>5. QED
    BY <2>2, <2>4, <1>n
<1>4. \A c \in Cores : sys.cstate[c] = "RUNNING" => sys.cthread[c] # NoThread
  BY <1>m DEF Tables
<1>5. UserOnCore
  <2>1. SUFFICES ASSUME NEW t \in Threads, where[t] = "user"
                 PROVE  sys.core[t] = here[t] /\ sys.cstate[here[t]] = "RUNNING" /\ sys.status[t] = "RUNNING"
    BY DEF UserOnCore
  <2>2. sys.status[t] = "RUNNING" /\ sys.core[t] = here[t] /\ here[t] \in Cores
    BY <1>m, <2>1 DEF AtPlaces
  <2>3. sys.coreRunning[t] # NoCore /\ sys.core[t] # NoCore
    BY <1>m, <1>n, <2>2
  <2>4. sys.cstate[sys.core[t]] = sys.status[t]
    BY <1>m, <2>1, <2>3 DEF Placed
  <2>5. QED
    BY <2>2, <2>4
<1>6. QED
  BY <1>m, <1>1, <1>2, <1>3, <1>4, <1>5 DEF PlacementCorrect, PlacementAgrees

(* A thread the servers count as running is in the barrier if nobody can go   *)
(* on: what it waits for in waitForThreadStart has not started yet.           *)
LEMMA RunningInBarrier ==
  ASSUME ThreadInv, \A t \in Threads : where[t] \notin {"created", "user", "check"},
         NEW t \in Threads, sys.status[t] \in {"RUNNING", "INITIALIZING"}
  PROVE  where[t] = "barrier"
<1>m. AtPlaces(sys, where, here) /\ Waits(sys, where) /\ sys.signalled = {} /\ where \in [Threads -> Places]
  BY Zenon DEF ThreadInv, Mid
<1>1. where[t] \in Places /\ where[t] \notin {"created", "user", "check"}
  BY <1>m
<1>2. where[t] \notin {"none", "stalled", "paused", "exited"}
  BY <1>m DEF AtPlaces
<1>3. where[t] # "startwait"
  <2>1. SUFFICES ASSUME where[t] = "startwait" PROVE FALSE
    OBVIOUS
  <2>2. PICK u \in Threads : where[u] \in {"created", "acting"}
    BY <1>m, <2>1 DEF Waits
  <2>3. where[u] \in Places /\ where[u] # "created"
    BY <1>m
  <2>4. QED
    BY <2>2, <2>3 DEF Places
<1>4. QED
  BY <1>1, <1>2, <1>3 DEF Places

(* A thread in the barrier holds the core it runs on, and has reached the     *)
(* time the barrier waits for.                                                *)
LEMMA BarrierHolds ==
  ASSUME ThreadInv, NEW t \in Threads, where[t] = "barrier"
  PROVE  /\ here[t] \in Cores /\ sys.acquired[here[t]] /\ sys.slot[here[t]] = t
         /\ sys.core[t] = here[t] /\ (sys.fastforward \/ sys.clock[here[t]] >= sys.next)
<1>m. InBarrier(sys, where, here) /\ sys.signalled = {} /\ Held(sys)
  BY Zenon DEF ThreadInv, Mid
<1>1. here[t] \in Cores /\ sys.acquired[here[t]] /\ sys.slot[here[t]] = t
  BY <1>m DEF InBarrier
<1>2. QED
  BY <1>m, <1>1 DEF Held

(* Whoever the servers count as running, somebody can go on: were all of them *)
(* in the barrier, it would have been reached, and a step that reaches it     *)
(* releases it.                                                               *)
LEMMA InvGoes ==
  ASSUME ThreadInv
  PROVE  RunningCanGo
<1>n. NoCore \notin Cores /\ NoThread \notin Threads
  BY CoresAndThreads
<1>m. /\ sys \in Systems /\ Tables(sys) /\ Placed(sys, where) /\ InBarrier(sys, where, here)
      /\ where \in [Threads -> Places] /\ sys.core = sys.coreRunning
  BY Zenon DEF ThreadInv, Mid, Settled
<1>1. SUFFICES ASSUME AnyThreadRunning(sys), sys.failed = {},
                      \A t \in Threads : where[t] \notin {"created", "user", "check"}
               PROVE  FALSE
  BY DEF RunningCanGo
<1>2. PICK t \in Threads : sys.status[t] \in {"RUNNING", "INITIALIZING"}
  BY <1>1 DEF AnyThreadRunning
<1>3. where[t] = "barrier"
  BY <1>1, <1>2, RunningInBarrier
<1>4. PICK c \in Cores : c = here[t]
  BY <1>3, BarrierHolds
<1>5. sys.acquired[c] /\ sys.slot[c] = t /\ sys.core[t] = c
  BY <1>3, <1>4, BarrierHolds
<1>6. ~sys.disable
  BY <1>m, <1>5 DEF InBarrier
<1>7. ~IsBarrierReached(sys)
  BY <1>1, <1>6 DEF ThreadInv, Stuck
<1>8. IsCoreRunning(sys, c)
  <2>1. sys.status[t] = "RUNNING"
    BY Zenon, <1>3 DEF ThreadInv, Mid, AtPlaces
  <2>2. sys.coreRunning[t] # NoCore /\ sys.core[t] # NoCore /\ where[t] # "acting"
    BY <1>m, <1>n, <1>3, <1>5
  <2>3. sys.cstate[c] = "RUNNING"
    BY <1>m, <1>5, <2>1, <2>2 DEF Placed
  <2>4. sys.cthread[c] = t
    BY <1>m, <1>5 DEF Tables
  <2>5. QED
    BY <1>n, <2>1, <2>3, <2>4 DEF IsCoreRunning
<1>9. \A d \in Cores : IsCoreRunning(sys, d) =>
        sys.acquired[d] /\ (sys.fastforward \/ sys.clock[d] >= sys.next)
  <2>1. SUFFICES ASSUME NEW d \in Cores, IsCoreRunning(sys, d)
                 PROVE  sys.acquired[d] /\ (sys.fastforward \/ sys.clock[d] >= sys.next)
    OBVIOUS
  <2>2. sys.cthread[d] # NoThread
    BY <1>m, <2>1 DEF IsCoreRunning, Tables
  <2>3. PICK u \in Threads : sys.cthread[d] = u
    <3>1. sys.cthread[d] \in Threads \union {NoThread}
      BY <1>m, SystemsType
    <3>2. QED
      BY <2>2, <3>1
  <2>4. sys.core[u] = d /\ sys.coreRunning[u] # NoCore
    BY <1>m, <1>n, <2>3 DEF Tables
  <2>5. where[u] # "acting"
    <3>1. where[u] \in Places
      BY <1>m
    <3>2. QED
      BY <3>1 DEF Places
  <2>6. sys.status[u] \in {"RUNNING", "INITIALIZING"}
    BY <1>m, <2>4, <2>5 DEF Placed
  <2>7. where[u] = "barrier"
    BY <1>1, <2>6, RunningInBarrier
  <2>8. QED
    BY <2>4, <2>7, BarrierHolds
<1>10. CASE sys.fastforward
  BY <1>5, <1>7, <1>9, <1>10 DEF IsBarrierReached
<1>11. CASE ~sys.fastforward
  BY <1>7, <1>8, <1>9, <1>11 DEF IsBarrierReached
<1>12. QED
  BY <1>10, <1>11

(* Whoever waits is one the servers know they have to wake. *)
LEMMA InvWakes ==
  ASSUME ThreadInv
  PROVE  WakeUpsArrive
<1>m. /\ AtPlaces(sys, where, here) /\ Placed(sys, where) /\ Waits(sys, where) /\ sys.signalled = {}
      /\ Woken(sys, where, abandoned) /\ where \in [Threads -> Places]
  BY Zenon DEF ThreadInv, Mid
<1>1. NoLostSignal
  <2>1. SUFFICES ASSUME NEW t \in Threads
                 PROVE  /\ where[t] = "stalled" =>
                             sys.status[t] = "STALLED" /\ (Resumable(t) \/ t \in abandoned)
                        /\ where[t] = "startwait" => \E u \in Threads : sys.waiter[u] = t /\ where[u] = "created"
                        /\ where[t] = "barrier" => sys.acquired[here[t]] /\ sys.slot[here[t]] = t
    BY DEF NoLostSignal
  <2>2. ASSUME where[t] = "stalled" PROVE sys.status[t] = "STALLED" /\ (Resumable(t) \/ t \in abandoned)
    <3>1. sys.status[t] = "STALLED"
      BY <1>m, <2>2 DEF AtPlaces
    <3>2. sys.coreRunning[t] = NoCore
      BY <1>m, <2>2, <3>1 DEF Placed
    <3>3. Waker(sys, t) \/ t \in abandoned
      BY <1>m, <2>2, <3>1 DEF Woken
    <3>4. QED
      BY <3>1, <3>2, <3>3 DEF Waker, Resumable
  <2>3. ASSUME where[t] = "startwait" PROVE \E u \in Threads : sys.waiter[u] = t /\ where[u] = "created"
    <3>1. PICK u \in Threads : sys.waiter[u] = t /\ where[u] \in {"created", "acting"}
      BY <1>m, <2>3 DEF Waits
    <3>2. where[u] # "acting"
      BY <1>m DEF Places
    <3>3. QED
      BY <3>1, <3>2
  <2>4. where[t] = "barrier" => sys.acquired[here[t]] /\ sys.slot[here[t]] = t
    BY BarrierHolds
  <2>5. QED
    BY <2>2, <2>3, <2>4
<1>2. QED
  BY <1>1, InvGoes DEF WakeUpsArrive

(* The inductive invariant of the thread system, for any number of cores and *)
(* threads.                                                                  *)

(* For any number of cores and threads, any quantum and interleaving, and    *)
(* any bound on time, sleeps and calls: ThreadInv is an invariant.  The      *)
(* hypothesis leaves out what follows an abort of the barrier that keeps the *)
(* clock of a core that had reached it (barrier_sync_server.cc:298): the     *)
(* barrier then takes a released core for one that has arrived.              *)
THEOREM SystemInvariant ==
  ASSUME ~FollowAborts
  PROVE  Spec => []ThreadInv
<1>1. Init => ThreadInv
  BY InitInv
<1>2. ThreadInv /\ [Next]_vars => ThreadInv'
  BY NextInv, StutterInv
<1>3. QED
  BY <1>1, <1>2, PTL DEF Spec

(* The tables of scheduler (m_core_thread_running,                         *)
(* ThreadInfo::m_core_running), thread manager (Thread::m_core) and cores  *)
(* (Core::m_thread, m_state) name one placement between critical sections, *)
(* and a thread that executes is on the core it believes to be on: no      *)
(* preemption, migration, exit, resume or barrier release, in any order,   *)
(* puts them at odds.                                                      *)
THEOREM PlacementAlways ==
  ASSUME ~FollowAborts
  PROVE  Spec => []PlacementCorrect
<1>1. ThreadInv => PlacementCorrect
  BY InvPlaces
<1>2. QED
  BY <1>1, SystemInvariant, PTL

(* No LOG_ASSERT_ERROR of scheduler, thread manager and barrier fails: no   *)
(* core is given to two threads, no thread ends while it does not run, only *)
(* a running core enters the barrier, and once; and the mutual recursion of *)
(* reschedule() and resumeThread_async() ends.                              *)
THEOREM AssertionsAlways ==
  ASSUME ~FollowAborts
  PROVE  Spec => []AssertionsHold
<1>1. ThreadInv => AssertionsHold
  BY Zenon DEF ThreadInv, Mid, AssertionsHold
<1>2. QED
  BY <1>1, SystemInvariant, PTL

(* No wake-up is lost but those of a thread that joins another before that *)
(* one starts (abandoned): whoever else waits in Thread::wait has a thread *)
(* whose exit or start wakes it, is in the list of the sleepers, may be    *)
(* chosen by the scheduler, or waits for a futex; whoever waits in a core's *)
(* condition is recorded by the barrier; and as long as the servers hold   *)
(* any thread as running somebody can go on.                               *)
THEOREM WakeUpsAlways ==
  ASSUME ~FollowAborts
  PROVE  Spec => []WakeUpsArrive
<1>1. ThreadInv => WakeUpsArrive
  BY InvWakes
<1>2. QED
  BY <1>1, SystemInvariant, PTL
=============================================================================
