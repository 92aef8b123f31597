---------------------------- MODULE RoutineTracer ----------------------------
(***************************************************************************)
(* The routine tracer and its function statistics: per thread, the stack   *)
(* of routines Pin reports, and what it accounts to routines and to call   *)
(* stacks while the simulator is in the region of interest.                *)
(*                                                                         *)
(* The statistic is the elapsed time of a thread.  routineAssert compares  *)
(* stack pointers of the program, any outcome is possible.  The flag of    *)
(* the region changes before the hooks of the threads run, one at a time,  *)
(* while other threads go on.  Routine 0 is code Pin knows no routine for. *)
(***************************************************************************)
EXTENDS Integers, Sequences, FiniteSets, FiniteSetsExt, SequencesExt

CONSTANTS RtThreads,   \* application threads, numbers in the order of creation
          Routines,    \* addresses of routines
          MaxRtDepth,  \* nesting of routines
          RtSizes      \* bounds of a behaviour: [threads, depth, time, calls, regions]
                       \* records (calls counts reports after the first marker)

VARIABLES rt_size,     \* the bounds of this behaviour
          rt_stack,    \* m_stack
          rt_time,     \* thread -> its statistic
          rt_start,    \* m_values_start
          rt_full,     \* m_values_start_full: thread, stack -> value, 0 if absent
          rt_flat,     \* m_routines: routine -> [calls, time]
          rt_tree,     \* m_callstack_routines: stack -> [calls, time]
          rt_roi,      \* m_performance_enabled
          rt_hooks,    \* threads whose hook of the last change has to run
          rt_by,       \* the thread that executes the marker, or NoOne
          rt_calls, rt_regions,
          rt_truth,    \* time spent in a stack, in the region
          rt_begun,    \* activations of a routine that began in the region
          rt_wrong     \* stacks in which a thread met a case where accounting goes wrong

rtVars == <<rt_size, rt_stack, rt_time, rt_start, rt_full, rt_flat, rt_tree, rt_roi, rt_hooks, rt_by,
            rt_calls, rt_regions, rt_truth, rt_begun, rt_wrong>>

NoOne == -1
NoRoutine == 0

Stacks == UNION {[1 .. n -> Routines] : n \in 1 .. MaxRtDepth}

(* The part of the state the tracer of thread t works on.                  *)
Tracer(t) == [stack |-> rt_stack[t], now |-> rt_time[t], start |-> rt_start[t],
              full |-> rt_full[t], flat |-> rt_flat, tree |-> rt_tree]

-----------------------------------------------------------------------------
(* functionBegin: the current values are remembered, for the thread and    *)
(* for its stack.                                                          *)
Begin(x) ==
  [x EXCEPT !.start = x.now,
            !.full = [s \in Stacks |-> IF s = x.stack THEN x.now ELSE x.full[s]]]

(* functionEnd, updateRoutine and updateRoutineFull.                       *)
Add(entry, calls, time) == [calls |-> entry.calls + calls, time |-> entry.time + time]

End(x, eip, calls) ==
  [x EXCEPT !.flat[eip] = Add(@, calls, x.now - x.start),
            !.tree = [s \in Stacks |-> IF s = x.stack THEN Add(@[s], calls, x.now - x.full[s])
                                       ELSE @[s]]]

InRoi(x, y) == IF rt_roi THEN y ELSE x

(* routineEnter_unlocked: functionChildEnter, then functionEnter.          *)
Entered(x, eip) ==
  LET parent == IF x.stack = <<>> THEN x ELSE InRoi(x, End(x, Last(x.stack), 0))
      child == [parent EXCEPT !.stack = Append(@, eip)]
  IN InRoi(child, Begin(child))

(* functionExit of the top of the stack, which is then popped.             *)
PopTop(x) == [InRoi(x, End(x, Last(x.stack), 1)) EXCEPT !.stack = Front(@)]

(* functionChildExit.                                                      *)
Back(x) == IF x.stack = <<>> THEN x ELSE InRoi(x, Begin(x))

(* Mutant: the caller is not started again while unwinding.                *)
UnwindOnly(x, eip) ==
  LET last == Max({i \in DOMAIN x.stack : x.stack[i] = eip})
  IN FoldLeft(LAMBDA y, i : PopTop(y), x, [i \in 1 .. Len(x.stack) - last |-> i])

(* unwindTo for a routine that is on the stack.                            *)
Unwound(x, eip) ==
  LET last == Max({i \in DOMAIN x.stack : x.stack[i] = eip})
  IN FoldLeft(LAMBDA y, i : Back(PopTop(y)), x, [i \in 1 .. Len(x.stack) - last |-> i])

OnStack(x, eip) == eip \in ToSet(x.stack)

(* routineExit: an unknown routine is ignored, but the top of the stack is *)
(* started again.                                                          *)
Exited(x, eip) ==
  IF x.stack = <<>> THEN x
  ELSE IF OnStack(x, eip) THEN Back(PopTop(Unwound(x, eip)))
  ELSE Back(x)

(* routineAssert; deeper says that the stack pointer has not gone up.      *)
Asserted(x, eip, deeper) ==
  IF x.stack = <<>> THEN Entered(x, eip)
  ELSE IF Last(x.stack) = eip THEN x
  ELSE IF deeper \/ ~OnStack(x, eip) THEN Entered(x, eip)
  ELSE Unwound(x, eip)

(* hookRoiBegin: every routine on the stack is entered, with the whole     *)
(* stack in place.                                                         *)
RoiBegun(x) ==
  FoldLeft(LAMBDA y, i : Begin(IF i > 1 /\ x.stack[i - 1] # NoRoutine
                                 THEN End(y, x.stack[i - 1], 0) ELSE y),
           x, [i \in DOMAIN x.stack |-> i])

(* Mutant: a caller is not started before it is left.                      *)
RoiEndedAtOnce(x) ==
  LET at(i) == SubSeq(x.stack, 1, Len(x.stack) + 1 - i)
      leave(y, i) == End([y EXCEPT !.stack = at(i)], Last(at(i)), 1)
  IN [FoldLeft(leave, x, [i \in DOMAIN x.stack |-> i]) EXCEPT !.stack = x.stack]

(* hookRoiEnd: they are left from the top, the stack popped meanwhile; a   *)
(* caller is started again first, unless the routine it called is 0.       *)
RoiEnded(x) ==
  LET at(i) == SubSeq(x.stack, 1, Len(x.stack) + 1 - i)
      restart(y, i) == IF i > 1 /\ Last(at(i - 1)) # NoRoutine THEN Begin(y) ELSE y
      leave(y, i) == End(restart([y EXCEPT !.stack = at(i)], i), Last(at(i)), 1)
  IN [FoldLeft(leave, x, [i \in DOMAIN x.stack |-> i]) EXCEPT !.stack = x.stack]

-----------------------------------------------------------------------------
(* Thread t is in the region: from its hook at the begin to that at the    *)
(* end.                                                                    *)
Counting(t) == rt_roi # (t \in rt_hooks)

(* A thread that executes a marker returns when all hooks have run.        *)
MayRun(t) == rt_hooks = {} \/ t # rt_by

Store(t, x) ==
  /\ rt_stack' = [rt_stack EXCEPT ![t] = x.stack]
  /\ rt_start' = [rt_start EXCEPT ![t] = x.start]
  /\ rt_full' = [rt_full EXCEPT ![t] = x.full]
  /\ rt_flat' = x.flat /\ rt_tree' = x.tree

(* Activations that begin when stack s becomes stack u in the region.      *)
NewOn(s, u) == IF Len(u) > Len(s) THEN {Last(u)} ELSE {}

(* Where accounting goes wrong: between the flag and its hook a thread     *)
(* passes from one stack to another; it leaves a routine it is not in; at  *)
(* the end of the region a routine of its stack has called unknown code.   *)
Passed(s, u) == ({s, u} \cup {SubSeq(s, 1, i) : i \in Len(u) .. Len(s)}) \ {<<>>}

CallsUnknown(s) == {SubSeq(s, 1, i) : i \in {j \in 1 .. Len(s) - 1 : s[j + 1] = NoRoutine}}

(* A report from Pin, under the lock of the thread's tracer.               *)
Report(t, x, lost) ==
  /\ rt_regions = 0 \/ rt_calls < rt_size.calls
  /\ MayRun(t) /\ Len(x.stack) <= rt_size.depth
  /\ Store(t, x)
  /\ rt_calls' = IF rt_regions = 0 THEN 0 ELSE rt_calls + 1
  /\ rt_begun' = [r \in Routines |-> rt_begun[r] +
                    IF rt_roi /\ r \in NewOn(rt_stack[t], x.stack) THEN 1 ELSE 0]
  /\ rt_wrong' = rt_wrong \cup IF t \in rt_hooks THEN Passed(rt_stack[t], x.stack)
                                ELSE IF lost /\ rt_roi THEN {rt_stack[t]} ELSE {}
  /\ UNCHANGED <<rt_size, rt_time, rt_roi, rt_hooks, rt_by, rt_regions, rt_truth>>

RoutineEnter(t, eip) ==
  Len(rt_stack[t]) < rt_size.depth /\ Report(t, Entered(Tracer(t), eip), FALSE)

RoutineExit(t, eip) ==
  rt_stack[t] # <<>> /\ Report(t, Exited(Tracer(t), eip), ~OnStack(Tracer(t), eip))

RoutineAssert(t, eip, deeper) ==
  /\ Len(rt_stack[t]) < rt_size.depth \/ (~deeper /\ OnStack(Tracer(t), eip))
  /\ Report(t, Asserted(Tracer(t), eip, deeper), FALSE)

(* The thread makes progress.                                              *)
Elapse(t) ==
  /\ rt_time[t] < rt_size.time /\ MayRun(t)
  /\ rt_time' = [rt_time EXCEPT ![t] = @ + 1]
  /\ rt_truth' = IF Counting(t) /\ rt_stack[t] # <<>>
                   THEN [rt_truth EXCEPT ![rt_stack[t]] = @ + 1] ELSE rt_truth
  /\ UNCHANGED <<rt_size, rt_stack, rt_start, rt_full, rt_flat, rt_tree, rt_roi, rt_hooks,
                 rt_by, rt_calls, rt_regions, rt_begun, rt_wrong>>

(* MagicServer::setPerformance, up to the hooks.                           *)
SetPerformance(t) ==
  /\ rt_hooks = {} /\ (rt_roi \/ rt_regions < rt_size.regions)
  /\ rt_roi' = ~rt_roi /\ rt_hooks' = rt_size.threads /\ rt_by' = t
  /\ rt_regions' = IF rt_roi THEN rt_regions ELSE rt_regions + 1
  /\ UNCHANGED <<rt_size, rt_stack, rt_time, rt_start, rt_full, rt_flat, rt_tree, rt_calls,
                 rt_truth, rt_begun, rt_wrong>>

(* callHooks: the hooks run in the order in which they were registered.    *)
RunHook(t) ==
  /\ t \in rt_hooks /\ \A u \in rt_hooks : t <= u
  /\ Store(t, IF rt_roi THEN RoiBegun(Tracer(t)) ELSE RoiEnded(Tracer(t)))
  /\ rt_hooks' = rt_hooks \ {t}
  /\ rt_begun' = [r \in Routines |-> rt_begun[r] +
                    IF rt_roi THEN Cardinality({i \in DOMAIN rt_stack[t] : rt_stack[t][i] = r})
                    ELSE 0]
  /\ rt_wrong' = rt_wrong \cup IF rt_roi THEN {} ELSE CallsUnknown(rt_stack[t])
  /\ UNCHANGED <<rt_size, rt_time, rt_roi, rt_by, rt_calls, rt_regions, rt_truth>>

-----------------------------------------------------------------------------
RtInit ==
  /\ rt_size \in RtSizes
  /\ rt_stack = [t \in RtThreads |-> <<>>] /\ rt_time = [t \in RtThreads |-> 0]
  /\ rt_start = [t \in RtThreads |-> 0]
  /\ rt_full = [t \in RtThreads |-> [s \in Stacks |-> 0]]
  /\ rt_flat = [r \in Routines |-> [calls |-> 0, time |-> 0]]
  /\ rt_tree = [s \in Stacks |-> [calls |-> 0, time |-> 0]]
  /\ rt_roi = FALSE /\ rt_hooks = {} /\ rt_by = NoOne
  /\ rt_calls = 0 /\ rt_regions = 0
  /\ rt_truth = [s \in Stacks |-> 0] /\ rt_begun = [r \in Routines |-> 0] /\ rt_wrong = {}

RtNext ==
  \E t \in rt_size.threads :
    \/ Elapse(t) \/ SetPerformance(t) \/ RunHook(t)
    \/ \E eip \in Routines \ {NoRoutine} : RoutineEnter(t, eip) \/ RoutineExit(t, eip)
    \/ \E eip \in Routines, deeper \in BOOLEAN : RoutineAssert(t, eip, deeper)

-----------------------------------------------------------------------------
(* Variables have the types the C++ members give them.                     *)
RtTypeOK ==
  /\ \A t \in RtThreads : rt_stack[t] \in Stacks \cup {<<>>}
  /\ rt_hooks \subseteq RtThreads /\ rt_roi \in BOOLEAN
  /\ rt_by \in RtThreads \cup {NoOne}

(* What a thread has not accounted yet to the stack it is in.              *)
OpenTime(t) == IF Counting(t) THEN rt_time[t] - rt_start[t] ELSE 0

(* Accounted to stack s, and what was spent in it.                         *)
StackTime(s) ==
  rt_tree[s].time + MapThenSumSet(OpenTime, {t \in RtThreads : rt_stack[t] = s})

SpentIn(S) == LET spent(s) == rt_truth[s] IN MapThenSumSet(spent, S)

StacksOf(r) == {s \in Stacks : Last(s) = r}

(* A thread that moves between the flag of the region and its own hook,    *)
(* leaves a routine it is not in, or is in unknown code when the region    *)
(* ends does damage only in the stacks it passes meanwhile.  All others,   *)
(* and the routines on top of no such stack, get the time of the region    *)
(* that was spent in them, callees excluded, through calls, unwinding and  *)
(* recursion (functionBegin, functionEnd, unwindTo, hookRoiEnd).           *)
TimeExact ==
  /\ \A s \in Stacks \ rt_wrong : StackTime(s) = SpentIn({s})
  /\ \A r \in Routines :
       LET inside == {t \in RtThreads : rt_stack[t] # <<>> /\ Last(rt_stack[t]) = r}
       IN StacksOf(r) \cap rt_wrong = {}
            => rt_flat[r].time + MapThenSumSet(OpenTime, inside) = SpentIn(StacksOf(r))

(* Under the same conditions every activation of a routine that was active *)
(* in the region is counted exactly once for the region, by the routine    *)
(* and by its call stack (routineEnter, routineExit, hookRoiEnd).          *)
CallsExact ==
  \A r \in Routines :
    LET active(t) == IF ~Counting(t) THEN 0
                     ELSE Cardinality({i \in DOMAIN rt_stack[t] : rt_stack[t][i] = r})
        calls(s) == rt_tree[s].calls
    IN StacksOf(r) \cap rt_wrong = {}
         => /\ rt_flat[r].calls + MapThenSumSet(active, RtThreads) = rt_begun[r]
            /\ rt_flat[r].calls = MapThenSumSet(calls, StacksOf(r))

(* Refuted by the code: the time of the region is exact also in the stacks *)
(* of a thread that moves between the flag and its hook.  Its first report *)
(* accounts the time since it was last in a region                         *)
(* (magic_server.cc:153, routine_tracer.cc:32).                            *)
RegionTimeExact == \A s \in Stacks : StackTime(s) = SpentIn({s})

(* Refuted by the code: "Call-stack-based statistics (includes statistics  *)
(* from child calls)" (routine_tracer_funcstats.h:74).  A caller's time    *)
(* stops when it calls and starts again when the callee returns.           *)
IncludesChildren ==
  rt_wrong = {} => \A s \in Stacks : StackTime(s) = SpentIn({u \in Stacks : IsPrefix(s, u)})

(* Times and calls of the region are accounted exactly, callees excluded,  *)
(* and the cases TimeExact names spoil only the stacks they happen in.     *)
RoutinesCorrect == RtTypeOK /\ TimeExact /\ CallsExact
=============================================================================
