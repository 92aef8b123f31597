----------------------------- MODULE CacheStack -----------------------------
(***************************************************************************)
(* The private and shared levels of one cache hierarchy: the CacheCntlr    *)
(* objects between the cores and the directory (or the DRAM controller).   *)
(* Controllers form a forest: m_next_cache_cntlr is stack_mode.next, the   *)
(* list m_prev_cache_cntlrs its inverse.  One access holds the stack lock  *)
(* (see SetLock) from beginning to end, unless the last level misses and   *)
(* the directory has to be asked; an access is then two steps, and other   *)
(* cores and the directory act between them.                               *)
(*                                                                         *)
(* The contents of a copy are abstracted to one bit: fresh, whether it is  *)
(* the latest value written to the line.  Time, counters, the perfect and  *)
(* non-coherent modes and the cached-location tracking that is compiled    *)
(* out are left out.  The protocol at the directory is in Coherence: here  *)
(* it is an environment that grants a request and may recall a line.       *)
(***************************************************************************)
EXTENDS Integers, Sequences, FiniteSets, FiniteSetsExt

CONSTANTS StackLines,     \* cache lines that map to one set
          StackModes,     \* hierarchies: [next, ways, wt, dram, mesi, pf]
          PrefetchMax,    \* PREFETCH_MAX_QUEUE_LENGTH
          PrefetchLists   \* what getNextAddress may return, in order

VARIABLES stack_mode,     \* the hierarchy under test, never changes
          stack,          \* the controllers: see StackTypeOK
          stack_sim       \* line whose waiters the network thread serves

stackVars == <<stack_mode, stack, stack_sim>>

NoLine == "none"
Nodes == DOMAIN stack_mode.next
Next(n) == stack_mode.next[n]
IsLast(n) == Next(n) = "none"
Prev(n) == {m \in Nodes : Next(m) = n}
L1s == {n \in Nodes : Prev(n) = {}}
LLC == CHOOSE n \in Nodes : IsLast(n)
Writethrough(n) == n \in stack_mode.wt
HasPrefetcher(n) == n = stack_mode.pf

Absent == [st |-> "I", fresh |-> FALSE, pf |-> FALSE]

Fail(s, cond, what) == IF cond THEN [s EXCEPT !.err = @ \cup {what}] ELSE s

GetCacheState(s, n, a) == s.c[n][a].st
SetCacheState(s, n, a, st) == [s EXCEPT !.c[n][a].st = st]

OperationPermissibleinCache(s, n, a, op) ==
  IF op = "R" THEN GetCacheState(s, n, a) \in {"S", "E", "M"}
              ELSE GetCacheState(s, n, a) = "M"

InvalidateCacheBlock(s, n, a) ==
  LET old == GetCacheState(s, n, a) IN
  Fail([s EXCEPT !.c[n][a] = Absent], old \in {"M", "I"}, "invalidate")

-----------------------------------------------------------------------------
RECURSIVE WriteCacheBlock(_, _, _, _), UpdateCacheBlock(_, _, _, _, _),
          Process(_, _, _, _, _, _, _)

(* Mutant: the eviction buffer is forgotten.                               *)
WriteToLineOnly(s, n, a, fresh) ==
  LET written == Fail([s EXCEPT !.c[n][a].fresh = fresh],
                      GetCacheState(s, n, a) # "M", "writeback")
  IN IF Writethrough(n) THEN WriteCacheBlock(written, Next(n), a, fresh)
                        ELSE written

(* Write-back from a previous level, into the eviction buffer when this    *)
(* level is just evicting the line.                                        *)
WriteCacheBlock(s, n, a, fresh) ==
  LET written == IF s.buf[n].line = a
                   THEN [s EXCEPT !.buf[n].fresh = fresh]
                   ELSE Fail([s EXCEPT !.c[n][a].fresh = fresh],
                             GetCacheState(s, n, a) # "M", "writeback")
  IN IF Writethrough(n) THEN WriteCacheBlock(written, Next(n), a, fresh)
                        ELSE written

(* Mutant: only invalidations reach the siblings, downgrades do not.       *)
InvalidatePrevious(s, n, a, new, except) ==
  LET Update(p, t) == UpdateCacheBlock(t, p, a, new, FALSE)
  IN IF new = "I" THEN FoldSet(Update, s, Prev(n) \ {except}) ELSE s

UpdatePrevious(s, n, a, new, except) ==
  LET Update(p, t) == UpdateCacheBlock(t, p, a, new, FALSE)
  IN FoldSet(Update, s, Prev(n) \ {except})

(* Mutant: dirty data is not passed on before the line is given up.        *)
UpdateWithoutWriteback(s, n, a, new, outBuf) ==
  LET s1 == UpdatePrevious(s, n, a, new, NoLine)
  IN IF GetCacheState(s1, n, a) = "I" THEN s1
     ELSE IF new = "I"
     THEN [s1 EXCEPT !.c[n][a] = Absent, !.out = s1.c[n][a].fresh]
     ELSE [s1 EXCEPT !.c[n][a].st = new, !.out = s1.c[n][a].fresh]

(* Modified data goes to the next level, or to outBuf for the directory.   *)
PassOn(s, n, a, outBuf) ==
  IF GetCacheState(s, n, a) # "M" THEN s
  ELSE SetCacheState(
         CASE Writethrough(n) -> s
           [] ~Writethrough(n) /\ ~IsLast(n) ->
                WriteCacheBlock(s, Next(n), a, s.c[n][a].fresh)
           [] OTHER -> Fail(s, ~outBuf, "MODIFIED data is about to get lost"),
         n, a, "S")

ChangeState(s, n, a, new) ==
  CASE new = "I" -> InvalidateCacheBlock(s, n, a)
    [] new \in {"S", "M"} -> SetCacheState(s, n, a, new)
    [] OTHER -> Fail(s, TRUE, "Cannot change block status")

(* This level's turn in updateCacheBlock.                                  *)
UpdateHere(s, n, a, new, outBuf) ==
  LET old == GetCacheState(s, n, a)
      fresh == s.c[n][a].fresh
  IN CASE old = "I" -> Fail(s, outBuf, "out_buf never written")
       [] old # "I" /\ old = new /\ outBuf -> [s EXCEPT !.out = fresh]
       [] OTHER -> ChangeState([PassOn(s, n, a, outBuf) EXCEPT
                                  !.out = IF outBuf THEN fresh ELSE @], n, a, new)

(* First the previous levels, which write modified data back to this one,  *)
(* then this level.                                                        *)
UpdateCacheBlock(s, n, a, new, outBuf) ==
  UpdateHere(UpdatePrevious(s, n, a, new, NoLine), n, a, new, outBuf)

-----------------------------------------------------------------------------
Valid(s, n) == {a \in StackLines : GetCacheState(s, n, a) # "I"}
Evictable(s, n) == {a \in Valid(s, n) : GetCacheState(s, n, a) # "U"}

(* The victim is CacheSet's choice; v is the input that stands for it.     *)
Victim(s, n, v) ==
  IF Cardinality(Valid(s, n)) < stack_mode.ways[n] THEN NoLine
  ELSE IF v \in Evictable(s, n) THEN v
  ELSE CHOOSE a \in Evictable(s, n) : TRUE

(* Mutant: the levels above keep their copies of an evicted line.          *)
EvictHereOnly(s, n, e, cell) ==
  IF ~IsLast(n)
    THEN IF cell.st = "M" /\ ~Writethrough(n)
           THEN WriteCacheBlock(s, Next(n), e, cell.fresh) ELSE s
    ELSE IF cell.st = "M" THEN [s EXCEPT !.mem[e] = cell.fresh] ELSE s

(* A victim's dirty data goes to the next level, to DRAM or with a         *)
(* FLUSH_REP to the directory.                                             *)
WriteBackVictim(s, n, e, st) ==
  LET fresh == s.buf[n].fresh
      done == [s EXCEPT !.buf[n] = [line |-> NoLine, fresh |-> FALSE]]
  IN CASE st # "M" -> done
       [] st = "M" /\ IsLast(n) -> [done EXCEPT !.mem[e] = fresh]
       [] OTHER -> IF Writethrough(n) THEN done
                   ELSE WriteCacheBlock(done, Next(n), e, fresh)

(* The eviction half of insertCacheBlock: back-invalidate the previous     *)
(* levels into the eviction buffer, then pass dirty data on.               *)
Evict(s, n, e, cell) ==
  WriteBackVictim(
    UpdatePrevious([s EXCEPT !.buf[n] = [line |-> e, fresh |-> cell.fresh]],
                   n, e, "I", NoLine),
    n, e, cell.st)

InsertCacheBlock(s, n, a, st, fresh, v) ==
  LET e == Victim(s, n, v)
      room == IF e = NoLine THEN s ELSE [s EXCEPT !.c[n][e] = Absent]
      placed == [room EXCEPT !.c[n][a] =
                   [st |-> st, fresh |-> fresh, pf |-> FALSE]]
      checked == Fail(placed, GetCacheState(s, n, a) # "I", "inserted twice")
  IN IF e = NoLine THEN checked ELSE Evict(checked, n, e, s.c[n][e])

CopyDataFromNextLevel(s, n, a, op, v) ==
  LET below == s.c[Next(n)][a]
      s1 == Fail(s, ~OperationPermissibleinCache(s, Next(n), a, op), "gone")
  IN IF GetCacheState(s, n, a) # "I"
       THEN UpdateCacheBlock(s1, n, a, below.st, FALSE)
       ELSE InsertCacheBlock(s1, n, a, below.st, below.fresh, v)

-----------------------------------------------------------------------------
(* Mutant: a new list is added to what is left of the old one.             *)
TrainAppends(s, n, cacheHit, list) ==
  IF ~HasPrefetcher(n) \/ (cacheHit /\ ~s.phit) THEN s
  ELSE LET missing(a) == ~OperationPermissibleinCache(s, n, a, "R")
       IN [s EXCEPT !.q = @ \o SelectSeq(list, missing), !.trained = TRUE]

(* The queue test is "size > PREFETCH_MAX_QUEUE_LENGTH": one more fits.    *)
(* Training puts m_prefetch_next after the access that is going on.        *)
TrainPrefetcher(s, n, cacheHit, list) ==
  IF ~HasPrefetcher(n) \/ (cacheHit /\ ~s.phit) THEN s
  ELSE LET missing(a) == ~OperationPermissibleinCache(s, n, a, "R")
           new == SelectSeq(list, missing)
       IN [s EXCEPT !.q = SubSeq(new, 1, Min({Len(new), PrefetchMax + 1})),
                    !.trained = TRUE]

(* A miss of the last level when there is a directory.                     *)
InitiateDirectoryAccess(s, n, a, w) ==
  LET first == s.waiters[a] = <<>>
      upgrade == w.op # "R" /\ GetCacheState(s, n, a) = "S"
      req == IF upgrade THEN "up" ELSE IF w.op # "R" THEN "ex" ELSE "sh"
      s1 == [s EXCEPT !.waiters[a] = Append(@, w), !.hit = FALSE]
  IN IF ~first THEN s1
     ELSE [(IF upgrade THEN SetCacheState(s1, n, a, "U") ELSE s1)
             EXCEPT !.pend[a] = req]

(* processShmemReqFromPrevCache at node n for a request of node req that   *)
(* stems from a first-level cache, or a prefetch: i = [core, pf, v, list]. *)
(* The result is the new state; its hit and phit fields are the results    *)
(* the code returns.                                                       *)
Done(s) == [s EXCEPT !.hit = TRUE]
MarkPrefetched(s, n, a, i) == IF i.pf THEN [s EXCEPT !.c[n][a].pf = TRUE] ELSE s

(* The siblings give up their copies for a writer and their right to write *)
(* for a reader.                                                           *)
HitHere(s, n, req, a, op, i) ==
  LET cell == s.c[n][a]
      new == CASE op # "R" -> "I"
               [] op = "R" /\ cell.st \in {"M", "E"} -> "S"
               [] OTHER -> "keep"
      seen == [s EXCEPT !.phit = cell.pf /\ ~i.pf, !.c[n][a].pf = @ /\ i.pf]
  IN Done(IF new = "keep" THEN seen ELSE UpdatePrevious(seen, n, a, new, req))

(* A write to a SHARED line starts with the siblings' copies.              *)
SiblingsGone(s, n, req, a) ==
  IF GetCacheState(s, n, a) = "S" THEN UpdatePrevious(s, n, a, "I", req) ELSE s

CopyIfHit(s, n, a, op, i) ==
  IF s.hit THEN MarkPrefetched(CopyDataFromNextLevel(s, n, a, op, i.v), n, a, i)
  ELSE s

(* A miss of a level with a next one.                                      *)
AskNext(s, n, a, op, i, first) ==
  CopyIfHit(Process(IF GetCacheState(s, n, a) = "I" THEN s
                    ELSE InvalidateCacheBlock(s, n, a),
                    Next(n), n, a, op, i, first),
            n, a, op, i)

(* A miss of the last level.                                               *)
LastLevel(s, n, req, a, op, i) ==
  LET st == GetCacheState(s, n, a)
  IN CASE st = "E" ->
            Done(SetCacheState(UpdatePrevious(s, n, a, "I", req), n, a, "M"))
       [] stack_mode.dram /\ st \notin {"E", "I"} -> Done(SetCacheState(s, n, a, "M"))
       [] stack_mode.dram /\ st = "I" ->
            Done(MarkPrefetched(InsertCacheBlock(s, n, a, IF op = "R" THEN "S" ELSE "M",
                                                 s.mem[a], i.v), n, a, i))
       [] OTHER -> InitiateDirectoryAccess(s, n, a,
                     [core |-> i.core, op |-> op, pf |-> i.pf])

TrainAfter(s, n, i, first) ==
  IF first THEN TrainPrefetcher(s, n, s.hit, i.list) ELSE s

Process(s, n, req, a, op, i, first) ==
  TrainAfter(
    CASE OperationPermissibleinCache(s, n, a, op) -> HitHere(s, n, req, a, op, i)
      [] ~OperationPermissibleinCache(s, n, a, op) /\ ~IsLast(n) ->
           AskNext(SiblingsGone(s, n, req, a), n, a, op, i, first)
      [] OTHER -> LastLevel(SiblingsGone(s, n, req, a), n, req, a, op, i),
    n, i, first)

-----------------------------------------------------------------------------
(* accessCache: a store makes every other copy of the line old; a          *)
(* write-through cache passes it on.                                       *)
AccessCache(s, n, a, op) ==
  IF op = "R" THEN s
  ELSE LET stored == [s EXCEPT
             !.c = [m \in Nodes |->
                      [@[m] EXCEPT ![a].fresh = m = n]],
             !.mem[a] = FALSE]
       IN IF Writethrough(n) THEN WriteCacheBlock(stored, Next(n), a, TRUE)
                             ELSE stored

(* Prefetch(): the controller takes the first address that is still        *)
(* missing from its list and fetches it (doPrefetch).                      *)
Prefetch(s, i) ==
  LET missing(a) == ~OperationPermissibleinCache(s, stack_mode.pf, a, "R")
      wanted == {k \in DOMAIN s.q : missing(s.q[k])}
      k0 == Min(wanted)
      a == s.q[k0]
      rest == [s EXCEPT !.q = SubSeq(@, k0 + 1, Len(@))]
  IN IF wanted = {} THEN [s EXCEPT !.q = <<>>]
     ELSE Process(rest, stack_mode.pf, stack_mode.pf, a, "R",
                  [i EXCEPT !.pf = TRUE], TRUE)

(* The second half of a miss: the data is in the next level.               *)
InFirstLevel(s, n, a, op) ==
  Fail(s, ~OperationPermissibleinCache(s, n, a, op), "not in L1")
Fill(s, n, a, op, v) ==
  AccessCache(InFirstLevel(CopyDataFromNextLevel(s, n, a, op, v), n, a, op), n, a, op)

FillIfHit(s, n, a, op, i) ==
  IF s.hit THEN TrainPrefetcher(Fill(s, n, a, op, i.v), n, FALSE, i.list) ELSE s

(* processMemOpFromCore.  READ_EX asks for the same rights as WRITE, and   *)
(* the lock is kept until the WRITE that follows it: the pair is one "W".  *)
ProcessMemOpFromCore(s, n, a, op, i) ==
  LET here == [s EXCEPT !.phit = s.c[n][a].pf, !.c[n][a].pf = FALSE]
      s1 == IF GetCacheState(s, n, a) # "I"
              THEN InvalidateCacheBlock(s, n, a) ELSE s
  IN IF OperationPermissibleinCache(s, n, a, op)
       THEN TrainPrefetcher(AccessCache(here, n, a, op), n, TRUE, i.list)
       ELSE FillIfHit(Process(s1, Next(n), n, a, op, i, TRUE), n, a, op, i)

(* The scratch fields carry results inside one call only.                  *)
Settle(s) == [s EXCEPT !.hit = FALSE, !.phit = FALSE, !.out = FALSE,
                      !.trained = FALSE]

Idle(n) == \A a \in StackLines : \A k \in DOMAIN stack.waiters[a] :
             stack.waiters[a][k].core # n

(* One access of a core, with the prefetch it triggers when ripe, that is  *)
(* when m_prefetch_next is not in the future.                              *)
MemOp(n, a, op, v, list, ripe) ==
  /\ n \in L1s /\ Idle(n)
  /\ stack_mode.pf = "none" => list = <<>>
  /\ ripe => stack.q # <<>>
  /\ LET i == [core |-> n, pf |-> FALSE, v |-> v, list |-> list]
     IN \E s \in {ProcessMemOpFromCore(stack, n, a, op, i)} :
          stack' = Settle(IF ripe /\ ~s.trained THEN Prefetch(s, i) ELSE s)
  /\ UNCHANGED <<stack_mode, stack_sim>>

(* handleMsgFromDramDirectory's loop over the waiters: one turn.  The lock *)
(* is passed to the user thread, which fills the levels and finishes; a    *)
(* writer that finds the line SHARED makes the loop ask for an upgrade.    *)
ServeFront(s, a, v) ==
  LET w == Head(s.waiters[a])
      i == [core |-> w.core, pf |-> FALSE, v |-> v, list |-> <<>>]
      s1 == IF w.pf THEN [s EXCEPT !.c[LLC][a].pf = TRUE] ELSE s
      StillThere(t) == Fail(t, ~t.hit, "already gone")
  IN IF w.op # "R" /\ GetCacheState(s, LLC, a) = "S"
       THEN [SetCacheState(s, LLC, a, "U") EXCEPT !.pend[a] = "up"]
       ELSE [Fill(StillThere(Process(s1, Next(w.core), w.core, a, w.op, i, FALSE)),
                  w.core, a, w.op, v) EXCEPT !.waiters[a] = Tail(@)]

(* The network thread goes on with the loop, or leaves it.                 *)
LoopOn(s, a) == IF s.waiters[a] # <<>> /\ s.pend[a] = "none" THEN a ELSE NoLine

(* processExRep, processShRep and processUpgradeRepFromDramDirectory.      *)
ApplyReply(s, a, v) ==
  LET s0 == [s EXCEPT !.pend[a] = "none"]
  IN CASE s.pend[a] = "up" -> UpdateCacheBlock(s0, LLC, a, "M", FALSE)
       [] s.pend[a] = "ex" -> InsertCacheBlock(s0, LLC, a, "E", s.mem[a], v)
       [] OTHER -> InsertCacheBlock(s0, LLC, a, "S", s.mem[a], v)

(* A reply of the directory and the first waiter it serves.  MESI grants a *)
(* read EXCLUSIVE when nobody else has the line.                           *)
Reply(a, exclusive, v) ==
  /\ stack_sim = NoLine /\ stack.pend[a] # "none"
  /\ exclusive => stack_mode.mesi /\ stack.pend[a] = "sh"
  /\ LET s0 == IF exclusive THEN [stack EXCEPT !.pend[a] = "ex"] ELSE stack
     IN \E s \in {ServeFront(ApplyReply(s0, a, v), a, v)} :
          /\ stack' = Settle(s)
          /\ stack_sim' = LoopOn(s, a)
  /\ UNCHANGED stack_mode

ServeNext(v) ==
  /\ stack_sim # NoLine
  /\ \E s \in {ServeFront(stack, stack_sim, v)} :
       /\ stack' = Settle(s)
       /\ stack_sim' = LoopOn(s, stack_sim)
  /\ UNCHANGED stack_mode

(* INV_REQ, FLUSH_REQ and WB_REQ of the directory.  An upgrade that lost   *)
(* its line is answered with data, as an exclusive request (Coherence).    *)
ProcessInvReq(s, a) == UpdateCacheBlock(s, LLC, a, "I", FALSE)
WriteOut(s, a) == [s EXCEPT !.mem[a] = s.out]
ProcessFlushReq(s, a) == WriteOut(UpdateCacheBlock(s, LLC, a, "I", TRUE), a)
ProcessWbReq(s, a) ==
  IF GetCacheState(s, LLC, a) = "U" THEN s
  ELSE WriteOut(UpdateCacheBlock(s, LLC, a, "S", TRUE), a)

Recall(a, kind) ==
  /\ stack_sim = NoLine /\ ~stack_mode.dram
  /\ LET st == GetCacheState(stack, LLC, a)
         s1 == CASE kind = "inv" -> ProcessInvReq(stack, a)
                 [] kind = "flush" -> ProcessFlushReq(stack, a)
                 [] OTHER -> ProcessWbReq(stack, a)
         Asked(s) == [s EXCEPT !.pend[a] =
                        IF @ = "up" /\ GetCacheState(s, LLC, a) = "I" THEN "ex" ELSE @]
     IN /\ st \in (CASE kind = "inv" -> {"S", "U"}
                     [] kind = "flush" -> {"E", "M"}
                     [] OTHER -> {"E", "M", "S", "U"})
        /\ stack' = Settle(Asked(s1))
  /\ UNCHANGED <<stack_mode, stack_sim>>

StackInit ==
  /\ stack_mode \in StackModes
  /\ stack = [c |-> [n \in Nodes |-> [a \in StackLines |-> Absent]],
              buf |-> [n \in Nodes |-> [line |-> NoLine, fresh |-> FALSE]],
              mem |-> [a \in StackLines |-> TRUE],
              waiters |-> [a \in StackLines |-> <<>>],
              pend |-> [a \in StackLines |-> "none"],
              q |-> <<>>, err |-> {},
              hit |-> FALSE, phit |-> FALSE, out |-> FALSE,
              trained |-> FALSE]
  /\ stack_sim = NoLine

StackNext ==
  \/ \E n \in Nodes, a, v \in StackLines, op \in {"R", "W"},
        list \in PrefetchLists, ripe \in BOOLEAN :
       MemOp(n, a, op, v, list, ripe)
  \/ \E a, v \in StackLines, exclusive \in BOOLEAN : Reply(a, exclusive, v)
  \/ \E v \in StackLines : ServeNext(v)
  \/ \E a \in StackLines, kind \in {"inv", "flush", "wb"} : Recall(a, kind)

-----------------------------------------------------------------------------
(* Every cell has a state the controllers know, only the last level is     *)
(* ever upgrading, and the prefetch list has at most one entry more than   *)
(* PREFETCH_MAX_QUEUE_LENGTH (trainPrefetcher).                            *)
StackTypeOK ==
  /\ \A n \in Nodes, a \in StackLines :
       /\ GetCacheState(stack, n, a) \in {"I", "S", "E", "M", "U"}
       /\ GetCacheState(stack, n, a) = "U" => IsLast(n)
       /\ stack.c[n][a].fresh \in BOOLEAN /\ stack.c[n][a].pf \in BOOLEAN
  /\ \A n \in Nodes : Cardinality(Valid(stack, n)) <= stack_mode.ways[n]
  /\ stack.q \in Seq(StackLines) /\ Len(stack.q) <= PrefetchMax + 1
  /\ stack_sim \in StackLines \cup {NoLine}

(* No assertion of the controllers fails: no write-back meets a line that  *)
(* is not MODIFIED, no modified data is lost, a filled line is there.      *)
StackAssertions == stack.err = {}

(* Inclusion: what a level holds, the level below it holds as well, and    *)
(* with at least the same rights, after any mix of fills, evictions,       *)
(* upgrades, prefetches and recalls.                                       *)
Inclusive ==
  \A n \in Nodes, a \in StackLines :
    LET st == GetCacheState(stack, n, a) IN
    ~IsLast(n) /\ st # "I" =>
      /\ GetCacheState(stack, Next(n), a) # "I"
      /\ st = "M" => GetCacheState(stack, Next(n), a) = "M"

(* At most one first-level cache may write a line without asking the next  *)
(* level, and its copy is the latest value: what it writes back is never   *)
(* older than what another core wrote meanwhile.                           *)
OneWriter ==
  \A a \in StackLines, m, n \in L1s :
    GetCacheState(stack, n, a) = "M" =>
      /\ stack.c[n][a].fresh
      /\ GetCacheState(stack, m, a) = "M" => m = n

(* A write that hits is to "Invalidate/flush in previous levels": no core  *)
(* reads an old value, every copy a first-level cache may read is the      *)
(* latest.  Refuted where two caches share a level: a read of a MODIFIED   *)
(* line hands its state to the reader, whose next write stays local.       *)
ReadersSeeLatest ==
  \A n \in L1s, a \in StackLines :
    OperationPermissibleinCache(stack, n, a, "R") => stack.c[n][a].fresh

(* No write is lost: the latest value is in memory or in a MODIFIED copy,  *)
(* which eviction and recall must write back.                              *)
LatestSurvives ==
  \A a \in StackLines :
    \/ stack.mem[a]
    \/ \E n \in Nodes : GetCacheState(stack, n, a) = "M" /\ stack.c[n][a].fresh

(* The cache levels of a core: no assertion of the controllers fails, what  *)
(* a level holds the level below holds with at least the same rights, at    *)
(* most one first-level cache may write a line without asking and its copy  *)
(* is the latest, and the latest value is in memory or in a MODIFIED copy.  *)
StackCorrect ==
    StackTypeOK /\ StackAssertions /\ Inclusive /\ OneWriter /\ LatestSurvives
=============================================================================
