--------------------------- MODULE BranchPredictor ---------------------------
(***************************************************************************)
(* The Pentium M branch predictor: a loop predictor and a branch target    *)
(* buffer, a global predictor tagged with the history of taken branches,   *)
(* and a bimodal table for what both miss.                                 *)
(*                                                                         *)
(* All branches fall into one set of each table, so that they compete for  *)
(* its ways; index and tag are taken to tell branches, and for the global  *)
(* predictor histories, apart.  BpBranches are numbers and 0 is a tag of   *)
(* its own: it is what the tables of the loop predictor and of the target  *)
(* buffer hold before they are written, and they have no valid bit.        *)
(*                                                                         *)
(* Every branch repeats a loop: a run of one outcome, then the other once. *)
(***************************************************************************)
EXTENDS Integers, Sequences, FiniteSets, FiniteSetsExt

CONSTANTS BpBranches, BpWays,
          Runs,          \* lengths of the runs loops are made of
          HistoryLength, \* taken branches kept in the path register
          MaxChanges,    \* bound: how often a branch changes its loop
          MaxBranches    \* bound: executions of branches

VARIABLES bp_loop,       \* each branch's loop: run length, outcome, position, repetitions
          bp_lpb,        \* LoopBranchPredictor: the ways of the set, most recent last in bp_order
          bp_btb,        \* tags of the target buffer
          bp_global,     \* GlobalPredictor
          bp_bimodal,    \* SimpleBimodalTable: a saturating counter per branch
          bp_pir,        \* m_pir
          bp_order,      \* the ways of lpb, btb and global by last use
          bp_changes, bp_done

bpVars == <<bp_loop, bp_lpb, bp_btb, bp_global, bp_bimodal, bp_pir, bp_order, bp_changes, bp_done>>

Ways  == 1 .. BpWays
Learn == 3      \* repetitions of a loop, the first perhaps seen in part only, after which it is known
-----------------------------------------------------------------------------
(* SaturatingPredictor<n>: a signed counter of n bits; it predicts taken when not negative. *)
Predict(c)      == c >= 0
Reset(n, taken) == IF taken THEN 2 ^ (n - 1) - 1 ELSE -(2 ^ (n - 1))
Step(n, c, up)  == IF up THEN (IF c = 2 ^ (n - 1) - 1 THEN c ELSE c + 1)
                         ELSE (IF c = -(2 ^ (n - 1)) THEN c ELSE c - 1)

(* The tables replace the way used longest ago; order lists the ways, oldest first. *)
Used(order, w)  == SelectSeq(order, LAMBDA v : v # w) \o <<w>>
Holding(tab, x) == {w \in Ways : tab[w].tag = x}
WayFor(tab, order, x) ==
    IF Holding(tab, x) # {} THEN Min(Holding(tab, x)) ELSE Head(order)
-----------------------------------------------------------------------------
(* LoopBranchPredictor *)
EmptyLoop == [tag |-> 0, prev |-> FALSE, on |-> FALSE, dir |-> 0, count |-> 0, limit |-> 0]

LpbPrediction(e) == IF e.count = e.limit THEN ~Predict(e.dir) ELSE Predict(e.dir)

LpbHit(x) == \E w \in Holding(bp_lpb, x) : bp_lpb[w].on

LpbLookup(x) == LpbPrediction(bp_lpb[Min({w \in Holding(bp_lpb, x) : bp_lpb[w].on})])

(* Mutant: a longer loop leaves the old limit in place. *)
KeepsLimit(e, actual) ==
    IF LpbPrediction(e) = actual
    THEN [e EXCEPT !.count = IF e.count = e.limit THEN 0 ELSE e.count + 1]
    ELSE IF e.count < e.limit THEN [e EXCEPT !.count = 0, !.limit = e.count]
    ELSE [e EXCEPT !.count = e.count + 1, !.on = FALSE]

(* The entry if the branch goes on in its direction: the counter runs to the limit, which a *)
(* loop that ends early shortens, and one that goes on beyond it lengthens.                 *)
SameDirection(e, actual) ==
    IF LpbPrediction(e) = actual
    THEN [e EXCEPT !.count = IF e.count = e.limit THEN 0 ELSE e.count + 1]
    ELSE IF e.count < e.limit THEN [e EXCEPT !.count = 0, !.limit = e.count]
    ELSE [e EXCEPT !.count = e.count + 1, !.limit = e.count + 1, !.on = FALSE]

LpbEntry(e, actual) ==
    LET against == actual = ~Predict(e.dir)
        next == IF e.prev = actual /\ against
                THEN [e EXCEPT !.count = 1, !.limit = 1, !.on = FALSE, !.dir = Step(1, e.dir, actual)]
                ELSE IF e.prev # actual /\ against /\ ~e.on
                THEN [e EXCEPT !.on = TRUE, !.count = 0]
                ELSE SameDirection(e, actual)
    IN  [next EXCEPT !.prev = actual]

(* A new branch takes over the way used longest ago; whether the way is enabled is not reset. *)
LpbUpdate(x, actual) ==
    LET w == WayFor(bp_lpb, bp_order.lpb, x)
    IN  [bp_lpb EXCEPT ![w] =
            IF Holding(bp_lpb, x) # {} THEN LpbEntry(@, actual)
            ELSE [@ EXCEPT !.tag = x, !.dir = Reset(1, actual), !.prev = actual, !.count = 1, !.limit = 1]]

BtbHit(x) == Holding(bp_btb, x) # {}
-----------------------------------------------------------------------------
(* GlobalPredictor, which has a valid bit: an invalid way has no tag. *)
Path(x)   == <<x>> \o bp_pir
NoPath    == <<>>
GlobalHit(x)    == Holding(bp_global, Path(x)) # {}
GlobalLookup(x) == Predict(bp_global[Min(Holding(bp_global, Path(x)))].dir)

(* Mutant: the way used longest ago is taken even when the branch has one. *)
GlobalAllocates(x, actual) ==
    [bp_global EXCEPT ![Head(bp_order.global)] = [tag |-> Path(x), dir |-> Reset(2, actual)]]

GlobalUpdate(x, actual) ==
    [bp_global EXCEPT ![WayFor(bp_global, bp_order.global, Path(x))] =
        IF GlobalHit(x) THEN [@ EXCEPT !.dir = Step(2, @, actual)]
        ELSE [tag |-> Path(x), dir |-> Reset(2, actual)]]

(* predict: the global predictor first, then the loop predictor if the target is known. *)
LoopUsed(x) == LpbHit(x) /\ BtbHit(x)
Prediction(x) ==
    IF GlobalHit(x) THEN GlobalLookup(x) ELSE IF LoopUsed(x) THEN LpbLookup(x) ELSE Predict(bp_bimodal[x])
-----------------------------------------------------------------------------
(* What the branch does next, and its loop after that. *)
Outcome(l) == IF l.pos < l.run THEN l.dir ELSE ~l.dir
Advance(l) == IF l.pos < l.run THEN [l EXCEPT !.pos = @ + 1]
              ELSE [l EXCEPT !.pos = 0, !.reps = IF @ < Learn THEN @ + 1 ELSE @]

NewPir(x, actual) ==
    IF actual THEN SubSeq(<<x>> \o bp_pir, 1, Min({Len(bp_pir) + 1, HistoryLength})) ELSE bp_pir

(* Branches whose way in the loop predictor another branch has taken start learning anew. *)
Forgotten(loop) ==
    [y \in BpBranches |-> IF \E w \in Ways : bp_lpb'[w].tag = y THEN loop[y] ELSE [loop[y] EXCEPT !.reps = 0]]

(* One execution of a branch: predict, then update. *)
Branch(x) ==
    LET actual    == Outcome(bp_loop[x])
        predicted == Prediction(x)
        wl == WayFor(bp_lpb, bp_order.lpb, x)
        wb == WayFor(bp_btb, bp_order.btb, x)
        wg == WayFor(bp_global, bp_order.global, Path(x))
        wu == IF LpbHit(x) THEN Used(bp_order.lpb, Min({w \in Holding(bp_lpb, x) : bp_lpb[w].on})) ELSE bp_order.lpb
        learn == ~GlobalHit(x) /\ ~LoopUsed(x)
        wrong == predicted # actual
    IN  /\ bp_done < MaxBranches /\ bp_done' = bp_done + 1
        /\ bp_btb' = [bp_btb EXCEPT ![wb].tag = x]
        /\ bp_lpb' = LpbUpdate(x, actual)
        /\ bp_bimodal' = IF learn THEN [bp_bimodal EXCEPT ![x] = Step(2, @, actual)] ELSE bp_bimodal
        /\ bp_global' = IF wrong THEN GlobalUpdate(x, actual) ELSE bp_global
        /\ bp_pir' = NewPir(x, actual)
        /\ bp_order' = [lpb |-> Used(wu, WayFor(bp_lpb, wu, x)), btb |-> Used(bp_order.btb, wb),
                        global |-> IF wrong THEN Used(bp_order.global, wg) ELSE bp_order.global]
        /\ bp_loop' = Forgotten([bp_loop EXCEPT ![x] = Advance(@)])
        /\ UNCHANGED bp_changes

(* The program moves on: a branch is from now on part of another loop. *)
Change(x) ==
    /\ bp_changes < MaxChanges
    /\ bp_changes' = bp_changes + 1
    /\ \E r \in Runs, d \in BOOLEAN :
          bp_loop' = [bp_loop EXCEPT ![x] = [run |-> r, dir |-> d, pos |-> 0, reps |-> 0]]
    /\ UNCHANGED <<bp_lpb, bp_btb, bp_global, bp_bimodal, bp_pir, bp_order, bp_done>>

BpInit ==
    /\ bp_loop = [x \in BpBranches |-> [run |-> Min(Runs), dir |-> TRUE, pos |-> 0, reps |-> 0]]
    /\ bp_lpb = [w \in Ways |-> EmptyLoop]
    /\ bp_btb = [w \in Ways |-> [tag |-> 0]]
    /\ bp_global = [w \in Ways |-> [tag |-> NoPath, dir |-> 0]]
    /\ bp_bimodal = [x \in BpBranches |-> Reset(2, FALSE)]
    /\ bp_pir = <<>>
    /\ bp_order = [lpb |-> [w \in Ways |-> w], btb |-> [w \in Ways |-> w], global |-> [w \in Ways |-> w]]
    /\ bp_changes = 0 /\ bp_done = 0

BpNext == \E x \in BpBranches : Branch(x) \/ Change(x)
-----------------------------------------------------------------------------
(* Counters stay within their bits, histories within their length, ways are listed once. *)
BpTypeOK ==
    /\ \A w \in Ways : bp_lpb[w].dir \in {-1, 0} /\ bp_lpb[w].tag \in BpBranches \union {0}
    /\ \A w \in Ways : bp_global[w].dir \in -2 .. 1
    /\ \A x \in BpBranches : bp_bimodal[x] \in -2 .. 1
    /\ Len(bp_pir) \in 0 .. HistoryLength
    /\ \A t \in {"lpb", "btb", "global"} : {bp_order[t][i] : i \in Ways} = Ways

(* A loop is learned: a branch that has gone through the same loop Learn times, and whose way *)
(* was not taken by another branch meanwhile, hits in the loop predictor and in the target    *)
(* buffer, and the loop predictor knows when the run ends.  So a branch that is mispredicted  *)
(* from then on is one the global predictor, which is asked first, has an entry for.          *)
LoopLearned ==
    \A x \in BpBranches \ {0} :
        bp_loop[x].reps >= Learn =>
            /\ LoopUsed(x) /\ LpbLookup(x) = Outcome(bp_loop[x])
            /\ Prediction(x) # Outcome(bp_loop[x]) => GlobalHit(x)

(* Refuted by the code: the branch is predicted right from then on.  A misprediction while    *)
(* the loop was learned leaves an entry for the path in the global predictor, and that one    *)
(* answers first (pentium_m_branch_predictor.cc:29), at the end of every run too.             *)
LearnedIsPredicted ==
    \A x \in BpBranches \ {0} : bp_loop[x].reps >= Learn => Prediction(x) = Outcome(bp_loop[x])

(* A branch occupies at most one way of each table: an update finds the way lookups use. *)
OneWayEach ==
    /\ \A x \in BpBranches \ {0} : Cardinality(Holding(bp_lpb, x)) <= 1 /\ Cardinality(Holding(bp_btb, x)) <= 1
    /\ \A w, v \in Ways : (w # v /\ bp_global[w].tag = bp_global[v].tag) => bp_global[w].tag = NoPath

(* The loop predictor and its neighbours: for a branch that has gone        *)
(* through the same loop Learn times and kept its way the loop predictor is *)
(* right, the end of the run included, so that only the global predictor    *)
(* can mispredict it, and no branch or path has two ways of a table, so     *)
(* that updates go where lookups look.                                      *)
PredictorCorrect == BpTypeOK /\ LoopLearned /\ OneWayEach
=============================================================================
