------------------------------ MODULE CacheSet ------------------------------
(***************************************************************************)
(* One set of a cache and its replacement policy                           *)
(* (common/core/memory_subsystem/cache/cache_set*.cc).  The policy of the  *)
(* set is chosen when it is created; every operation of Cache on the set   *)
(* is one action, executed under the set lock (module SetLock).            *)
(*                                                                         *)
(* Tags are abstracted away: a policy sees of a way only whether it is     *)
(* valid (m_tag # ~0) and whether isValidReplacement accepts it, so a way  *)
(* is "free", "held" or "upgrading" (CState SHARED_UPGRADING), and the     *)
(* way CacheSet::find returns for a tag is an input of the action.         *)
(***************************************************************************)
EXTENDS Integers, Sequences, FiniteSets

CONSTANTS Assoc,         \* m_associativity; PLRU is implemented for 4 and 8
          RripMax,       \* m_rrip_max = 2^srrip/bits - 1
          MaxUpgrading   \* lines of the set being upgraded at a time

\* The replacement bits and counters are UInt8.
ASSUME SetAssumption ==
    /\ Assoc \in Nat \ {0} /\ Assoc <= 256
    /\ RripMax \in Nat \ {0} /\ RripMax <= 255 /\ MaxUpgrading \in Nat

VARIABLES set_policy,    \* the subclass createCacheSet made
          set_ways,      \* m_cache_block_info_array
          set_repl,      \* the replacement state: bits, pointer, bits set
          set_recency,   \* history: the ways, most recently used first
          set_last       \* what the last getReplacementIndex did

setVars == <<set_policy, set_ways, set_repl, set_recency, set_last>>

Ways == 0..(Assoc - 1)
Policies == {"round_robin", "lru", "nru", "mru", "nmru", "plru", "srrip", "random"}
StackPolicies == {"lru", "mru", "nmru"}   \* m_lru_bits is a position in a stack
Tracked == StackPolicies \cup {"plru"}    \* the history is kept for these

Upgrading == {w \in Ways : set_ways[w] = "upgrading"}

\* CacheSet::isValidReplacement.
isValidReplacement(w) == set_ways[w] # "upgrading"

-----------------------------------------------------------------------------
\* updateReplacementIndex of each policy: the replacement state r after way w
\* is touched.

\* Mutant: the ways above the accessed one keep their position.
MoveToFront(r, w) ==
    [r EXCEPT !.bits = [i \in Ways |-> IF i = w THEN 0 ELSE r.bits[i]]]

MoveToMRU(r, w) ==
    [r EXCEPT !.bits = [i \in Ways |-> IF i = w THEN 0
                                       ELSE IF r.bits[i] < r.bits[w] THEN r.bits[i] + 1
                                       ELSE r.bits[i]]]

\* Mutant: the bits are not cleared when the count wraps.
NRUNoReset(r, w) ==
    [r EXCEPT !.bits[w] = 1, !.set = (r.set + 1) % Assoc]

NRUUpdate(r, w) ==
    IF r.set + 1 = Assoc
    THEN [r EXCEPT !.bits = [i \in Ways |-> 0], !.set = 0]
    ELSE [r EXCEPT !.bits[w] = 1, !.set = r.set + 1]

\* The tree of three (seven) bits: a node is set when the access went to its
\* left half, and points to the half to evict from.
PLRUUpdate(r, w) ==
    IF Assoc = 4
    THEN [r EXCEPT !.bits[0] = IF w < 2 THEN 1 ELSE 0,
                   !.bits[1 + (w \div 2)] = 1 - (w % 2)]
    ELSE [r EXCEPT !.bits[0] = IF w < 4 THEN 1 ELSE 0,
                   !.bits[1 + 3 * (w \div 4)] = IF w % 4 < 2 THEN 1 ELSE 0,
                   !.bits[2 + 3 * (w \div 4) + ((w % 4) \div 2)] = 1 - (w % 2)]

\* Mutant: the counter is decremented below zero.
SRRIPNoFloor(r, w) == [r EXCEPT !.bits[w] = r.bits[w] - 1]

SRRIPUpdate(r, w) ==
    [r EXCEPT !.bits[w] = IF r.bits[w] > 0 THEN r.bits[w] - 1 ELSE 0]

UpdateReplacementIndex(r, w) ==
    CASE set_policy \in StackPolicies -> MoveToMRU(r, w)
      [] set_policy = "nru"           -> NRUUpdate(r, w)
      [] set_policy = "plru"          -> PLRUUpdate(r, w)
      [] set_policy = "srrip"         -> SRRIPUpdate(r, w)
      [] OTHER                        -> r   \* round_robin, random

-----------------------------------------------------------------------------
\* getReplacementIndex of each policy: the set of possible results, a way,
\* the replacement state it leaves and the error it stops with.

Found(w, r)  == [way |-> w, repl |-> r, error |-> "none"]
Failed(e)    == [way |-> 0, repl |-> set_repl, error |-> e]
Fill(w)      == Found(w, UpdateReplacementIndex(set_repl, w))

Free == {w \in Ways : set_ways[w] = "free"}
FirstFree == CHOOSE w \in Free : \A v \in Free : w <= v

\* The first way of C from the pointer on, and the pointer past it.
Scan(C) ==
    LET at(k) == (set_repl.ptr + k) % Assoc
        K     == {k \in Ways : at(k) \in C}
        k1    == CHOOSE k \in K : \A j \in K : k <= j
    IN  IF K = {} THEN {Failed("no victim")}
        ELSE {Found(at(k1), [set_repl EXCEPT !.ptr = at(k1 + 1)])}

\* Mutant: isValidReplacement is not consulted.
LRUVictimAny ==
    LET C == {w \in Ways : set_repl.bits[w] > 0}
    IN  {Fill(CHOOSE w \in C : \A v \in C : set_repl.bits[v] <= set_repl.bits[w])}

LRUVictim ==
    LET C == {w \in Ways : set_repl.bits[w] > 0 /\ isValidReplacement(w)}
    IN  IF C = {} THEN {Fill(0)}
        ELSE {Fill(CHOOSE w \in C : \A v \in C : set_repl.bits[v] <= set_repl.bits[w])}

MRUVictim ==
    LET C == {w \in Ways : isValidReplacement(w)}
    IN  IF C = {} THEN {Failed("no victim")}
        ELSE {Fill(CHOOSE w \in C : \A v \in C : set_repl.bits[w] <= set_repl.bits[v])}

\* NRU takes the first untouched way, NMRU the first that is not the most
\* recently used; both mark it used after the pointer has moved.
PointerVictim(C) ==
    {[s EXCEPT !.repl = IF s.error = "none" THEN UpdateReplacementIndex(s.repl, s.way) ELSE s.repl] :
        s \in Scan(C)}
NRUVictim  == PointerVictim({w \in Ways : set_repl.bits[w] = 0 /\ isValidReplacement(w)})

\* Mutant: the most recently used way is not skipped.
NMRUVictimAny == PointerVictim({w \in Ways : isValidReplacement(w)})
NMRUVictim == PointerVictim({w \in Ways : set_repl.bits[w] # 0 /\ isValidReplacement(w)})

PLRUVictim ==
    LET b == set_repl.bits
        w == IF Assoc = 4
             THEN IF b[0] = 0 THEN b[1] ELSE 2 + b[2]
             ELSE LET h == 3 * b[0]
                      q == b[1 + h]
                  IN  4 * b[0] + 2 * q + b[2 + h + q]
    IN  IF isValidReplacement(w) THEN {Fill(w)} ELSE {Failed("assertion")}

\* The counters grow together until one of them reaches the maximum.
SRRIPVictim ==
    LET top   == CHOOSE m \in 0..RripMax :
                    /\ \E w \in Ways : set_repl.bits[w] = m
                    /\ \A w \in Ways : set_repl.bits[w] <= m
        aged  == [w \in Ways |-> set_repl.bits[w] + RripMax - top]
    IN  {IF s.error # "none" \/ ~isValidReplacement(s.way) THEN Failed("assertion")
         ELSE [s EXCEPT !.repl.bits = [aged EXCEPT ![s.way] = RripMax - 1]] :
            s \in Scan({w \in Ways : aged[w] = RripMax})}

\* The test is on the way after the one returned: the pointer steps down
\* until the way below the candidate may be replaced.
RoundRobinVictim ==
    LET at(k) == (set_repl.ptr + Assoc - k) % Assoc
        K     == {k \in 1..Assoc : isValidReplacement(at(k))}
        k1    == CHOOSE k \in K : \A j \in K : k <= j
    IN  IF K = {} THEN {Failed("recursion")}
        ELSE {Found(at(k1 - 1), [set_repl EXCEPT !.ptr = at(k1)])}

RandomVictim ==
    IF Upgrading = Ways THEN {Failed("recursion")}
    ELSE {Found(w, set_repl) : w \in {v \in Ways : isValidReplacement(v)}}

\* All but round_robin take the first invalid way when there is one; SRRIP
\* predicts a long interval for it rather than calling updateReplacementIndex.
GetReplacementIndex ==
    CASE set_policy = "round_robin" -> RoundRobinVictim
      [] set_policy = "srrip" /\ Free # {} ->
            {Found(FirstFree, [set_repl EXCEPT !.bits[FirstFree] = RripMax - 1])}
      [] set_policy \notin {"round_robin", "srrip"} /\ Free # {} -> {Fill(FirstFree)}
      [] OTHER ->
            CASE set_policy = "lru"   -> LRUVictim
              [] set_policy = "mru"   -> MRUVictim
              [] set_policy = "nru"   -> NRUVictim
              [] set_policy = "nmru"  -> NMRUVictim
              [] set_policy = "plru"  -> PLRUVictim
              [] set_policy = "srrip" -> SRRIPVictim
              [] OTHER                -> RandomVictim

-----------------------------------------------------------------------------
NoVictim == [way |-> -1, evicted |-> "free", last |-> 0, error |-> "none", upgrading |-> {}]

\* The constructors; m_lru_bits of a stack policy starts as the identity.
InitialRepl(p) ==
    [bits |-> [w \in Ways |-> CASE p \in StackPolicies -> w
                                [] p = "srrip"         -> RripMax - 1
                                [] OTHER               -> 0],
     ptr  |-> IF p = "round_robin" THEN Assoc - 1 ELSE 0,
     set  |-> 0]

SetInit ==
    /\ set_policy \in Policies /\ (set_policy = "plru" => Assoc \in {4, 8})
    /\ set_ways = [w \in Ways |-> "free"]
    /\ set_repl = InitialRepl(set_policy)
    /\ set_recency = [i \in 1..Assoc |-> i - 1]
    /\ set_last = NoVictim

\* The way w goes to the front of the order of use q.
ToFront(q, w) ==
    LET p == CHOOSE i \in 1..Assoc : q[i] = w
    IN  [i \in 1..Assoc |-> IF i = 1 THEN w ELSE IF i <= p THEN q[i - 1] ELSE q[i]]

Touched(q, w) == IF set_policy \in Tracked THEN ToFront(q, w) ELSE q
Touch(w) == set_recency' = Touched(set_recency, w)

\* Cache::accessSingleLine on a hit, through read_line or write_line.
Access(w, update) ==
    /\ set_last.error = "none" /\ set_ways[w] # "free"
    /\ IF update THEN set_repl' = UpdateReplacementIndex(set_repl, w) /\ Touch(w)
                 ELSE UNCHANGED <<set_repl, set_recency>>
    /\ set_last' = NoVictim
    /\ UNCHANGED <<set_policy, set_ways>>

\* Cache::insertSingleLine through CacheSet::insert; the caller gives the new
\* line its state in the same critical section.
Insert ==
    /\ set_last.error = "none"
    /\ \E v \in GetReplacementIndex :
        /\ set_last' = [way |-> v.way, evicted |-> IF v.error = "none" THEN set_ways[v.way] ELSE "free",
                        last |-> set_recency[1], error |-> v.error, upgrading |-> Upgrading]
        /\ IF v.error # "none" THEN UNCHANGED <<set_ways, set_repl, set_recency>>
           ELSE /\ set_ways' = [set_ways EXCEPT ![v.way] = "held"]
                /\ set_repl' = v.repl
                /\ Touch(v.way)
    /\ UNCHANGED set_policy

\* Cache::invalidateSingleLine: the replacement state keeps its value.
Invalidate(w) ==
    /\ set_last.error = "none" /\ set_ways[w] # "free"
    /\ set_ways' = [set_ways EXCEPT ![w] = "free"]
    /\ set_last' = NoVictim
    /\ UNCHANGED <<set_policy, set_repl, set_recency>>

\* The cache controller starts and ends the upgrade of a line it holds.
SetCState(w) ==
    /\ set_last.error = "none"
    /\ \/ set_ways[w] = "held" /\ Cardinality(Upgrading) < MaxUpgrading
          /\ set_ways' = [set_ways EXCEPT ![w] = "upgrading"]
       \/ set_ways[w] = "upgrading" /\ set_ways' = [set_ways EXCEPT ![w] = "held"]
    /\ set_last' = NoVictim
    /\ UNCHANGED <<set_policy, set_repl, set_recency>>

SetNext ==
    \/ \E w \in Ways : Access(w, TRUE) \/ Access(w, FALSE) \/ Invalidate(w) \/ SetCState(w)
    \/ Insert

SetSpec == SetInit /\ [][SetNext]_setVars

-----------------------------------------------------------------------------
(* Every component of the state keeps its range; in particular the RRIP    *)
(* counters and the NRU count never leave the range of their UInt8.        *)
SetTypeOK ==
    /\ set_policy \in Policies
    /\ set_ways \in [Ways -> {"free", "held", "upgrading"}]
    /\ set_repl \in [bits : [Ways -> 0..(IF set_policy = "srrip" THEN RripMax ELSE Assoc - 1)],
                     ptr : Ways, set : Ways]
    /\ set_recency \in [1..Assoc -> Ways]
    /\ set_last.error \in {"none", "no victim", "assertion", "recursion"}

(* The bits of LRU, MRU and NMRU are the positions of the ways in the      *)
(* order of their last use, whatever invalidations and fills come between  *)
(* (moveToMRU increments only the ways below the accessed one, which       *)
(* renumbers a permutation only if the bits are one).                      *)
BitsAreRecency ==
    set_policy \in StackPolicies =>
        \A i \in 1..Assoc : set_repl.bits[set_recency[i]] = i - 1

(* A set none of whose lines is being upgraded always finds a victim: NRU  *)
(* keeps an untouched way, SRRIP's aging stops within m_rrip_max rounds,   *)
(* and none of the errors and assertions of getReplacementIndex is         *)
(* reached.                                                                *)
VictimFound == set_last.upgrading = {} => set_last.error = "none"

\* What LRU and NMRU looked for a victim in: the ways that were not being
\* upgraded, but the one used last.
Spare == Ways \ (set_last.upgrading \cup {set_last.last})

(* Upgrades in flight, any number of them.  A line being upgraded is       *)
(* evicted by round robin, which tests the way after the one it returns,   *)
(* and by LRU when there is nothing to spare, because it then returns the  *)
(* index 0 it started with; every other policy keeps it.  getReplacement-  *)
(* Index stops the simulator or never returns only for NRU, PLRU and SRRIP *)
(* (which one upgrade may stop), for NMRU with nothing to spare, and for   *)
(* the others when the whole set is being upgraded.                        *)
UpgradeNotEvicted ==
    /\ set_last.evicted = "upgrading" =>
         set_policy = "round_robin" \/ (set_policy = "lru" /\ Spare = {})
    /\ set_last.error # "none" =>
         \/ set_policy \in {"nru", "plru", "srrip"}
         \/ set_policy = "nmru" /\ Spare = {}
         \/ set_policy \in {"mru", "random", "round_robin"} /\ set_last.upgrading = Ways

(* NMRU and tree PLRU never evict the line that was used last, and LRU     *)
(* does only when every other way is being upgraded.                       *)
LastUsedKept ==
    (set_policy \in {"lru", "nmru", "plru"} /\ set_last.evicted = "held"
        /\ set_last.way = set_last.last) => set_policy = "lru" /\ Spare = {}

(* Every replacement policy, through any mix of hits, fills, invalidations  *)
(* and upgrades: the bits of the LRU family are the order of last use, a    *)
(* set without upgrades always finds a victim, an upgrade in flight loses   *)
(* its line only to round robin and to LRU's last resort, each policy stops *)
(* only where its search says so, and LRU, NMRU and PLRU keep the line used *)
(* last while they can.                                                     *)
ReplacementCorrect ==
    SetTypeOK /\ BitsAreRecency /\ VictimFound /\ UpgradeNotEvicted /\ LastUsedKept

-----------------------------------------------------------------------------
\* What isValidReplacement is for, stated for every policy, and refuted.

(* The way of a line being upgraded is no valid replacement (cache_set.cc,  *)
(* isValidReplacement): refuted by round robin, and by LRU with nothing to  *)
(* spare.                                                                   *)
UpgradingIsNoVictim == set_last.evicted # "upgrading"

(* "PLRU selected an invalid replacement candidate", "SRRIP selected an     *)
(* invalid replacement candidate", "Error Finding LRU bits": these errors   *)
(* occur only when the whole set is being upgraded.  Refuted by one upgrade *)
(* under NRU, PLRU and SRRIP.                                               *)
VictimAmongOthers == set_last.upgrading # Ways => set_last.error = "none"
=============================================================================
