---------------------------- MODULE Prefetchers ----------------------------
(***************************************************************************)
(* The two prefetchers: the global history buffer (GhbPrefetcher), which   *)
(* follows links between places where the same address delta occurred, and *)
(* the flow-based stride prefetcher (SimplePrefetcher).  Each call of      *)
(* getNextAddress is one action; the list it returns is kept.              *)
(***************************************************************************)
EXTENDS Integers, Sequences, FiniteSets

CONSTANTS PfAddresses,   \* addresses (of lines) the core uses
          GhbSize, TableSize, PfWidth, PfDepth,
          PfFlows, PfCount, PfPage,  \* SimplePrefetcher; page size in lines
          MaxWraps                   \* bound on the wraps of the buffer

VARIABLES ghb_last,      \* m_lastAddress
          ghb,           \* m_ghb: [next, delta, gen] and history: from, when
          ghb_head,      \* m_ghbHead
          ghb_wraps,     \* how often the buffer wrapped; m_generation mod 4
          ghb_table,     \* m_ghbTable: [index, delta, gen] and history: when
          ghb_tableHead, \* m_tableHead
          ghb_list,      \* the list returned last
          flow_prev,     \* m_prev_address
          flow_next,     \* n_flow_next
          flow_list      \* the list returned last, with its stride

ghbVars == <<ghb_last, ghb, ghb_head, ghb_wraps, ghb_table, ghb_tableHead,
             ghb_list>>
flowVars == <<flow_prev, flow_next, flow_list>>

None == -99              \* INVALID_ADDRESS, INVALID_DELTA, INVALID_INDEX

(* None is no difference of addresses.  A buffer of one entry would take   *)
(* the new delta for the one before it, which Record does not model.       *)
ASSUME PfAssumption ==
  /\ PfAddresses \subseteq Nat /\ \A a, b \in PfAddresses : a - b # None
  /\ GhbSize \in Nat /\ GhbSize > 1 /\ TableSize \in Nat \ {0} /\ MaxWraps \in Nat
  /\ PfWidth \in Nat \ {0} /\ PfDepth \in Nat /\ PfFlows \in Nat \ {0}
  /\ PfCount \in Nat /\ PfPage \in Nat \ {0}

Generation(w) == w % 4

(* Mutant: only the first entry of the table is looked at.                 *)
FirstEntryHit(delta) == {i \in {0} : ghb_table[i].delta = delta}

(* The loop over m_ghbTable stops at an unused entry or at the delta.      *)
TableHit(delta) == {i \in 0..TableSize - 1 :
                      /\ ghb_table[i].delta = delta
                      /\ \A j \in 0..i - 1 : ghb_table[j].delta # None}
Live(t) == t.index # None /\ t.gen = ghb[t.index].gen

(* The next link, unless it points to what has been overwritten since (the *)
(* test does not see that when the head itself has wrapped).               *)
NextLink(index) ==
  LET next == ghb[index].next IN
  IF (next > index \/ index > ghb_head) /\ next < ghb_head /\ next # None
    THEN None ELSE next

(* The places the outer loop visits, at most PfWidth of them.              *)
Places(index) ==
  LET step[k \in 1..PfWidth] ==
        IF k = 1 THEN index
        ELSE IF step[k - 1] = None THEN None ELSE NextLink(step[k - 1])
  IN {step[k] : k \in 1..PfWidth} \ {None}

(* The addresses the inner loop adds from one place.                       *)
DeltasFrom(index) ==
  LET entry(d) == ghb[(index + d) % GhbSize].delta
      depth == CHOOSE n \in 0..PfDepth :
                 /\ \A d \in 0..n - 1 : entry(d) # None
                 /\ n = PfDepth \/ entry(n) = None
  IN [d \in 1..depth |-> entry(d - 1)]

Predicted(address, index) ==
  LET ds == DeltasFrom(index)
      sum[n \in 0..Len(ds)] == IF n = 0 THEN address ELSE sum[n - 1] + ds[n]
  IN {sum[n] : n \in 1..Len(ds)}

(* Mutant: the table entry of the delta itself is pointed at the new place. *)
RecordOwnDelta(delta) ==
  LET hits == TableHit(delta)
      i == IF hits # {} THEN CHOOSE k \in hits : TRUE ELSE ghb_tableHead
  IN /\ ghb' = [ghb EXCEPT ![ghb_head] = [next |-> None, delta |-> delta,
                  gen |-> Generation(ghb_wraps),
                  from |-> ghb[(ghb_head + GhbSize - 1) % GhbSize].delta,
                  when |-> ghb_wraps]]
     /\ ghb_table' = [ghb_table EXCEPT ![i] = [index |-> ghb_head,
                  delta |-> delta, gen |-> Generation(ghb_wraps),
                  when |-> ghb_wraps]]
     /\ ghb_tableHead' = (ghb_tableHead + 1) % TableSize
     /\ ghb_head' = (ghb_head + 1) % GhbSize
     /\ ghb_wraps' = IF ghb_head + 1 = GhbSize THEN ghb_wraps + 1
                                               ELSE ghb_wraps

(* The second half of getNextAddress: the delta goes into the buffer, and  *)
(* the table entry of the delta before it now points there.                *)
Record(delta) ==
  LET prevHead == IF ghb_head > 0 THEN ghb_head - 1 ELSE GhbSize - 1
      prev == ghb[prevHead].delta
      hits == TableHit(prev)
      i == IF hits # {} THEN CHOOSE k \in hits : TRUE ELSE ghb_tableHead
      \* the head entry has its new generation when liveness is tested
      live == /\ ghb_table[i].index # None
              /\ ghb_table[i].gen = IF ghb_table[i].index = ghb_head
                                      THEN Generation(ghb_wraps)
                                      ELSE ghb[ghb_table[i].index].gen
      link == IF prev # None /\ hits # {} /\ live
                THEN ghb_table[i].index ELSE None
  IN /\ ghb' = [ghb EXCEPT ![ghb_head] = [next |-> link, delta |-> delta,
                  gen |-> Generation(ghb_wraps), from |-> prev,
                  when |-> ghb_wraps]]
     /\ IF prev = None THEN UNCHANGED <<ghb_table, ghb_tableHead>>
        ELSE /\ ghb_table' = [ghb_table EXCEPT ![i] =
                  [index |-> ghb_head, delta |-> prev,
                   gen |-> Generation(ghb_wraps), when |-> ghb_wraps]]
             /\ ghb_tableHead' = IF hits # {} THEN ghb_tableHead
                                 ELSE (ghb_tableHead + 1) % TableSize
     /\ ghb_head' = (ghb_head + 1) % GhbSize
     /\ ghb_wraps' = IF ghb_head + 1 = GhbSize THEN ghb_wraps + 1
                                               ELSE ghb_wraps

(* GhbPrefetcher::getNextAddress.                                          *)
GhbNext(address) ==
  LET delta == address - ghb_last
      hits == TableHit(delta)
      start == {i \in hits : Live(ghb_table[i])}
  IN /\ ghb_wraps < MaxWraps
     /\ ghb_last' = address
     /\ IF ghb_last = None
          THEN /\ ghb_list' = {}
               /\ UNCHANGED <<ghb, ghb_head, ghb_wraps, ghb_table,
                              ghb_tableHead>>
          ELSE /\ ghb_list' = UNION {UNION {Predicted(address, p) :
                                p \in Places(ghb_table[i].index)} : i \in start}
               /\ Record(delta)

-----------------------------------------------------------------------------
Distance(x, y) == IF x > y THEN x - y ELSE y - x

(* The first of the nearest flows, or the one whose turn it is.            *)
FlowOf(address) ==
  LET near == {i \in 0..PfFlows - 1 : Distance(address, flow_prev[i]) < PfPage}
  IN IF near = {} THEN flow_next ELSE CHOOSE i \in near : \A j \in near :
       /\ Distance(address, flow_prev[i]) <= Distance(address, flow_prev[j])
       /\ Distance(address, flow_prev[i]) = Distance(address, flow_prev[j])
            => i <= j

(* SimplePrefetcher::getNextAddress, with stop_at_page_boundary.           *)
SimpleNext(address) ==
  LET flow == FlowOf(address)
      stride == address - flow_prev[flow]
      all == [k \in 1..PfCount |-> address + (k - 1) * stride]
      samePage(x) == x \div PfPage = address \div PfPage
  IN /\ flow_next' = (flow_next + 1) % PfFlows
     /\ flow_prev' = [flow_prev EXCEPT ![flow] = address]
     /\ flow_list' = IF stride = 0 THEN <<>> ELSE SelectSeq(all, samePage)

PfInit ==
  /\ ghb_last = None /\ ghb_head = 0 /\ ghb_wraps = 0 /\ ghb_tableHead = 0
  /\ ghb = [i \in 0..GhbSize - 1 |-> [next |-> None, delta |-> None,
              gen |-> 0, from |-> None, when |-> 0]]
  /\ ghb_table = [i \in 0..TableSize - 1 |->
                    [index |-> None, delta |-> None, gen |-> 0, when |-> 0]]
  /\ ghb_list = {}
  /\ flow_prev = [i \in 0..PfFlows - 1 |-> 0]
  /\ flow_next = 0 /\ flow_list = <<>>

PfNext ==
  \/ \E a \in PfAddresses : GhbNext(a) /\ UNCHANGED flowVars
  \/ \E a \in PfAddresses : SimpleNext(a) /\ UNCHANGED ghbVars

PfSpec == PfInit /\ [][PfNext]_<<ghbVars, flowVars>>

-----------------------------------------------------------------------------
(* Indices stay inside the arrays, through every wrap.                     *)
PfTypeOK ==
  /\ ghb_head \in 0..GhbSize - 1 /\ ghb_tableHead \in 0..TableSize - 1
  /\ \A i \in 0..GhbSize - 1 : ghb[i].next \in (0..GhbSize - 1) \cup {None}
  /\ \A i \in 0..TableSize - 1 :
       ghb_table[i].index \in (0..GhbSize - 1) \cup {None}

(* The table points to places where its delta occurred: an entry the code  *)
(* takes for live, and that is less than four wraps old (the generation    *)
(* has two bits), leads to a buffer entry recorded right after its delta.  *)
TableLeadsToDelta ==
  \A i \in 0..TableSize - 1 :
    LET t == ghb_table[i] IN
    Live(t) /\ ghb_wraps - t.when < 4 => ghb[t.index].from = t.delta

(* Each delta has one entry in the table, else the search would find the   *)
(* older one for ever.                                                     *)
OneEntryPerDelta ==
  \A i, j \in 0..TableSize - 1 :
    ghb_table[i].delta = ghb_table[j].delta /\ ghb_table[i].delta # None
      => i = j

(* The global history buffer through its wrap-arounds: a table entry the    *)
(* code takes for live, and that is less than four wraps old, leads to a    *)
(* place where its delta occurred, and no delta has two entries.            *)
HistoryCorrect == PfTypeOK /\ TableLeadsToDelta /\ OneEntryPerDelta
=============================================================================
