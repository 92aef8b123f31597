------------------------------ MODULE MCMemory ------------------------------
(***************************************************************************)
(* The parts of the memory system that work on their own data: cache sets, *)
(* the directory cache, the cache levels of a core, the caches beside      *)
(* memory, prefetchers, the machine's layout, the network, and the         *)
(* accesses of a core with its TLBs. They share no state in these models,  *)
(* so a behaviour is one of one part. The three parts MemoryProofs is      *)
(* about are extended, so that the properties and the assumptions          *)
(* evaluated are those of the proofs; the others are instantiated.         *)
(***************************************************************************)
EXTENDS DirectoryCache, CacheSet, Prefetchers, TLC

CONSTANTS Parts, StackLines, StackModes, PrefetchMax, PrefetchLists, SideLines, SideWays,
          AtdCores, Layouts, LayoutBlocks, HomeBlocks, NetModels, NetReceivers, LineSize,
          PageLines, AccAddresses, AccSizes, Wrap, TlbWays, StlbWays, MaxInfos, HpiCores,
          HpiCounts, HpiCore, HpiGlobal, MaxCount

VARIABLES which,   \* the part this behaviour is about
          stack_mode, stack, stack_sim,
          side_set, side_state, side_dram, side_again, side_kind, atd, atd_shared, atd_last,
          atd_count,
          lay, lay_built, lay_error, lay_dirs, lay_drams, lay_locks, lay_package, lay_apic,
          net_cfg, net_enabled, net_sent, net_walk, net_link, net_got, net_queue, net_wake,
          net_recv,
          acc, acc_lock, acc_saved, acc_infos, acc_issued, acc_last, acc_fetched, tlb,
          tlb_used, hpi_ins, hpi_next, hpi_last, hpi_at, hpi_sum, hpi_due, hpi_calls

ST == INSTANCE CacheStack
MS == INSTANCE MemorySide
LY == INSTANCE MemoryLayout
NT == INSTANCE Network
CA == INSTANCE CoreAccess

prefetchVars == <<ghbVars, flowVars>>
stackVars == <<stack_mode, stack, stack_sim>>
sideVars == <<side_set, side_state, side_dram, side_again, side_kind, atd, atd_shared,
              atd_last, atd_count>>
layoutVars == <<lay, lay_built, lay_error, lay_dirs, lay_drams, lay_locks, lay_package,
                lay_apic>>
networkVars == <<net_cfg, net_enabled, net_sent, net_walk, net_link, net_got, net_queue,
                 net_wake, net_recv>>
accessVars == <<acc, acc_lock, acc_saved, acc_infos, acc_issued, acc_last, acc_fetched, tlb,
                tlb_used, hpi_ins, hpi_next, hpi_last, hpi_at, hpi_sum, hpi_due, hpi_calls>>

(* the parts a behaviour is not about stay in one initial state, or keep their value *)
setIdle == SetInit /\ set_policy = "lru"
dirIdle == DirInit /\ dir_type = "full_map"
stackIdle == stack_mode = 0 /\ stack = 0 /\ stack_sim = 0
sideIdle == side_set = 0 /\ side_state = 0 /\ side_dram = 0 /\ side_again = 0 /\
            side_kind = 0 /\ atd = 0 /\ atd_shared = 0 /\ atd_last = 0 /\ atd_count = 0
prefetchIdle == PfInit
layoutIdle == lay = 0 /\ lay_built = 0 /\ lay_error = 0 /\ lay_dirs = 0 /\ lay_drams = 0 /\
              lay_locks = 0 /\ lay_package = 0 /\ lay_apic = 0
networkIdle == net_cfg = 0 /\ net_enabled = 0 /\ net_sent = 0 /\ net_walk = 0 /\
               net_link = 0 /\ net_got = 0 /\ net_queue = 0 /\ net_wake = 0 /\ net_recv = 0
accessIdle == acc = 0 /\ acc_lock = 0 /\ acc_saved = 0 /\ acc_infos = 0 /\ acc_issued = 0 /\
              acc_last = 0 /\ acc_fetched = 0 /\ tlb = 0 /\ tlb_used = 0 /\ hpi_ins = 0 /\
              hpi_next = 0 /\ hpi_last = 0 /\ hpi_at = 0 /\ hpi_sum = 0 /\ hpi_due = 0 /\
              hpi_calls = 0
-----------------------------------------------------------------------------
(* cores with split first-level caches and a prefetcher in front of DRAM *)
ThreeLevels == [next |-> [I |-> "L2", D |-> "L2", L2 |-> "L3", L3 |-> "none"],
                ways |-> [I |-> 1, D |-> 1, L2 |-> 1, L3 |-> 2],
                wt |-> {}, dram |-> TRUE, mesi |-> FALSE, pf |-> "D"]

(* two cores that share the last level *)
SharedCache == [next |-> [D1 |-> "L2", D2 |-> "L2", L2 |-> "none"], ways |-> [D1 |-> 1, D2 |-> 1, L2 |-> 2],
                wt |-> {}, dram |-> FALSE, mesi |-> TRUE, pf |-> "none"]

(* a write-through first level *)
WriteThrough == [next |-> [D |-> "L2", L2 |-> "L3", L3 |-> "none"], ways |-> [D |-> 1, L2 |-> 1, L3 |-> 2],
                 wt |-> {"D"}, dram |-> FALSE, mesi |-> TRUE, pf |-> "none"]

Hierarchies == {ThreeLevels, SharedCache, WriteThrough}
Prefetches  == {<<>>, <<"a", "b", "c">>}

(* network models: kind, mesh, cores a node, torus, packets, link delays, broadcasts *)
Net(kind, w, h, conc, wrap, packets, delays, bcast) ==
    [kind |-> kind, w |-> w, h |-> h, conc |-> conc, wrap |-> wrap, packets |-> packets,
     delays |-> delays, bcast |-> bcast, local |-> TRUE]

NetworkModels ==
    {Net("hop_by_hop", 2, 1, 2, FALSE, 1, {0}, TRUE), Net("hop_by_hop", 5, 1, 1, TRUE, 1, {0, 1}, FALSE),
     Net("hop_by_hop", 3, 4, 1, TRUE, 1, {0}, FALSE), Net("hop_by_hop", 2, 1, 1, FALSE, 2, {0}, FALSE),
     Net("hop_counter", 3, 1, 1, FALSE, 1, {0}, TRUE), Net("bus", 3, 1, 1, FALSE, 1, {0, 1}, TRUE),
     Net("magic", 2, 1, 1, FALSE, 1, {0}, TRUE), Net("bus", 2, 1, 1, FALSE, 2, {0, 1}, FALSE)}

(* machines: cores, levels shared, meshes, DRAM controllers, where homes are; L1-D *)
(* caches of different sizes, and of one size but different associativities        *)
Mask(size, assoc) == [size |-> size, assoc |-> assoc, hash |-> "mask"]

Machine(n, l1d) ==
    [cores |-> n, smt |-> 1, shared |-> 1, mesh |-> FALSE, dims |-> 2, conc |-> 1, num |-> -1,
     every |-> 0, positions |-> <<>>, locations |-> "dram", interleaving |-> 1, direct |-> FALSE,
     l1d |-> l1d, lower |-> {Mask(4, 1)}, slice |-> 2]

Machines ==
    {[Machine(n, [i \in 1 .. n |-> Mask(2, 1)]) EXCEPT
          !.shared = sh, !.locations = loc, !.interleaving = iv, !.num = dram[1], !.every = dram[2],
          !.direct = direct, !.smt = smt, !.conc = smt, !.mesh = (dims > 0), !.dims = dims] :
        n \in {4, 6, 8}, sh \in {2, 4}, loc \in {"dram", "llc", "interleaved"}, iv \in {2, 4},
        dram \in {<<-1, 0>>, <<-1, 2>>, <<-1, 4>>, <<1, 0>>, <<2, 0>>, <<3, 0>>, <<4, 0>>},
        direct \in BOOLEAN, smt \in {1, 2}, dims \in 0 .. 2}
    \union {[Machine(2, <<Mask(4, 1), Mask(2, 1)>>) EXCEPT !.shared = sh, !.positions = ps, !.num = 1] :
               sh \in {1, 2}, ps \in {<<>>, <<0>>, <<1>>, <<2>>}}
    \union {[Machine(2, <<Mask(4, a), Mask(4, b)>>) EXCEPT !.shared = sh, !.num = 1] :
               sh \in {1, 2}, a \in {1, 2}, b \in {1, 2}}
    \union {Machine(2, [i \in 1 .. 2 |-> [size |-> 3, assoc |-> 1, hash |-> "mod"]])}

Blocks == 0 .. 23
-----------------------------------------------------------------------------
Init ==
    \/ /\ which = "set" /\ which \in Parts /\ SetInit
       /\ dirIdle /\ stackIdle /\ sideIdle /\ prefetchIdle /\ layoutIdle /\ networkIdle /\
          accessIdle
    \/ /\ which = "dir" /\ which \in Parts /\ DirInit
       /\ setIdle /\ stackIdle /\ sideIdle /\ prefetchIdle /\ layoutIdle /\ networkIdle /\
          accessIdle
    \/ /\ which = "stack" /\ which \in Parts /\ ST!StackInit
       /\ setIdle /\ dirIdle /\ sideIdle /\ prefetchIdle /\ layoutIdle /\ networkIdle /\
          accessIdle
    \/ /\ which = "side" /\ which \in Parts /\ MS!SideInit
       /\ setIdle /\ dirIdle /\ stackIdle /\ prefetchIdle /\ layoutIdle /\ networkIdle /\
          accessIdle
    \/ /\ which = "prefetch" /\ which \in Parts /\ PfInit
       /\ setIdle /\ dirIdle /\ stackIdle /\ sideIdle /\ layoutIdle /\ networkIdle /\
          accessIdle
    \/ /\ which = "layout" /\ which \in Parts /\ LY!LayInit
       /\ setIdle /\ dirIdle /\ stackIdle /\ sideIdle /\ prefetchIdle /\ networkIdle /\
          accessIdle
    \/ /\ which = "network" /\ which \in Parts /\ NT!NetInit
       /\ setIdle /\ dirIdle /\ stackIdle /\ sideIdle /\ prefetchIdle /\ layoutIdle /\
          accessIdle
    \/ /\ which = "access" /\ which \in Parts /\ CA!AccInit
       /\ setIdle /\ dirIdle /\ stackIdle /\ sideIdle /\ prefetchIdle /\ layoutIdle /\
          networkIdle

Next ==
    \/ /\ which = "set" /\ SetNext
       /\ UNCHANGED <<which, dirVars, stackVars, sideVars, prefetchVars, layoutVars,
                        networkVars, accessVars>>
    \/ /\ which = "dir" /\ DirNext
       /\ UNCHANGED <<which, setVars, stackVars, sideVars, prefetchVars, layoutVars,
                        networkVars, accessVars>>
    \/ /\ which = "stack" /\ ST!StackNext
       /\ UNCHANGED <<which, setVars, dirVars, sideVars, prefetchVars, layoutVars,
                        networkVars, accessVars>>
    \/ /\ which = "side" /\ MS!SideNext
       /\ UNCHANGED <<which, setVars, dirVars, stackVars, prefetchVars, layoutVars,
                        networkVars, accessVars>>
    \/ /\ which = "prefetch" /\ PfNext
       /\ UNCHANGED <<which, setVars, dirVars, stackVars, sideVars, layoutVars, networkVars,
                        accessVars>>
    \/ /\ which = "layout" /\ LY!LayNext
       /\ UNCHANGED <<which, setVars, dirVars, stackVars, sideVars, prefetchVars,
                        networkVars, accessVars>>
    \/ /\ which = "network" /\ NT!NetNext
       /\ UNCHANGED <<which, setVars, dirVars, stackVars, sideVars, prefetchVars, layoutVars,
                        accessVars>>
    \/ /\ which = "access" /\ CA!AccNext
       /\ UNCHANGED <<which, setVars, dirVars, stackVars, sideVars, prefetchVars, layoutVars,
                        networkVars>>

Spec == Init /\ [][Next]_<<which, setVars, dirVars, stackVars, sideVars, prefetchVars,
                          layoutVars, networkVars, accessVars>>
-----------------------------------------------------------------------------
(* The cache levels of a core: no assertion of the controllers fails, what a level      *)
(* holds the level below holds with at least the same rights, at most one first-level   *)
(* cache may write a line without asking and its copy is the latest, and the latest     *)
(* value is in memory or in a MODIFIED copy.                                            *)
StackCorrect == which = "stack" => ST!StackCorrect

(* The caches beside memory: a store DRAM has not heard of is MODIFIED in the DRAM      *)
(* cache, a line stored to again while in the NUCA slice is not dropped, an alternative *)
(* tag directory holds what its core would hold alone, and a core alone is never helped *)
(* or hurt by sharing.                                                                  *)
MemorySideCorrect == which = "side" => MS!MemorySideCorrect

(* For every machine: the home directory and DRAM controller of an address exist and    *)
(* are master nodes, no core gets two controllers, two blocks that meet in a set of     *)
(* some cache are under one set lock (but for an L1-D with more ways than that of its   *)
(* master), the blocks of a NUCA slice use all its sets, and cpuid tells the cores      *)
(* apart.                                                                               *)
LayoutCorrect == which = "layout" => LY!LayoutCorrect

(* Packets on every network model: each reaches every core it is for exactly once, the  *)
(* walk through the mesh or torus ends within its width and height, the time taken      *)
(* covers the hops, and no thread sleeps in netRecv with its packet queued and nobody   *)
(* about to wake it.                                                                    *)
NetworkCorrect == which = "network" => NT!NetworkCorrect

(* A core's accesses: the pieces given to the caches are the bytes of the access, each  *)
(* once and within a line; infos reach the model in order and none is lost; a fetch is  *)
(* skipped only within what 32 bits of the address say is the line fetched last; a TLB  *)
(* holds the pages used most recently; the instruction hook is called at most once a    *)
(* period.                                                                              *)
AccessCorrect == which = "access" => CA!AccessCorrect
=============================================================================
