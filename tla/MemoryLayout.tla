---------------------------- MODULE MemoryLayout ----------------------------
(***************************************************************************)
(* How the memory system is laid out over the cores: which cores have DRAM *)
(* controllers and tag directories, which one is the home of an address,   *)
(* which set and set lock an address falls into, and the topology that     *)
(* cpuid reports.  Cores are constructed one after the other; an assertion *)
(* of a constructor that fails stops the simulator.                        *)
(*                                                                         *)
(* Addresses are numbers of cache blocks; home_lookup_param is given in    *)
(* blocks (HomeBlocks, 2^(param) / cache_block_size).                      *)
(***************************************************************************)
EXTENDS Integers, Sequences, FiniteSets, SequencesExt, FiniteSetsExt

CONSTANTS Layouts,       \* configurations
          LayoutBlocks,  \* cache blocks that are looked at
          HomeBlocks

VARIABLES lay,           \* the configuration
          lay_built,     \* cores constructed so far
          lay_error,     \* an assertion failed
          lay_dirs,      \* cores with a tag directory
          lay_drams,     \* cores with a DRAM controller
          lay_locks,     \* master core -> number of its set locks
          lay_package,   \* [package, left]: TopologyInfo's static counters
          lay_apic       \* core -> APIC id

layVars == <<lay, lay_built, lay_error, lay_dirs, lay_drams, lay_locks,
             lay_package, lay_apic>>

Root(n) == Max({w \in 1 .. n : w * w <= n})
PowerOfTwo(n) == n \in {1, 2, 4, 8, 16, 32, 64}
EveryNth(step, count) == [i \in 1 .. count |-> (i - 1) * step]
Cores == 0 .. lay.cores - 1

-----------------------------------------------------------------------------
(* computeMeshDimensions without an explicit size, and its assertion.      *)
MeshWidth ==
  IF lay.dims = 1 THEN lay.cores \div lay.conc ELSE Root(lay.cores \div lay.conc)
MeshHeight ==
  IF lay.dims = 1 THEN 1
  ELSE (lay.cores + lay.conc * MeshWidth - 1) \div (lay.conc * MeshWidth)
MeshOK == lay.cores = lay.conc * MeshWidth * MeshHeight

(* Nodes along the perimeter, clockwise from (0, 0).                       *)
Perimeter ==
  LET w == MeshWidth
      h == MeshHeight
  IN [i \in 1 .. w |-> i - 1] \o
     (IF lay.dims > 1 /\ h > 1
        THEN [i \in 1 .. h - 2 |-> i * w + w - 1]
             \o [i \in 1 .. w |-> (h - 1) * w + w - i]
             \o [i \in 1 .. h - 2 |-> (h - 1 - i) * w]
        ELSE <<>>)

(* Mutant: the spacing is rounded up.                                      *)
MeshSpreadWide(n) ==
  LET spacing == (Len(Perimeter) + n - 1) \div n
  IN [i \in 1 .. n |->
       lay.conc * Perimeter[(((i - 1) * spacing + (MeshWidth \div 2))
                               % Len(Perimeter)) + 1]]

(* computeMemoryControllerPositions of the mesh and of other networks.     *)
MeshSpread(n) ==
  LET spacing == Len(Perimeter) \div n
  IN [i \in 1 .. n |->
       lay.conc * Perimeter[(((i - 1) * spacing + (MeshWidth \div 2))
                               % Len(Perimeter)) + 1]]
Spread(n) == EveryNth(lay.cores \div n, n)

(* getCoreListWithMemoryControllers.  A number of -1 (none) means one      *)
(* controller every controllers_interleaving cores, 0 meaning every core.  *)
Controllers ==
  IF lay.num # -1
    THEN IF lay.positions # <<>> THEN lay.positions
         ELSE IF lay.mesh THEN MeshSpread(lay.num) ELSE Spread(lay.num)
  ELSE IF lay.every > 0
    THEN EveryNth(lay.every, (lay.cores + lay.every - 1) \div lay.every)
  ELSE EveryNth(1, lay.cores)

ControllersOK ==
  /\ lay.num <= lay.cores
  /\ lay.num # -1 =>
       /\ lay.positions # <<>> => /\ Len(lay.positions) = lay.num
                                  /\ \A i \in DOMAIN lay.positions :
                                       lay.positions[i] < lay.cores
       /\ lay.positions = <<>> /\ lay.mesh => Len(Perimeter) >= lay.num

(* Mutant: one tag directory too many, past the last core.                 *)
DirectoriesPast == EveryNth(1, lay.cores + 1)

(* Where MemoryManager puts tag directories.                               *)
Directories ==
  LET step == IF lay.locations = "llc" THEN lay.shared ELSE lay.interleaving
  IN IF lay.locations = "dram" THEN Controllers
     ELSE EveryNth(step, (lay.cores + step - 1) \div step)

(* Mutant: the tag still holds the bits that chose the home.               *)
GetTagWhole(list, block) == block \div HomeBlocks

(* AddressHomeLookup::getHome and getTag.                                  *)
GetHome(list, block) == list[((block \div HomeBlocks) % Len(list)) + 1]
GetTag(list, block) == (block \div HomeBlocks) \div Len(list)

MasterOf(c) == c - (c % lay.shared)

-----------------------------------------------------------------------------
(* The number of sets of a cache of a size in blocks (CacheBase), and the  *)
(* set of a block (splitAddress) for the hash functions that are not       *)
(* random.                                                                 *)
Sets(cache) == cache.size \div cache.assoc
SetIndex(cache, block) == block % Sets(cache)

(* Set of a NUCA slice, whose block numbers are those of its home.         *)
SliceSet(list, sets, block) == GetTag(list, block) % sets

(* Mutant: only the L1-D cache of the master core is looked at.            *)
NumSetLocksOwn(c) ==
  IF PowerOfTwo(Sets(lay.l1d[c + 1])) THEN Sets(lay.l1d[c + 1]) ELSE 1

(* As many set locks as the L1-D of the master has sets, unless the sizes  *)
(* of the L1-D caches differ or their sets are not those of a mask; their  *)
(* associativities are not compared.                                       *)
NumSetLocks(c) ==
  LET own == lay.l1d[c + 1]
      same == \A d \in Cores : lay.l1d[d + 1].size = own.size /\ lay.l1d[d + 1].hash = "mask"
  IN IF PowerOfTwo(Sets(own)) /\ same THEN Sets(own) ELSE 1

(* Mutant: the first core of a package is not counted.                     *)
NewPackageLate ==
  IF lay_package.left = 0
    THEN [package |-> lay_package.package + 1,
          left |-> IF lay.mesh THEN lay.cores ELSE lay.shared]
    ELSE [lay_package EXCEPT !.left = @ - 1]

(* TopologyInfo::setup for the next core.                                  *)
PerPackage == (IF lay.mesh THEN lay.cores ELSE lay.shared) \div lay.smt
NewPackage ==
  IF lay_package.left = 0
    THEN [package |-> lay_package.package + 1, left |-> PerPackage * lay.smt - 1]
    ELSE [lay_package EXCEPT !.left = @ - 1]
ApicId(c, package) ==
  <<package, (c \div lay.smt) % PerPackage, c % lay.smt>>

(* The constructor of the memory manager of the next core.                 *)
Construct ==
  /\ ~lay_error /\ lay_built < lay.cores
  /\ LET c == lay_built
         dir == \E i \in DOMAIN Directories : Directories[i] = c
         dram == \E i \in DOMAIN Controllers : Controllers[i] = c
         master == MasterOf(c) = c
         ok == /\ lay.mesh => MeshOK
               /\ ControllersOK
               /\ (dir \/ dram) => master
               /\ lay.direct /\ master => lay.cores <= lay.shared /\ dram
     IN IF ok
          THEN /\ lay_built' = c + 1
               /\ lay_dirs' = IF dir THEN lay_dirs \cup {c} ELSE lay_dirs
               /\ lay_drams' = IF dram THEN lay_drams \cup {c} ELSE lay_drams
               /\ lay_locks' = IF master THEN [lay_locks EXCEPT ![c] = NumSetLocks(c)]
                                         ELSE lay_locks
               /\ lay_package' = NewPackage
               /\ lay_apic' = Append(lay_apic, ApicId(c, NewPackage.package))
               /\ UNCHANGED lay_error
          ELSE /\ lay_error' = TRUE
               /\ UNCHANGED <<lay_built, lay_dirs, lay_drams, lay_locks,
                              lay_package, lay_apic>>
  /\ UNCHANGED lay

LayInit ==
  /\ lay \in Layouts
  /\ lay_built = 0 /\ lay_error = FALSE
  /\ lay_dirs = {} /\ lay_drams = {}
  /\ lay_locks = [c \in Cores |-> 0]
  /\ lay_package = [package |-> -1, left |-> 0]
  /\ lay_apic = <<>>

LayNext == Construct

-----------------------------------------------------------------------------
Running == lay_built = lay.cores

LayTypeOK ==
  /\ lay_built \in 0 .. lay.cores /\ lay_error \in BOOLEAN
  /\ lay_dirs \subseteq Cores /\ lay_drams \subseteq Cores
  /\ \A c \in Cores : PowerOfTwo(lay_locks[c]) \/ lay_locks[c] = 0

(* In a simulator that started, every address has its home directory and   *)
(* its home DRAM controller at cores that were built with one, and these   *)
(* are master nodes: the nodes that messages are sent from and to.         *)
HomesServed ==
  Running =>
    LET dirs  == Directories
        drams == Controllers
    IN \A b \in LayoutBlocks :
         /\ GetHome(dirs, b) \in lay_dirs /\ GetHome(drams, b) \in lay_drams
         /\ GetHome(dirs, b) = MasterOf(GetHome(dirs, b))

(* As many DRAM controllers as were asked for: no two of them are put on   *)
(* the same core (computeMemoryControllerPositions).  A mesh one node wide *)
(* is left out: its perimeter names nodes twice.                           *)
ControllersDistinct ==
  Running /\ lay.positions = <<>> /\ ~(lay.mesh /\ lay.dims > 1 /\ MeshWidth = 1)
    => Cardinality(lay_drams) = Len(Controllers)

BlocksCovered(cache, locks) ==
  \A a, b \in LayoutBlocks : SetIndex(cache, a) = SetIndex(cache, b) => a % locks = b % locks

(* Two blocks that meet in a set of a cache are under the same set lock:   *)
(* what one access evicts is never in use by another.  This holds of the   *)
(* lower levels when they have as many sets as the L1-D of the master or a *)
(* multiple, and of an L1-D, of whatever size or hash, unless it has more  *)
(* ways than that of the master of the last-level cache it shares.         *)
SetLocksCoverSets ==
  Running => \A c \in Cores :
    LET master == MasterOf(c)
    IN /\ \A cache \in lay.lower : BlocksCovered(cache, lay_locks[master])
       /\ lay.l1d[c + 1].assoc <= lay.l1d[master + 1].assoc =>
            BlocksCovered(lay.l1d[c + 1], lay_locks[master])

(* Blocks of one NUCA slice spread over all the sets of the slice: the     *)
(* bits that choose the slice do not choose the set as well.               *)
SlicesUseAllSets ==
  Running => \A h \in lay_dirs, s \in 0 .. lay.slice - 1 :
    \E b \in LayoutBlocks :
      GetHome(Directories, b) = h /\ SliceSet(Directories, lay.slice, b) = s

(* cpuid tells all cores of the machine apart.                             *)
ApicIdsDistinct ==
  \A i, j \in DOMAIN lay_apic : lay_apic[i] = lay_apic[j] => i = j

(* For every machine: the home directory and DRAM controller of an address  *)
(* exist and are master nodes, no core gets two controllers, two blocks     *)
(* that meet in a set of some cache are under one set lock (but for an L1-D *)
(* with more ways than that of its master), the blocks of a NUCA slice use  *)
(* all its sets, and cpuid tells the cores apart.                           *)
LayoutCorrect ==
    LayTypeOK /\ HomesServed /\ ControllersDistinct /\ SetLocksCoverSets /\ SlicesUseAllSets
    /\ ApicIdsDistinct

(* "With heterogeneous caches [...] we can no longer be certain that        *)
(* operations only have effect within a set as we see it" (memory_-         *)
(* manager.cc:334): the optimisation is off whenever it is unsafe.  Refuted *)
(* by L1-D caches of one size with different associativities, which the     *)
(* code does not compare (FIXME at :344).                                   *)
EveryL1Covered ==
  Running => \A c \in Cores : BlocksCovered(lay.l1d[c + 1], lay_locks[MasterOf(c)])
=============================================================================
