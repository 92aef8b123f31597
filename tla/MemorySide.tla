----------------------------- MODULE MemorySide -----------------------------
(***************************************************************************)
(* What stands beside the coherence protocol: the DRAM cache in front of a *)
(* DRAM controller, the NUCA slice beside a tag directory, and the         *)
(* auxiliary tag directories (ATD) with which a shared cache estimates     *)
(* what each core would do alone.  Latencies are left out.  Contents are   *)
(* abstracted to whether DRAM has been told of the latest store to a line. *)
(***************************************************************************)
EXTENDS Integers, Sequences, FiniteSets, SequencesExt

CONSTANTS SideLines,     \* lines that map to one set
          SideWays,      \* associativity of the DRAM cache and of the ATD
          AtdCores       \* cores that share the cache with the ATDs

VARIABLES side_set,      \* DRAM cache set: most recently used line first
          side_state,    \* line -> CState of the block
          side_dram,     \* lines whose latest store DRAM has been told of
          side_again,    \* NUCA history: lines stored to while resident
          side_kind,     \* the component this behaviour is about
          atd,           \* core -> its ATD set, most recently used first
          atd_shared,    \* the real, shared set
          atd_last,      \* core -> history: lines it used, most recent first
          atd_count      \* outcome of the last access

sideVars == <<side_set, side_state, side_dram, side_again, side_kind>>
atdVars == <<atd, atd_shared, atd_last, atd_count>>

(* An LRU set as a sequence; the policies themselves are in CacheSet.      *)
Touch(set, a) == <<a>> \o SelectSeq(set, LAMBDA b : b # a)
Find(set, a) == Contains(set, a)
FirstOf(set, k) == SubSeq(set, 1, IF Len(set) < k THEN Len(set) ELSE k)
InsertLine(set, a) == <<a>> \o FirstOf(set, SideWays - 1)
Evicted(set) == IF Len(set) < SideWays THEN {} ELSE {set[SideWays]}

-----------------------------------------------------------------------------
(* Mutant: a store that hits leaves the block in its old state.            *)
HitKeepsState(access, a) ==
  /\ Find(side_set, a)
  /\ side_set' = Touch(side_set, a)
  /\ UNCHANGED side_state
  /\ side_dram' = IF access = "store" THEN side_dram \ {a} ELSE side_dram

(* DramCache::doAccess when the line is there.                             *)
AccessHit(access, a) ==
  /\ Find(side_set, a)
  /\ side_set' = Touch(side_set, a)
  /\ side_state' = IF access = "store" THEN [side_state EXCEPT ![a] = "M"]
                                       ELSE side_state
  /\ side_dram' = IF access = "store" THEN side_dram \ {a} ELSE side_dram

(* ... and when it is not.  A store replaces the whole line and does not   *)
(* read DRAM.  The write-back of a dirty victim sends data_buf, the buffer *)
(* of the incoming line; only the address of the request is right, which   *)
(* is all that counts without fault injection.                             *)
AccessMiss(access, a) ==
  LET victims == Evicted(side_set)
      dirty == {v \in victims : side_state[v] = "M"}
  IN /\ ~Find(side_set, a)
     /\ side_set' = InsertLine(side_set, a)
     /\ side_state' = [b \in SideLines |->
          CASE b = a -> IF access = "store" THEN "M" ELSE "S"
            [] b \in victims -> "I"
            [] OTHER -> side_state[b]]
     /\ side_dram' = (IF access = "store" THEN side_dram \ {a} ELSE side_dram)
                       \cup dirty
   
(* getDataFromDram and putDataToDram of the DRAM cache.                    *)
GetDataFromDram(a) ==
  /\ AccessHit("load", a) \/ AccessMiss("load", a)
  /\ UNCHANGED side_again

PutDataToDram(a) ==
  /\ AccessHit("store", a) \/ AccessMiss("store", a)
  /\ UNCHANGED side_again

-----------------------------------------------------------------------------
(* NucaCache::read: a hit touches the line, a miss changes nothing (the    *)
(* directory reads DRAM and keeps a copy with a write).                    *)
NucaRead(a) ==
  /\ Find(side_set, a)
  /\ side_set' = Touch(side_set, a)
  /\ UNCHANGED <<side_state, side_dram, side_again>>

(* Mutant: only clean victims are handed to DRAM.                          *)
NucaEvictsClean(a) ==
  LET victims == Evicted(side_set)
  IN /\ ~Find(side_set, a)
     /\ side_set' = InsertLine(side_set, a)
     /\ side_state' = [b \in SideLines |-> CASE b = a -> "X"
                         [] b \in victims -> "I" [] OTHER -> side_state[b]]
     /\ side_again' = side_again \ {a}
     /\ side_dram' = (side_dram \ {a}) \cup
                        {v \in victims : side_state[v] # "M"}

(* NucaCache::write of a line that is not there.  The new block keeps the  *)
(* state of a default-constructed one ("X": a tag, but CState INVALID), so *)
(* that its eviction is not handed to DRAM.                                *)
NucaWriteMiss(a) ==
  LET victims == Evicted(side_set)
  IN /\ ~Find(side_set, a)
     /\ side_set' = InsertLine(side_set, a)
     /\ side_state' = [b \in SideLines |-> CASE b = a -> "X"
                         [] b \in victims -> "I" [] OTHER -> side_state[b]]
     /\ side_again' = side_again \ {a}
     /\ side_dram' = (side_dram \ {a}) \cup
                        {v \in victims : side_state[v] = "M"}

(* ... and of one that is.  The caller's eviction flag is not set on this  *)
(* path and holds any value: the request it may then send names no line.   *)
NucaWriteHit(a) ==
  /\ Find(side_set, a)
  /\ side_set' = Touch(side_set, a)
  /\ side_state' = [side_state EXCEPT ![a] = "M"]
  /\ side_again' = side_again \cup {a}
  /\ side_dram' = side_dram \ {a}

-----------------------------------------------------------------------------
(* Mutant: a hit in the ATD does not move the line to the front.           *)
AtdWithoutUpdate(set, a) == IF Find(set, a) THEN set ELSE InsertLine(set, a)

AtdAccess(set, a) == IF Find(set, a) THEN Touch(set, a) ELSE InsertLine(set, a)

(* CacheMasterCntlr::accessATDs: the ATD of the core that makes the access *)
(* sees it; whether the real set hit decides constructive or destructive.  *)
Access(c, a) ==
  LET cacheHit == Find(atd_shared, a)
      atdHit == Find(atd[c], a)
  IN /\ atd_shared' = IF cacheHit THEN Touch(atd_shared, a)
                                  ELSE InsertLine(atd_shared, a)
     /\ atd' = [atd EXCEPT ![c] = AtdAccess(@, a)]
     /\ atd_last' = [atd_last EXCEPT ![c] = Touch(@, a)]
     /\ atd_count' = [core |-> c,
                      kind |-> IF cacheHit /\ ~atdHit THEN "constructive"
                               ELSE IF ~cacheHit /\ atdHit THEN "destructive"
                               ELSE IF atdHit THEN "hit" ELSE "miss"]

SideInit ==
  /\ side_kind \in {"dram_cache", "nuca", "atd"}
  /\ side_set = <<>> /\ side_again = {}
  /\ side_state = [a \in SideLines |-> "I"]
  /\ side_dram = SideLines
  /\ atd = [c \in AtdCores |-> <<>>] /\ atd_shared = <<>>
  /\ atd_last = [c \in AtdCores |-> <<>>]
  /\ atd_count = [core |-> CHOOSE c \in AtdCores : TRUE, kind |-> "miss"]

SideNext ==
  /\ \/ /\ side_kind = "dram_cache"
        /\ \E a \in SideLines : GetDataFromDram(a) \/ PutDataToDram(a)
        /\ UNCHANGED atdVars
     \/ /\ side_kind = "nuca"
        /\ \E a \in SideLines :
             NucaRead(a) \/ NucaWriteMiss(a) \/ NucaWriteHit(a)
        /\ UNCHANGED atdVars
     \/ /\ side_kind = "atd"
        /\ \E c \in AtdCores, a \in SideLines : Access(c, a)
        /\ UNCHANGED <<side_set, side_state, side_dram, side_again>>
  /\ UNCHANGED side_kind

-----------------------------------------------------------------------------
(* Sets never exceed their ways and hold no line twice.                    *)
SideTypeOK ==
  /\ IsInjective(side_set) /\ Len(side_set) <= SideWays
  /\ \A c \in AtdCores : IsInjective(atd[c]) /\ Len(atd[c]) <= SideWays
  /\ side_state \in [SideLines -> {"I", "S", "M", "X"}]
  /\ \A a \in SideLines : side_state[a] # "I" <=> Find(side_set, a)

(* DramCache::doAccess: a store is not forgotten.  Until DRAM has been     *)
(* told of it, the line stays in the DRAM cache as MODIFIED.               *)
StoresReachDram ==
  side_kind = "dram_cache" =>
    \A a \in SideLines : a \in side_dram \/ side_state[a] = "M"

(* "If we have a NUCA cache: write it there, it will be written to DRAM on *)
(* eviction" (sendDataToDram): what DRAM does not know is in the slice.    *)
(* Refuted: a line that is evicted before a second store is dropped.       *)
NucaWritesBack ==
  side_kind = "nuca" =>
    \A a \in SideLines : a \in side_dram \/ Find(side_set, a)

(* What is left of it: a line that was stored to again while it was in the *)
(* slice is not dropped.                                                   *)
NucaKeepsRewritten ==
  \A a \in side_again : a \in side_dram \/ Find(side_set, a)

(* An ATD is the cache the core would have alone: it holds exactly the     *)
(* lines the core used most recently, as many as there are ways, whatever  *)
(* the other cores did to the shared set in between.                       *)
AtdIsPrivateCache ==
  \A c \in AtdCores :
    atd[c] = FirstOf(atd_last[c], SideWays)

(* While only one core has used the set, sharing can neither help nor hurt *)
(* it: an access is then never counted constructive or destructive.        *)
AloneIsNeutral ==
  (\E c \in AtdCores : \A d \in AtdCores \ {c} : atd_last[d] = <<>>)
    => atd_count.kind \in {"hit", "miss"}

(* The caches beside memory: a store DRAM has not heard of is MODIFIED in   *)
(* the DRAM cache, a line stored to again while in the NUCA slice is not    *)
(* dropped, an alternative tag directory holds what its core would hold     *)
(* alone, and a core alone is never helped or hurt by sharing.              *)
MemorySideCorrect ==
    SideTypeOK /\ StoresReachDram /\ AtdIsPrivateCache /\ NucaKeepsRewritten /\ AloneIsNeutral
=============================================================================
