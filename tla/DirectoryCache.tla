--------------------------- MODULE DirectoryCache ---------------------------
(***************************************************************************)
(* One set of the tag directory (DramDirectoryCache over Directory), the   *)
(* request queues (ReqQueueListTemplate) and the allocation of entries by  *)
(* DramDirectoryCntlr.  Module Coherence follows one line through the      *)
(* protocol; here the protocol is abstracted to what finishes a request,   *)
(* and several lines compete for the entries of a set.  A directory        *)
(* controller handles one message at a time, so each action is one         *)
(* message, with the requests it completes and starts.                     *)
(***************************************************************************)
EXTENDS Integers, Sequences, FiniteSets

CONSTANTS DirCores,       \* cores; each has one request outstanding
          DirLines,       \* lines mapping to the set
          DirWays,        \* m_associativity
          MaxHwSharers,   \* max_hw_sharers of a limited directory
          EntryTypes,     \* parseDirectoryType: the types to check
          BitsetSize      \* size() of DirectorySharersBitset, 64 at least

VARIABLES dir_type,       \* m_directory_type
          dir_slots,      \* the entries of the set; an entry without address is free
          dir_replaced,   \* m_replaced_directory_entry_list
          dir_queue,      \* m_dram_directory_req_queue_list
          dir_copies,     \* the cores whose caches hold the line
          dir_error       \* the assertion that stopped the program

dirVars == <<dir_type, dir_slots, dir_replaced, dir_queue, dir_copies, dir_error>>

NoLine == "none"
Nullify == "nullify"

\* There are finitely many cores; NoLine and Nullify are none of the values
\* they stand beside.
ASSUME DirAssumption ==
    /\ IsFiniteSet(DirCores) /\ Nullify \notin DirCores
    /\ NoLine \notin DirLines
    /\ DirWays \in Nat \ {0} /\ MaxHwSharers \in Nat \ {0}

\* createDirectoryEntry: no address, no sharers, trap disabled.
FreshEntry == [line |-> NoLine, sharers |-> {}, trap |-> FALSE]

\* The directory d is a value, so that one message can take several steps on it.
SlotsOf(d, l)    == {i \in 1..DirWays : d.slots[i].line = l}
ReplacedOf(d, l) == {i \in 1..Len(d.replaced) : d.replaced[i].line = l}
HasEntry(d, l)   == SlotsOf(d, l) # {} \/ ReplacedOf(d, l) # {}
First(S)         == CHOOSE i \in S : \A j \in S : i <= j

\* Mutant: a free way is taken without searching the others.
FreeWayFirst(d, l) ==
    IF SlotsOf(d, NoLine) = {} THEN d
    ELSE [d EXCEPT !.slots[First(SlotsOf(d, NoLine))].line = l]

\* DramDirectoryCache::getDirectoryEntry: a lookup that misses takes a free
\* way when there is one, before it looks among the replaced entries.
GetDirectoryEntry(d, l) ==
    IF SlotsOf(d, l) # {} \/ SlotsOf(d, NoLine) = {} THEN d
    ELSE [d EXCEPT !.slots[First(SlotsOf(d, NoLine))].line = l]

EntryOf(d, l) == IF SlotsOf(d, l) # {} THEN d.slots[First(SlotsOf(d, l))]
                 ELSE d.replaced[First(ReplacedOf(d, l))]

\* Writes back the entry of line l.
SetEntry(d, l, e) ==
    IF SlotsOf(d, l) # {} THEN [d EXCEPT !.slots[First(SlotsOf(d, l))] = e]
    ELSE [d EXCEPT !.replaced[First(ReplacedOf(d, l))] = e]

Enqueue(d, l, r) == [d EXCEPT !.queue[l] = Append(@, r)]
Dequeue(d, l)    == [d EXCEPT !.queue[l] = Tail(@)]

RemoveAt(s, i) == SubSeq(s, 1, i - 1) \o SubSeq(s, i + 1, Len(s))

\* Mutant: the replaced entry is overwritten in place.
ReplaceInPlace(d, i, l) == [d EXCEPT !.slots[i].line = l]

\* DramDirectoryCache::replaceDirectoryEntry on way i: the old entry waits
\* in the list until its copies are gone, a new one takes its way.
ReplaceDirectoryEntry(d, i, l) ==
    [d EXCEPT !.replaced = Append(@, d.slots[i]),
              !.slots[i] = [FreshEntry EXCEPT !.line = l]]

\* Mutant: the entry whose copies are gone stays in the list.
KeepReplaced(d, l) == d

\* DramDirectoryCache::invalidateDirectoryEntry.
InvalidateDirectoryEntry(d, l) ==
    IF ReplacedOf(d, l) = {} THEN [d EXCEPT !.error = "invalidate"]
    ELSE [d EXCEPT !.replaced = RemoveAt(@, First(ReplacedOf(d, l)))]

\* Mutant: an entry with requests waiting may be taken too.
AnyCandidate(d) == 1..DirWays

\* The ways whose line has no request waiting.
Candidates(d) == {i \in 1..DirWays : d.queue[d.slots[i].line] = <<>>}

\* processDirectoryEntryAllocationReq and processNullifyReq: the first way
\* with the fewest sharers whose line has no request waiting is replaced; an
\* uncached one is invalidated at once, the others wait for their copies.
Allocate(d, l) ==
    LET C == Candidates(d)
        n(i) == Cardinality(d.slots[i].sharers)
        v == First({i \in C : \A j \in C : n(i) <= n(j)})
        old == d.slots[v].line
        d1 == Enqueue(ReplaceDirectoryEntry(d, v, l), old, Nullify)
    IN  IF C = {} THEN [d EXCEPT !.error = "allocation"]
        ELSE IF Len(d1.queue[old]) # 1 THEN [d1 EXCEPT !.error = "nullify queued"]
        ELSE IF n(v) > 0 THEN d1
        ELSE Dequeue(InvalidateDirectoryEntry(d1, old), old)

\* The head of the queue of l is looked at: processExReqFromL2Cache and its
\* siblings look the entry up and allocate one when there is none.
ProcessHead(d, l) ==
    LET d1 == GetDirectoryEntry(d, l)
    IN  IF HasEntry(d1, l) THEN d1 ELSE Allocate(d1, l)

\* processNextReqFromL2Cache.
ProcessNext(d, l) ==
    LET d1 == Dequeue(d, l) IN IF d1.queue[l] = <<>> THEN d1 ELSE ProcessHead(d1, l)

-----------------------------------------------------------------------------
\* DirectoryEntry::addSharer and removeSharer.  A limited entry is full at
\* max_hw_sharers; the controller then invalidates the copy of getOneSharer
\* first (the lowest one for a limitless entry, which is never full).  A
\* limitless entry enables its trap when the SIZE of the sharer set, not the
\* number of sharers, equals max_hw_sharers.
Limit == IF dir_type = "full_map" THEN Cardinality(DirCores) ELSE MaxHwSharers
AddSharer(e, c) ==
    IF dir_type = "limitless"
    THEN {[e EXCEPT !.sharers = @ \cup {c}, !.trap = @ \/ BitsetSize = MaxHwSharers]}
    ELSE IF Cardinality(e.sharers) < Limit
    THEN {[e EXCEPT !.sharers = @ \cup {c}]}
    ELSE {[e EXCEPT !.sharers = (@ \ {o}) \cup {c}] : o \in e.sharers}

Dir == [slots |-> dir_slots, replaced |-> dir_replaced, queue |-> dir_queue, error |-> dir_error]

Becomes(d) ==
    /\ dir_slots' = d.slots
    /\ dir_replaced' = d.replaced
    /\ dir_queue' = d.queue
    /\ dir_error' = d.error
    /\ UNCHANGED dir_type

DirInit ==
    /\ dir_type \in EntryTypes
    /\ dir_slots = [i \in 1..DirWays |-> FreshEntry]
    /\ dir_replaced = <<>>
    /\ dir_queue = [l \in DirLines |-> <<>>]
    /\ dir_copies = [l \in DirLines |-> {}]
    /\ dir_error = "none"

Waiting(c) == \E l \in DirLines : \E i \in 1..Len(dir_queue[l]) : dir_queue[l][i] = c

\* handleMsgFromL2Cache with a SH, EX or UPGRADE request: the lookup for the
\* access time comes first, then the request is queued and, alone, handled.
Request(c, l) ==
    /\ dir_error = "none" /\ ~Waiting(c)
    /\ LET d == Enqueue(GetDirectoryEntry(Dir, l), l, c)
       IN  Becomes(IF Len(d.queue[l]) = 1 THEN ProcessHead(d, l) ELSE d)
    /\ UNCHANGED dir_copies

\* The request at the head of l is answered: the requester holds the only
\* copy (EX, UPGRADE) or one more (SH); the next one is handled.
Answer(l, exclusive) ==
    /\ dir_error = "none" /\ dir_queue[l] # <<>> /\ Head(dir_queue[l]) # Nullify
    /\ LET c == Head(dir_queue[l])
           e == EntryOf(Dir, l)
       IN  \E e1 \in IF exclusive THEN {[e EXCEPT !.sharers = {c}]}
                     ELSE IF c \in e.sharers THEN {e} ELSE AddSharer(e, c) :
             /\ Becomes(ProcessNext(SetEntry(Dir, l, e1), l))
             /\ dir_copies' = [dir_copies EXCEPT ![l] = e1.sharers]

\* processInvRepFromL2Cache, processFlushRepFromL2Cache: core c gave its copy
\* up, because it evicted it or because the entry is being nullified; with
\* the last copy of a nullified line its entry is deleted.
CopyGone(c, l) ==
    /\ dir_error = "none" /\ c \in dir_copies[l]
    /\ dir_queue[l] # <<>> => Head(dir_queue[l]) = Nullify
    /\ LET d == GetDirectoryEntry(Dir, l)
           e == EntryOf(d, l)
           d1 == SetEntry(d, l, [e EXCEPT !.sharers = @ \ {c}])
       IN  Becomes(IF ~HasEntry(d, l) \/ c \notin e.sharers THEN [d EXCEPT !.error = "no entry"]
                   ELSE IF d.queue[l] # <<>> /\ e.sharers = {c}
                   THEN ProcessNext(InvalidateDirectoryEntry(d1, l), l)
                   ELSE d1)
    /\ dir_copies' = [dir_copies EXCEPT ![l] = @ \ {c}]

DirNext ==
    \/ \E c \in DirCores, l \in DirLines : Request(c, l) \/ CopyGone(c, l)
    \/ \E l \in DirLines : Answer(l, TRUE) \/ Answer(l, FALSE)

DirSpec == DirInit /\ [][DirNext]_dirVars

-----------------------------------------------------------------------------
(* The types of the directory's state; queues hold cores and nullify       *)
(* requests, and the trap of a limitless entry stays disabled while its    *)
(* bit set is larger than max_hw_sharers.                                  *)
DirTypeOK ==
    /\ dir_type \in EntryTypes
    /\ dir_slots \in [1..DirWays -> [line : DirLines \cup {NoLine}, sharers : SUBSET DirCores, trap : BOOLEAN]]
    /\ \A l \in DirLines : \A i \in 1..Len(dir_queue[l]) : dir_queue[l][i] \in DirCores \cup {Nullify}
    /\ \A i \in 1..Len(dir_replaced) : dir_replaced[i].line \in DirLines

(* A line never has two entries: a lookup during the nullification of a    *)
(* line finds the replaced entry and does not take a way of the set for a  *)
(* second one.                                                             *)
OneEntryPerLine ==
    \A l \in DirLines : Cardinality(SlotsOf(Dir, l)) + Cardinality(ReplacedOf(Dir, l)) <= 1

(* The directory forgets no copy: whatever entries were replaced, the      *)
(* caches that hold a line are the sharers of its entry.                   *)
CopiesKnown ==
    \A l \in DirLines :
        /\ dir_copies[l] # {} => HasEntry(Dir, l)
        /\ HasEntry(Dir, l) /\ dir_error = "none" => EntryOf(Dir, l).sharers = dir_copies[l]

(* A replaced entry lives exactly as long as the nullify request at the    *)
(* head of its line's queue: none is leaked, and none is deleted while     *)
(* copies are still to be given up.                                        *)
ReplacedUntilNullified ==
    dir_error = "none" =>
        \A l \in DirLines :
            ReplacedOf(Dir, l) # {} <=> dir_queue[l] # <<>> /\ Head(dir_queue[l]) = Nullify

(* With at most as many requests in flight as the set has ways, an         *)
(* allocation always finds an entry without waiting requests, and no       *)
(* handler misses the entry it expects (the assertion "see Redmine #175"). *)
AllocationSucceeds == Cardinality(DirCores) <= DirWays => dir_error = "none"

(* The directory cache of several lines that compete for the ways of a set: *)
(* a line never has two entries, the sharers of its entry are the caches    *)
(* that hold it whatever was replaced, a replaced entry lives exactly as    *)
(* long as its nullify request, and with no more requests than ways an      *)
(* allocation always finds an entry.                                        *)
EntriesCorrect ==
    DirTypeOK /\ OneEntryPerLine /\ CopiesKnown /\ ReplacedUntilNullified /\
    AllocationSucceeds
=============================================================================
