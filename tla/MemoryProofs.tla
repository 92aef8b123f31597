---------------------------- MODULE MemoryProofs ----------------------------
(***************************************************************************)
(* Proofs about three parts of the memory system that share no state: the  *)
(* set of the tag directory (DirectoryCache), the set of a cache with its  *)
(* replacement policy (CacheSet), and the history of the GHB prefetcher    *)
(* (Prefetchers).                                                          *)
(***************************************************************************)
EXTENDS DirectoryCache, CacheSet, Prefetchers, SequenceTheorems, FiniteSetTheorems,
        WellFoundedInduction, TLAPS

(* A nonempty set of naturals has a least element. *)
LEMMA LeastOf ==
  ASSUME NEW S \in SUBSET Nat, S # {}
  PROVE  \E i \in S : \A j \in S : i <= j
<1>1. PICK R : R = {p \in Nat \X Nat : p[1] < p[2]}
  OBVIOUS
<1>2. IsWellFoundedOn(R, Nat)
  BY <1>1, NatLessThanWellFounded DEF OpToRel
<1>3. PICK i \in S : \A j \in S : ~ (<<j, i>> \in R)
  BY <1>2, WFMin
<1>4. ASSUME NEW j \in S PROVE i <= j
  <2>1. j \in Nat /\ i \in Nat
    OBVIOUS
  <2>2. ASSUME j < i PROVE FALSE
    <3>1. <<j, i>> \in {p \in Nat \X Nat : p[1] < p[2]}
      BY <2>1, <2>2
    <3>2. QED
      BY <1>1, <1>3, <3>1
  <2>3. QED
    BY <2>1, <2>2
<1>5. QED
  BY <1>4


-----------------------------------------------------------------------------
(***************************************************************************)
(* The tag directory.  A set forgets no copy, has one entry per line and   *)
(* deletes a replaced entry exactly when it is nullified; with no more     *)
(* requests than ways an allocation finds an entry.  The theorems hold for *)
(* any cores, lines and ways, and for all types of entries.                *)
(***************************************************************************)

\* The values of a directory's state.
Errors  == {"none", "allocation", "nullify queued", "invalidate", "no entry"}
Entries == [line : DirLines \cup {NoLine}, sharers : SUBSET DirCores, trap : BOOLEAN]
States  == [slots : [1..DirWays -> Entries], replaced : Seq(Entries),
            queue : [DirLines -> Seq(DirCores \cup {Nullify})], error : Errors]

\* No line has two entries.
Apart(d) ==
  /\ \A i, j \in 1..DirWays : d.slots[i].line = d.slots[j].line /\ d.slots[i].line # NoLine => i = j
  /\ \A i, j \in DOMAIN d.replaced : d.replaced[i].line = d.replaced[j].line => i = j
  /\ \A i \in 1..DirWays, j \in DOMAIN d.replaced : d.slots[i].line # d.replaced[j].line
  /\ \A j \in DOMAIN d.replaced : d.replaced[j].line \in DirLines

\* A free way has no sharers, and nothing is replaced while one is left.
Full(d) == \A i \in 1..DirWays : d.slots[i].line # NoLine
Room(d) == /\ \A i \in 1..DirWays : d.slots[i].line = NoLine => d.slots[i].sharers = {}
           /\ Full(d) \/ d.replaced = <<>>

\* A nullify request is never behind another one, and a core waits once.
Turns(q) ==
  /\ \A l \in DirLines : \A i \in DOMAIN q[l] : q[l][i] = Nullify => i = 1
  /\ \A l, k \in DirLines : \A i \in DOMAIN q[l], j \in DOMAIN q[k] :
       q[l][i] = q[k][j] /\ q[l][i] # Nullify => l = k /\ i = j

\* The sharers of an entry are the caches that hold its line.
Held(d, copies) ==
  /\ \A i \in 1..DirWays : d.slots[i].line # NoLine => d.slots[i].sharers = copies[d.slots[i].line]
  /\ \A j \in DOMAIN d.replaced : d.replaced[j].sharers = copies[d.replaced[j].line]

\* A line with copies has an entry.
Known(d, copies) == \A l \in DirLines : copies[l] # {} => HasEntry(d, l)

\* An entry is replaced while a nullify request is at the head of its queue.
Named(d) ==
  \A l \in DirLines : ReplacedOf(d, l) # {} <=> d.queue[l] # <<>> /\ d.queue[l][1] = Nullify

\* A line with requests has an entry.
Served(d, l) == d.queue[l] # <<>> => HasEntry(d, l)

\* All of it but that line l, whose next request is looked at, has an entry;
\* if it has none, all ways are taken.
Settled(d, copies, l) ==
  /\ d \in States /\ d.error = "none"
  /\ Apart(d) /\ Room(d) /\ Turns(d.queue) /\ Held(d, copies) /\ Known(d, copies) /\ Named(d)
  /\ \A k \in DirLines : k # l => Served(d, k)
  /\ ReplacedOf(d, l) = {}
  /\ SlotsOf(d, l) # {} \/ Full(d)

\* Between two messages.
Sound(d, copies) ==
  /\ d \in States /\ d.error = "none"
  /\ Apart(d) /\ Room(d) /\ Turns(d.queue) /\ Held(d, copies) /\ Known(d, copies) /\ Named(d)
  /\ \A k \in DirLines : Served(d, k)

\* Sound, or stopped by an allocation that found no entry.
Good(d, copies) ==
  \/ Sound(d, copies)
  \/ /\ d \in States /\ d.error = "allocation" /\ Apart(d) /\ Known(d, copies)
     /\ ~(Cardinality(DirCores) <= DirWays)

Copies == [DirLines -> SUBSET DirCores]

-----------------------------------------------------------------------------
(* Sequences and smallest elements. *)

\* First chooses the least element of a set of naturals.
LEMMA FirstIsLeast ==
  ASSUME NEW S \in SUBSET Nat, S # {}
  PROVE  First(S) \in S /\ \A j \in S : First(S) <= j
BY LeastOf DEF First

\* A finite number of ways has one with the fewest sharers.
LEMMA FewestExists ==
  ASSUME NEW C, C # {}, NEW n, \A i \in C : n[i] \in Nat
  PROVE  \E i \in C : \A j \in C : n[i] <= n[j]
<1> DEFINE T == {n[i] : i \in C}
<1>1. T \in SUBSET Nat /\ T # {}
  OBVIOUS
<1>2. First(T) \in T /\ \A j \in T : First(T) <= j
  BY <1>1, FirstIsLeast
<1>3. QED
  BY <1>2

\* Head, tail and elements of a sequence.
LEMMA SequenceFacts ==
  ASSUME NEW S, NEW s \in Seq(S)
  PROVE  /\ Len(s) \in Nat /\ DOMAIN s = 1..Len(s)
         /\ \A i \in 1..Len(s) : s[i] \in S
         /\ s # <<>> <=> Len(s) >= 1
         /\ s # <<>> => /\ Head(s) = s[1] /\ Tail(s) \in Seq(S)
                        /\ Len(Tail(s)) = Len(s) - 1
                        /\ \A i \in 1..(Len(s) - 1) : Tail(s)[i] = s[i + 1]
<1>1. Len(s) \in Nat /\ DOMAIN s = 1..Len(s)
  BY LenProperties
<1>2. \A i \in 1..Len(s) : s[i] \in S
  BY ElementOfSeq
<1>3. s # <<>> <=> Len(s) >= 1
  BY <1>1, EmptySeq
<1>4. ASSUME s # <<>>
      PROVE  /\ Head(s) = s[1] /\ Tail(s) \in Seq(S)
             /\ Len(Tail(s)) = Len(s) - 1
             /\ \A i \in 1..(Len(s) - 1) : Tail(s)[i] = s[i + 1]
  <2>1. /\ Tail(s) \in Seq(S) /\ Len(Tail(s)) = Len(s) - 1
        /\ \A i \in 1..Len(Tail(s)) : Tail(s)[i] = s[i + 1]
    BY <1>4, HeadTailProperties
  <2>2. Head(s) = s[1]
    OBVIOUS
  <2>3. QED
    BY <2>1, <2>2
<1>5. QED
  BY <1>1, <1>2, <1>3, <1>4

\* Erasing an element leaves the others in their order.
LEMMA RemoveAtFacts ==
  ASSUME NEW S, NEW s \in Seq(S), NEW i \in 1..Len(s)
  PROVE  /\ RemoveAt(s, i) \in Seq(S) /\ DOMAIN RemoveAt(s, i) = 1..(Len(s) - 1)
         /\ \A k \in 1..(Len(s) - 1) : RemoveAt(s, i)[k] = IF k < i THEN s[k] ELSE s[k + 1]
<1> DEFINE a == SubSeq(s, 1, i - 1)
           b == SubSeq(s, i + 1, Len(s))
<1>1. Len(s) \in Nat /\ i \in Int /\ \A k \in 1..Len(s) : s[k] \in S
  BY LenProperties, ElementOfSeq
<1>2. /\ a \in Seq(S) /\ Len(a) = i - 1
      /\ \A k \in 1..(i - 1) : a[k] = s[k]
  <2>1. \A k \in 1..(i - 1) : s[k] \in S
    BY <1>1
  <2>2. /\ a \in Seq(S) /\ Len(a) = IF 1 <= i - 1 THEN (i - 1) - 1 + 1 ELSE 0
        /\ \A k \in 1..((i - 1) - 1 + 1) : a[k] = s[1 + k - 1]
    BY <1>1, <2>1, SubSeqProperties
  <2>3. QED
    BY <1>1, <2>2
<1>3. /\ b \in Seq(S) /\ Len(b) = Len(s) - i
      /\ \A k \in 1..(Len(s) - i) : b[k] = s[i + k]
  <2>1. \A k \in (i + 1)..Len(s) : s[k] \in S
    BY <1>1
  <2>2. /\ b \in Seq(S) /\ Len(b) = IF i + 1 <= Len(s) THEN Len(s) - (i + 1) + 1 ELSE 0
        /\ \A k \in 1..(Len(s) - (i + 1) + 1) : b[k] = s[(i + 1) + k - 1]
    BY <1>1, <2>1, SubSeqProperties
  <2>3. QED
    BY <1>1, <2>2
<1> HIDE DEF a, b
<1>4. /\ a \o b \in Seq(S) /\ Len(a \o b) = Len(a) + Len(b)
      /\ \A k \in 1..(Len(a) + Len(b)) : (a \o b)[k] = IF k <= Len(a) THEN a[k] ELSE b[k - Len(a)]
  BY <1>2, <1>3, ConcatProperties
<1>5. Len(a) + Len(b) = Len(s) - 1 /\ DOMAIN (a \o b) = 1..(Len(s) - 1)
  BY <1>1, <1>2, <1>3, <1>4, LenProperties
<1>6. ASSUME NEW k \in 1..(Len(s) - 1)
      PROVE  (a \o b)[k] = IF k < i THEN s[k] ELSE s[k + 1]
  <2>1. CASE k < i
    BY <1>1, <1>2, <1>4, <1>5, <2>1
  <2>2. CASE ~(k < i)
    <3>1. (a \o b)[k] = b[k - (i - 1)]
      BY <1>1, <1>2, <1>4, <1>5, <2>2
    <3>2. k - (i - 1) \in 1..(Len(s) - i) /\ i + (k - (i - 1)) = k + 1
      BY <1>1, <2>2
    <3>3. QED
      BY <1>3, <2>2, <3>1, <3>2
  <2>3. QED
    BY <2>1, <2>2
<1>7. QED
  BY <1>4, <1>5, <1>6 DEF RemoveAt, a, b

-----------------------------------------------------------------------------
(* The entries. *)

\* A way with line l is the one that lookups find.
LEMMA SlotFound ==
  ASSUME NEW d, NEW l, Apart(d), l \in DirLines, SlotsOf(d, l) # {}
  PROVE  /\ First(SlotsOf(d, l)) \in 1..DirWays
         /\ d.slots[First(SlotsOf(d, l))].line = l
         /\ SlotsOf(d, l) = {First(SlotsOf(d, l))}
<1>1. SlotsOf(d, l) \in SUBSET Nat
  BY DirAssumption DEF SlotsOf
<1>2. First(SlotsOf(d, l)) \in SlotsOf(d, l)
  BY <1>1, FirstIsLeast
<1>3. NoLine \notin DirLines
  BY DirAssumption
<1>4. First(SlotsOf(d, l)) \in 1..DirWays /\ d.slots[First(SlotsOf(d, l))].line = l
  BY <1>2 DEF SlotsOf
<1>5. \A i \in SlotsOf(d, l) : i = First(SlotsOf(d, l))
  <2>1. TAKE i \in SlotsOf(d, l)
  <2>2. i \in 1..DirWays /\ d.slots[i].line = l
    BY DEF SlotsOf
  <2>3. QED
    BY <1>3, <1>4, <2>2 DEF Apart
<1>6. QED
  BY <1>2, <1>4, <1>5

\* So is a replaced entry of line l.
LEMMA ReplacedFound ==
  ASSUME NEW d \in States, NEW l, Apart(d), ReplacedOf(d, l) # {}
  PROVE  /\ First(ReplacedOf(d, l)) \in DOMAIN d.replaced
         /\ First(ReplacedOf(d, l)) \in 1..Len(d.replaced)
         /\ d.replaced[First(ReplacedOf(d, l))].line = l
         /\ ReplacedOf(d, l) = {First(ReplacedOf(d, l))}
<1>1. Len(d.replaced) \in Nat /\ DOMAIN d.replaced = 1..Len(d.replaced)
  BY LenProperties DEF States
<1>2. ReplacedOf(d, l) \in SUBSET Nat
  BY <1>1 DEF ReplacedOf
<1>3. First(ReplacedOf(d, l)) \in ReplacedOf(d, l)
  BY <1>2, FirstIsLeast
<1>4. QED
  BY <1>1, <1>3 DEF ReplacedOf, Apart

\* What the sets of ways and of replaced entries of a line hold.
LEMMA Finding ==
  ASSUME NEW d \in States
  PROVE  /\ \A l, i : i \in SlotsOf(d, l) <=> i \in 1..DirWays /\ d.slots[i].line = l
         /\ \A l, j : j \in ReplacedOf(d, l) <=> j \in DOMAIN d.replaced /\ d.replaced[j].line = l
<1>1. DOMAIN d.replaced = 1..Len(d.replaced)
  BY LenProperties DEF States
<1>2. QED
  BY <1>1 DEF SlotsOf, ReplacedOf

\* What holds between two messages holds when a line's next request is
\* looked at, if the line is not being nullified and has an entry.
LEMMA SoundSettled ==
  ASSUME NEW d, NEW copies, NEW l \in DirLines
  PROVE  /\ Sound(d, copies) /\ ReplacedOf(d, l) = {} /\ (SlotsOf(d, l) # {} \/ Full(d))
              => Settled(d, copies, l)
         /\ Settled(d, copies, l) /\ Served(d, l) => Sound(d, copies)
BY DEF Sound, Settled

\* A lookup that takes a free way leaves the directory sound: the line had no
\* entry, so no copies.
LEMMA Looking ==
  ASSUME NEW copies \in Copies, NEW l \in DirLines, NEW d, Sound(d, copies)
  PROVE  /\ Sound(GetDirectoryEntry(d, l), copies)
         /\ GetDirectoryEntry(d, l).queue = d.queue
         /\ HasEntry(GetDirectoryEntry(d, l), l) \/ Full(GetDirectoryEntry(d, l))
         /\ HasEntry(d, l) \/ Full(d) => GetDirectoryEntry(d, l) = d
<1> USE DEF Sound
<1>1. CASE SlotsOf(d, l) # {} \/ SlotsOf(d, NoLine) = {}
  <2>1. GetDirectoryEntry(d, l) = d
    BY <1>1 DEF GetDirectoryEntry
  <2>2. SlotsOf(d, NoLine) = {} => Full(d)
    BY DEF SlotsOf, Full
  <2>3. QED
    BY <1>1, <2>1, <2>2 DEF HasEntry
<1>2. CASE SlotsOf(d, l) = {} /\ SlotsOf(d, NoLine) # {}
  <2>1. PICK i : i = First(SlotsOf(d, NoLine))
    OBVIOUS
  <2>2. i \in 1..DirWays /\ d.slots[i].line = NoLine
    <3>1. SlotsOf(d, NoLine) \in SUBSET Nat
      BY DirAssumption DEF SlotsOf
    <3>2. i \in SlotsOf(d, NoLine)
      BY <1>2, <2>1, <3>1, FirstIsLeast
    <3>3. QED
      BY <3>2 DEF SlotsOf
  <2>3. d.replaced = <<>> /\ ~Full(d)
    BY <2>2 DEF Room, Full
  <2>4. PICK r : r = GetDirectoryEntry(d, l)
    OBVIOUS
  <2>5. r = [d EXCEPT !.slots[i].line = l]
    BY <1>2, <2>1, <2>4 DEF GetDirectoryEntry
  <2>6. /\ r \in States /\ r.error = d.error /\ r.replaced = d.replaced /\ r.queue = d.queue
        /\ r.slots[i].line = l /\ r.slots[i].sharers = {}
        /\ \A j \in 1..DirWays : j # i => r.slots[j] = d.slots[j]
    <3>1. d.slots[i] \in Entries /\ d.slots[i].sharers = {}
      BY <2>2 DEF States, Room
    <3>2. [d.slots[i] EXCEPT !.line = l] \in Entries
      BY <3>1 DEF Entries
    <3>3. QED
      BY <2>2, <2>5, <3>1, <3>2 DEF States, Entries
  <2>7. DOMAIN r.replaced = {}
    BY <2>3, <2>6
  <2>8. ~HasEntry(d, l)
    BY <1>2, <2>3, <2>7, <2>6, Finding DEF HasEntry
  <2>9. copies[l] = {}
    BY <2>8 DEF Known
  <2>10. \A k : ReplacedOf(r, k) = ReplacedOf(d, k)
    BY <2>6 DEF ReplacedOf
  <2>11. \A k \in DirLines : HasEntry(d, k) => HasEntry(r, k)
    <3>1. ASSUME NEW k \in DirLines, NEW j \in SlotsOf(d, k) PROVE j \in SlotsOf(r, k)
      BY <2>2, <2>6, <3>1, Finding, DirAssumption
    <3>2. QED
      BY <2>10, <3>1 DEF HasEntry
  <2>12. Apart(r)
    <3>1. \A j \in 1..DirWays : d.slots[j].line # l
      BY <1>2, Finding
    <3>2. QED
      BY <2>2, <2>6, <2>7, <3>1 DEF Apart
  <2>13. Room(r)
    BY <2>3, <2>6 DEF Room
  <2>14. Held(r, copies)
    BY <2>6, <2>7, <2>9 DEF Held
  <2>15. Known(r, copies) /\ Named(r) /\ Turns(r.queue) /\ \A k \in DirLines : Served(r, k)
    BY <2>6, <2>10, <2>11 DEF Known, Named, Served
  <2>16. HasEntry(r, l)
    BY <2>2, <2>6, Finding DEF HasEntry
  <2>17. QED
    BY <2>3, <2>4, <2>6, <2>8, <2>12, <2>13, <2>14, <2>15, <2>16
<1>3. QED
  BY <1>1, <1>2

\* The copies when those of line l are held by the cores in S.
With(copies, l, S) == [copies EXCEPT ![l] = S]

\* Changing the sharers of a line's entry, with the copies they stand for.
LEMMA Writing ==
  ASSUME NEW copies \in Copies, NEW l \in DirLines, NEW d, Sound(d, copies),
         HasEntry(d, l), NEW e \in Entries, e.line = l
  PROVE  /\ Sound(SetEntry(d, l, e), With(copies, l, e.sharers))
         /\ SetEntry(d, l, e).queue = d.queue
         /\ ReplacedOf(SetEntry(d, l, e), l) = {} <=> ReplacedOf(d, l) = {}
<1> USE DEF Sound
<1>1. PICK r : r = SetEntry(d, l, e)
  OBVIOUS
<1>2. PICK new : new = With(copies, l, e.sharers)
  OBVIOUS
<1>3. new[l] = e.sharers /\ \A k \in DirLines : k # l => new[k] = copies[k]
  BY <1>2 DEF Copies, With
<1>4. CASE SlotsOf(d, l) # {}
  <2>1. PICK i : i = First(SlotsOf(d, l))
    OBVIOUS
  <2>2. i \in 1..DirWays /\ d.slots[i].line = l
    BY <1>4, <2>1, SlotFound
  <2>3. r = [d EXCEPT !.slots[i] = e]
    BY <1>1, <1>4, <2>1 DEF SetEntry
  <2>4. /\ r \in States /\ r.error = d.error /\ r.replaced = d.replaced /\ r.queue = d.queue
        /\ r.slots[i] = e /\ \A j \in 1..DirWays : j # i => r.slots[j] = d.slots[j]
    BY <2>2, <2>3 DEF States
  <2>5. \A j \in 1..DirWays : r.slots[j].line = d.slots[j].line
    BY <2>2, <2>4
  <2>6. \A k : ReplacedOf(r, k) = ReplacedOf(d, k) /\ SlotsOf(r, k) = SlotsOf(d, k)
    BY <2>4, <2>5 DEF ReplacedOf, SlotsOf
  <2>7. Apart(r)
    BY <2>4, <2>5 DEF Apart
  <2>8. Room(r)
    BY <2>2, <2>4, <2>5, DirAssumption DEF Room, Full
  <2>9. Held(r, new)
    <3>1. \A j \in DOMAIN r.replaced : r.replaced[j].line # l /\ r.replaced[j].line \in DirLines
      BY <2>2, <2>4 DEF Apart
    <3>2. ASSUME NEW j \in 1..DirWays, r.slots[j].line # NoLine
          PROVE  r.slots[j].sharers = new[r.slots[j].line]
      <4>1. CASE j = i
        BY <1>3, <2>4, <4>1
      <4>2. CASE j # i
        <5>1. r.slots[j] = d.slots[j] /\ d.slots[j].line # l
          BY <2>2, <2>4, <3>2, <4>2, DirAssumption DEF Apart
        <5>2. d.slots[j].line \in DirLines
          BY <3>2, <5>1 DEF States, Entries
        <5>3. QED
          BY <1>3, <3>2, <5>1, <5>2 DEF Held
      <4>3. QED
        BY <4>1, <4>2
    <3>3. QED
      BY <1>3, <2>4, <3>1, <3>2 DEF Held
  <2>10. \A k \in DirLines : HasEntry(r, k) <=> HasEntry(d, k)
    BY <2>6 DEF HasEntry
  <2>11. Known(r, new)
    BY <1>3, <2>10 DEF Known
  <2>12. Named(r) /\ Turns(r.queue) /\ \A k \in DirLines : Served(r, k)
    BY <2>4, <2>6, <2>10 DEF Named, Served
  <2>13. QED
    BY <1>1, <1>2, <2>4, <2>6, <2>7, <2>8, <2>9, <2>11, <2>12
<1>5. CASE SlotsOf(d, l) = {}
  <2>1. PICK i : i = First(ReplacedOf(d, l))
    OBVIOUS
  <2>2. ReplacedOf(d, l) # {}
    BY <1>5 DEF HasEntry
  <2>3. i \in DOMAIN d.replaced /\ i \in 1..Len(d.replaced) /\ d.replaced[i].line = l
    BY <2>1, <2>2, ReplacedFound
  <2>4. r = [d EXCEPT !.replaced[i] = e]
    BY <1>1, <1>5, <2>1 DEF SetEntry
  <2>5. /\ r \in States /\ r.error = d.error /\ r.slots = d.slots /\ r.queue = d.queue
        /\ DOMAIN r.replaced = DOMAIN d.replaced /\ Len(r.replaced) = Len(d.replaced)
        /\ r.replaced[i] = e /\ \A j \in DOMAIN d.replaced : j # i => r.replaced[j] = d.replaced[j]
    <3>1. PICK s : s = [d.replaced EXCEPT ![i] = e]
      OBVIOUS
    <3>2. s \in Seq(Entries) /\ Len(s) = Len(d.replaced)
      BY <2>3, <3>1, ExceptSeq DEF States
    <3>3. /\ DOMAIN s = DOMAIN d.replaced /\ s[i] = e
          /\ \A j \in DOMAIN d.replaced : j # i => s[j] = d.replaced[j]
      BY <2>3, <3>1
    <3>4. r = [d EXCEPT !.replaced = s]
      BY <2>4, <3>1
    <3>5. /\ r \in States /\ r.error = d.error /\ r.slots = d.slots /\ r.queue = d.queue
          /\ r.replaced = s
      BY <3>2, <3>4 DEF States
    <3>6. QED
      BY <3>2, <3>3, <3>5
  <2>6. \A j \in DOMAIN d.replaced : r.replaced[j].line = d.replaced[j].line
    BY <2>3, <2>5
  <2>7. \A k : ReplacedOf(r, k) = ReplacedOf(d, k) /\ SlotsOf(r, k) = SlotsOf(d, k)
    <3>1. \A k : SlotsOf(r, k) = SlotsOf(d, k)
      BY <2>5 DEF SlotsOf
    <3>2. \A j \in 1..Len(d.replaced) : r.replaced[j].line = d.replaced[j].line
      BY <2>6, LenProperties DEF States
    <3>3. \A k : ReplacedOf(r, k) = ReplacedOf(d, k)
      BY <2>5, <3>2 DEF ReplacedOf
    <3>4. QED
      BY <3>1, <3>3
  <2>8. Apart(r)
    BY <2>5, <2>6 DEF Apart
  <2>9. Room(r)
    BY <2>3, <2>5 DEF Room, Full
  <2>10. Held(r, new)
    <3>1. \A j \in 1..DirWays : d.slots[j].line # l
      BY <1>5, Finding
    <3>2. \A j \in 1..DirWays : d.slots[j].line # NoLine => d.slots[j].line \in DirLines
      BY DEF States, Entries
    <3>3. \A j \in DOMAIN d.replaced : /\ d.replaced[j].line \in DirLines
                                       /\ j # i => d.replaced[j].line # l
      BY <2>3 DEF Apart
    <3>4. QED
      BY <1>3, <2>3, <2>5, <3>1, <3>2, <3>3 DEF Held
  <2>11. \A k \in DirLines : HasEntry(r, k) <=> HasEntry(d, k)
    BY <2>7 DEF HasEntry
  <2>12. Known(r, new)
    BY <1>3, <2>11 DEF Known
  <2>13. Named(r) /\ Turns(r.queue) /\ \A k \in DirLines : Served(r, k)
    BY <2>5, <2>7, <2>11 DEF Named, Served
  <2>14. QED
    BY <1>1, <1>2, <2>5, <2>7, <2>8, <2>9, <2>10, <2>12, <2>13
<1>6. QED
  BY <1>4, <1>5

-----------------------------------------------------------------------------
(* The queues. *)

Queues == [DirLines -> Seq(DirCores \cup {Nullify})]

\* Whether core c waits in one of the queues.
Waits(q, c) == \E l \in DirLines : \E i \in DOMAIN q[l] : q[l][i] = c

\* Whether x may be put in the queue of l: a core that does not wait yet, or
\* a nullify request for an idle line.
Joins(q, l, x) == IF x = Nullify THEN q[l] = <<>> ELSE ~Waits(q, x)

\* The queues with x behind those of l, and without the head of l.
Joined(q, l, x) == [q EXCEPT ![l] = Append(@, x)]
Left(q, l)      == [q EXCEPT ![l] = Tail(@)]

\* A request that may join a queue.
LEMMA EnqueueTurns ==
  ASSUME NEW q \in Queues, NEW l \in DirLines, NEW x \in DirCores \cup {Nullify}, Turns(q),
         Joins(q, l, x),
         NEW new, new = Joined(q, l, x)
  PROVE  /\ new \in Queues /\ Turns(new)
         /\ \A k \in DirLines : k # l => new[k] = q[k]
         /\ new[l] # <<>>
         /\ Len(new[l]) = 1 <=> q[l] = <<>>
         /\ new[l][1] = IF q[l] = <<>> THEN x ELSE q[l][1]
<1>1. /\ q[l] \in Seq(DirCores \cup {Nullify}) /\ new[l] = Append(q[l], x)
      /\ \A k \in DirLines : k # l => new[k] = q[k]
  BY DEF Queues, Joined, Left
<1>2. PICK n : n = Len(q[l])
  OBVIOUS
<1>3. n \in Nat /\ DOMAIN q[l] = 1..n /\ (q[l] = <<>> <=> n = 0)
  BY <1>1, <1>2, SequenceFacts
<1>4. /\ new[l] \in Seq(DirCores \cup {Nullify}) /\ new[l] # <<>> /\ Len(new[l]) = n + 1
      /\ \A i \in 1..n : new[l][i] = q[l][i]
      /\ new[l][n + 1] = x
  BY <1>1, <1>2, AppendProperties
<1>5. DOMAIN new[l] = 1..(n + 1)
  BY <1>4, LenProperties
<1>6. new \in Queues
  BY <1>1, <1>4 DEF Queues, Joined
<1>7. \A i \in DOMAIN new[l] : (i \in DOMAIN q[l] /\ new[l][i] = q[l][i]) \/ (i = n + 1 /\ new[l][i] = x)
  BY <1>3, <1>4, <1>5
<1>8. ASSUME NEW k \in DirLines, NEW i \in DOMAIN new[k], new[k][i] = Nullify
      PROVE  i = 1
  <2>1. CASE k = l
    <3>1. CASE i \in DOMAIN q[l] /\ new[l][i] = q[l][i]
      BY <1>8, <2>1, <3>1 DEF Turns
    <3>2. CASE i = n + 1 /\ new[l][i] = x
      BY <1>3, <1>8, <2>1, <3>2 DEF Joins
    <3>3. QED
      BY <1>7, <1>8, <2>1, <3>1, <3>2
  <2>2. CASE k # l
    BY <1>1, <1>8, <2>2 DEF Turns
  <2>3. QED
    BY <2>1, <2>2
<1>9. ASSUME NEW k \in DirLines, NEW m \in DirLines, NEW i \in DOMAIN new[k], NEW j \in DOMAIN new[m],
             new[k][i] = new[m][j], new[k][i] # Nullify
      PROVE  k = m /\ i = j
  <2>1. \/ i \in DOMAIN q[k] /\ new[k][i] = q[k][i]
        \/ k = l /\ i = n + 1 /\ new[k][i] = x
    BY <1>1, <1>7, <1>9
  <2>2. \/ j \in DOMAIN q[m] /\ new[m][j] = q[m][j]
        \/ m = l /\ j = n + 1 /\ new[m][j] = x
    BY <1>1, <1>7, <1>9
  <2>3. x # Nullify => \A z \in DirLines : \A y \in DOMAIN q[z] : q[z][y] # x
    BY DEF Waits, Joins
  <2>4. CASE i \in DOMAIN q[k] /\ new[k][i] = q[k][i] /\ j \in DOMAIN q[m] /\ new[m][j] = q[m][j]
    BY <1>9, <2>4 DEF Turns
  <2>5. QED
    BY <1>9, <2>1, <2>2, <2>3, <2>4
<1>10. Turns(new)
  BY <1>8, <1>9 DEF Turns
<1>11. QED
  BY <1>1, <1>3, <1>4, <1>6, <1>10

\* After the head has left, no nullify request is in the queue.
LEMMA DequeueTurns ==
  ASSUME NEW q \in Queues, NEW l \in DirLines, Turns(q), q[l] # <<>>,
         NEW new, new = Left(q, l)
  PROVE  /\ new \in Queues /\ Turns(new)
         /\ \A k \in DirLines : k # l => new[k] = q[k]
         /\ new[l] # <<>> => new[l][1] # Nullify /\ new[l][1] = q[l][2] /\ 2 \in DOMAIN q[l]
<1>1. /\ q[l] \in Seq(DirCores \cup {Nullify}) /\ new[l] = Tail(q[l])
      /\ \A k \in DirLines : k # l => new[k] = q[k]
  BY DEF Queues, Joined, Left
<1>2. PICK n : n = Len(q[l])
  OBVIOUS
<1>3. /\ n \in Nat /\ n >= 1 /\ DOMAIN q[l] = 1..n
      /\ new[l] \in Seq(DirCores \cup {Nullify}) /\ Len(new[l]) = n - 1
      /\ \A i \in 1..(n - 1) : new[l][i] = q[l][i + 1]
  <2>1. PICK s \in Seq(DirCores \cup {Nullify}) : s = q[l]
    BY <1>1
  <2>2. /\ Len(s) \in Nat /\ DOMAIN s = 1..Len(s) /\ (s # <<>> <=> Len(s) >= 1)
        /\ s # <<>> => /\ Tail(s) \in Seq(DirCores \cup {Nullify}) /\ Len(Tail(s)) = Len(s) - 1
                       /\ \A i \in 1..(Len(s) - 1) : Tail(s)[i] = s[i + 1]
    BY <2>1, SequenceFacts
  <2>3. QED
    BY <1>1, <1>2, <2>1, <2>2
<1>4. DOMAIN new[l] = 1..(n - 1) /\ (new[l] # <<>> => n - 1 >= 1)
  BY <1>3, SequenceFacts
<1>5. new \in Queues
  BY <1>1, <1>3 DEF Queues, Left
<1>6. \A i \in DOMAIN new[l] : /\ i \in Int /\ i + 1 \in DOMAIN q[l]
                               /\ new[l][i] = q[l][i + 1] /\ new[l][i] # Nullify
  <2>1. ASSUME NEW i \in DOMAIN new[l]
        PROVE  i \in Int /\ i + 1 \in DOMAIN q[l] /\ new[l][i] = q[l][i + 1] /\ i + 1 # 1
    BY <1>3, <1>4
  <2>2. QED
    BY <2>1 DEF Turns
<1>7. ASSUME NEW k \in DirLines, NEW m \in DirLines, NEW i \in DOMAIN new[k], NEW j \in DOMAIN new[m],
             new[k][i] = new[m][j], new[k][i] # Nullify
      PROVE  k = m /\ i = j
  <2>1. CASE k # l /\ m # l
    BY <1>1, <1>7, <2>1 DEF Turns
  <2>2. CASE k = l /\ m # l
    <3>1. /\ i + 1 \in DOMAIN q[l] /\ j \in DOMAIN q[m]
          /\ q[l][i + 1] = q[m][j] /\ q[l][i + 1] # Nullify
      BY <1>1, <1>6, <1>7, <2>2
    <3>2. QED
      BY <2>2, <3>1 DEF Turns
  <2>3. CASE k # l /\ m = l
    <3>1. /\ i \in DOMAIN q[k] /\ j + 1 \in DOMAIN q[l]
          /\ q[k][i] = q[l][j + 1] /\ q[k][i] # Nullify
      BY <1>1, <1>6, <1>7, <2>3
    <3>2. QED
      BY <2>3, <3>1 DEF Turns
  <2>4. CASE k = l /\ m = l
    <3>1. i + 1 = j + 1
      BY <1>6, <1>7, <2>4 DEF Turns
    <3>2. QED
      BY <1>6, <2>4, <3>1
  <2>5. QED
    BY <2>1, <2>2, <2>3, <2>4
<1>8. \A k \in DirLines : \A i \in DOMAIN new[k] : new[k][i] = Nullify => i = 1
  BY <1>1, <1>6 DEF Turns
<1>9. Turns(new)
  BY <1>7, <1>8 DEF Turns
<1>10. new[l] # <<>> => new[l][1] # Nullify /\ new[l][1] = q[l][2] /\ 2 \in DOMAIN q[l]
  <2>1. new[l] # <<>> => 1 \in DOMAIN new[l]
    BY <1>3, <1>4
  <2>2. 1 + 1 = 2
    OBVIOUS
  <2>3. QED
    BY <1>6, <2>1, <2>2
<1>11. QED
  BY <1>1, <1>5, <1>9, <1>10

\* A request is queued: if it is alone it is looked at.
LEMMA Requesting ==
  ASSUME NEW copies \in Copies, NEW l \in DirLines, NEW d, Sound(d, copies),
         HasEntry(d, l) \/ Full(d), NEW c \in DirCores, c # Nullify, ~Waits(d.queue, c)
  PROVE  /\ Len(Enqueue(d, l, c).queue[l]) = 1 => Settled(Enqueue(d, l, c), copies, l)
         /\ Len(Enqueue(d, l, c).queue[l]) # 1 => Sound(Enqueue(d, l, c), copies)
<1> USE DEF Sound
<1>1. PICK r : r = Enqueue(d, l, c)
  OBVIOUS
<1>2. PICK q : q = Joined(d.queue, l, c)
  OBVIOUS
<1>3. r = [d EXCEPT !.queue = q]
  BY <1>1, <1>2 DEF Enqueue, Joined
<1>4. /\ q \in Queues /\ Turns(q) /\ \A k \in DirLines : k # l => q[k] = d.queue[k]
      /\ q[l] # <<>>
      /\ Len(q[l]) = 1 <=> d.queue[l] = <<>>
      /\ q[l][1] = IF d.queue[l] = <<>> THEN c ELSE d.queue[l][1]
  <2>1. PICK old \in Queues : old = d.queue
    BY DEF States, Queues
  <2>2. /\ c \in DirCores \cup {Nullify} /\ q = Joined(old, l, c) /\ Turns(old)
        /\ Joins(old, l, c)
    BY <1>2, <2>1 DEF Joins
  <2>3. /\ q \in Queues /\ Turns(q) /\ \A k \in DirLines : k # l => q[k] = old[k]
        /\ q[l] # <<>>
        /\ Len(q[l]) = 1 <=> old[l] = <<>>
        /\ q[l][1] = IF old[l] = <<>> THEN c ELSE old[l][1]
    BY <2>2, EnqueueTurns
  <2>4. QED
    BY <2>1, <2>3
<1>5. /\ r \in States /\ r.queue = q /\ r.slots = d.slots /\ r.replaced = d.replaced /\ r.error = d.error
  BY <1>3, <1>4 DEF States, Queues
<1>6. /\ \A k : SlotsOf(r, k) = SlotsOf(d, k) /\ ReplacedOf(r, k) = ReplacedOf(d, k)
      /\ \A k : HasEntry(r, k) <=> HasEntry(d, k)
  BY <1>5 DEF SlotsOf, ReplacedOf, HasEntry
<1>7. Apart(r) /\ Room(r) /\ Held(r, copies) /\ Known(r, copies) /\ Turns(r.queue)
  BY <1>4, <1>5, <1>6 DEF Apart, Room, Full, Held, Known
<1>8. Named(r)
  BY <1>4, <1>5, <1>6 DEF Named
<1>9. \A k \in DirLines : k # l => Served(r, k)
  BY <1>4, <1>5, <1>6 DEF Served
<1>10. CASE d.queue[l] = <<>>
  <2>1. ReplacedOf(d, l) = {}
    BY <1>10 DEF Named
  <2>2. SlotsOf(r, l) # {} \/ Full(r)
    BY <1>5, <1>6, <2>1 DEF HasEntry, Full
  <2>3. QED
    BY <1>1, <1>4, <1>5, <1>6, <1>7, <1>8, <1>9, <1>10, <2>1, <2>2 DEF Settled
<1>11. CASE d.queue[l] # <<>>
  <2>1. Served(r, l)
    BY <1>6, <1>11 DEF Served
  <2>2. QED
    BY <1>1, <1>4, <1>5, <1>7, <1>8, <1>9, <1>11, <2>1
<1>12. QED
  BY <1>10, <1>11

\* A request has been answered: its line is not being nullified.
LEMMA Answering ==
  ASSUME NEW copies \in Copies, NEW l \in DirLines, NEW d, Sound(d, copies),
         d.queue[l] # <<>>, d.queue[l][1] # Nullify
  PROVE  Settled(Dequeue(d, l), copies, l)
<1> USE DEF Sound
<1>1. PICK r : r = Dequeue(d, l)
  OBVIOUS
<1>2. PICK q : q = Left(d.queue, l)
  OBVIOUS
<1>3. r = [d EXCEPT !.queue = q]
  BY <1>1, <1>2 DEF Dequeue, Left
<1>4. /\ q \in Queues /\ Turns(q) /\ \A k \in DirLines : k # l => q[k] = d.queue[k]
      /\ q[l] # <<>> => q[l][1] # Nullify
  <2>1. d.queue \in Queues
    BY DEF States, Queues
  <2>2. QED
    BY <1>2, <2>1, DequeueTurns
<1>5. /\ r \in States /\ r.queue = q /\ r.slots = d.slots /\ r.replaced = d.replaced /\ r.error = d.error
  BY <1>3, <1>4 DEF States, Queues
<1>6. /\ \A k : SlotsOf(r, k) = SlotsOf(d, k) /\ ReplacedOf(r, k) = ReplacedOf(d, k)
      /\ \A k : HasEntry(r, k) <=> HasEntry(d, k)
  BY <1>5 DEF SlotsOf, ReplacedOf, HasEntry
<1>7. Apart(r) /\ Room(r) /\ Held(r, copies) /\ Known(r, copies) /\ Turns(r.queue)
  BY <1>4, <1>5, <1>6 DEF Apart, Room, Full, Held, Known
<1>8. ReplacedOf(d, l) = {}
  BY DEF Named
<1>9. Named(r)
  BY <1>4, <1>5, <1>6, <1>8 DEF Named
<1>10. \A k \in DirLines : k # l => Served(r, k)
  BY <1>4, <1>5, <1>6 DEF Served
<1>11. SlotsOf(r, l) # {}
  BY <1>6, <1>8 DEF Served, HasEntry
<1>12. QED
  BY <1>1, <1>5, <1>6, <1>7, <1>8, <1>9, <1>10, <1>11 DEF Settled

-----------------------------------------------------------------------------
(* Replaced entries. *)

\* The last copy of a line that is being nullified is gone: its entry leaves
\* the list together with the request.
LEMMA Releasing ==
  ASSUME NEW copies \in Copies, NEW l \in DirLines, NEW d, Sound(d, copies),
         ReplacedOf(d, l) # {}, copies[l] = {}
  PROVE  /\ Settled(Dequeue(InvalidateDirectoryEntry(d, l), l), copies, l)
         /\ Full(Dequeue(InvalidateDirectoryEntry(d, l), l))
         /\ Dequeue(InvalidateDirectoryEntry(d, l), l).queue = Left(d.queue, l)
<1> USE DEF Sound
<1>1. PICK r : r = Dequeue(InvalidateDirectoryEntry(d, l), l)
  OBVIOUS
<1>2. PICK i : i = First(ReplacedOf(d, l))
  OBVIOUS
<1>3. i \in DOMAIN d.replaced /\ i \in 1..Len(d.replaced) /\ d.replaced[i].line = l
  BY <1>2, ReplacedFound
<1>4. PICK q : q = Left(d.queue, l)
  OBVIOUS
<1>5. PICK s : s = RemoveAt(d.replaced, i)
  OBVIOUS
<1>6. InvalidateDirectoryEntry(d, l) = [d EXCEPT !.replaced = s]
  BY <1>2, <1>5 DEF InvalidateDirectoryEntry
<1>7. d.queue[l] # <<>> /\ d.queue[l][1] = Nullify
  BY DEF Named
<1>8. /\ q \in Queues /\ Turns(q) /\ \A k \in DirLines : k # l => q[k] = d.queue[k]
      /\ q[l] # <<>> => q[l][1] # Nullify
  <2>1. PICK old \in Queues : old = d.queue
    BY DEF States, Queues
  <2>2. old[l] # <<>> /\ q = Left(old, l) /\ Turns(old)
    BY <1>4, <1>7, <2>1
  <2>3. /\ q \in Queues /\ Turns(q) /\ \A k \in DirLines : k # l => q[k] = old[k]
        /\ q[l] # <<>> => q[l][1] # Nullify
    BY <2>2, DequeueTurns
  <2>4. QED
    BY <2>1, <2>3
<1>9. PICK n : n = Len(d.replaced)
  OBVIOUS
<1>10. /\ n \in Nat /\ DOMAIN d.replaced = 1..n /\ i \in 1..n
       /\ s \in Seq(Entries) /\ DOMAIN s = 1..(n - 1)
       /\ \A k \in 1..(n - 1) : s[k] = IF k < i THEN d.replaced[k] ELSE d.replaced[k + 1]
  <2>1. PICK old \in Seq(Entries) : old = d.replaced
    BY DEF States
  <2>2. Len(old) \in Nat /\ DOMAIN old = 1..Len(old)
    BY LenProperties
  <2>3. i \in 1..Len(old) /\ s = RemoveAt(old, i)
    BY <1>3, <1>5, <2>1
  <2>4. /\ s \in Seq(Entries) /\ DOMAIN s = 1..(Len(old) - 1)
        /\ \A k \in 1..(Len(old) - 1) : s[k] = IF k < i THEN old[k] ELSE old[k + 1]
    BY <2>3, RemoveAtFacts
  <2>5. QED
    BY <1>9, <2>1, <2>2, <2>3, <2>4
<1>11. \A k \in DOMAIN s : \E j \in DOMAIN d.replaced :
         j # i /\ s[k] = d.replaced[j] /\ j = IF k < i THEN k ELSE k + 1
  <2>1. ASSUME NEW k \in DOMAIN s
        PROVE  \E j \in DOMAIN d.replaced :
                 j # i /\ s[k] = d.replaced[j] /\ j = IF k < i THEN k ELSE k + 1
    <3>1. CASE k < i
      <4>1. k \in DOMAIN d.replaced /\ k # i /\ s[k] = d.replaced[k]
        BY <1>10, <3>1
      <4>2. QED
        BY <3>1, <4>1
    <3>2. CASE ~(k < i)
      <4>1. k + 1 \in DOMAIN d.replaced /\ k + 1 # i /\ s[k] = d.replaced[k + 1]
        BY <1>10, <3>2
      <4>2. QED
        BY <3>2, <4>1
    <3>3. QED
      BY <3>1, <3>2
  <2>2. QED
    BY <2>1
<1>12. \A j \in DOMAIN d.replaced : j # i => \E k \in DOMAIN s : s[k] = d.replaced[j]
  <2>1. ASSUME NEW j \in DOMAIN d.replaced, j # i PROVE \E k \in DOMAIN s : s[k] = d.replaced[j]
    <3>1. CASE j < i
      <4>1. j \in DOMAIN s /\ s[j] = d.replaced[j]
        BY <1>10, <2>1, <3>1
      <4>2. QED
        BY <4>1
    <3>2. CASE ~(j < i)
      <4>1. j - 1 \in DOMAIN s /\ ~(j - 1 < i) /\ (j - 1) + 1 = j
        BY <1>10, <2>1, <3>2
      <4>2. s[j - 1] = d.replaced[j]
        BY <1>10, <4>1
      <4>3. QED
        BY <4>1, <4>2
    <3>3. QED
      BY <3>1, <3>2
  <2>2. QED
    BY <2>1
<1>13. /\ r \in States /\ r.queue = q /\ r.slots = d.slots /\ r.replaced = s /\ r.error = d.error
  BY <1>1, <1>4, <1>6, <1>8, <1>10 DEF Dequeue, Left, States, Queues
<1>14. Full(d) /\ Full(r)
  <2>1. d.replaced # <<>>
    BY <1>3
  <2>2. QED
    BY <1>13, <2>1 DEF Room, Full
<1>15. \A k : SlotsOf(r, k) = SlotsOf(d, k)
  BY <1>13 DEF SlotsOf
<1>16. ReplacedOf(r, l) = {} /\ \A k \in DirLines : k # l => (ReplacedOf(r, k) # {} <=> ReplacedOf(d, k) # {})
  <2>1. \A k, j : j \in ReplacedOf(d, k) <=> j \in DOMAIN d.replaced /\ d.replaced[j].line = k
    BY Finding
  <2>2. \A k, j : j \in ReplacedOf(r, k) <=> j \in DOMAIN s /\ s[j].line = k
    BY <1>13, Finding
  <2>3. \A j \in DOMAIN d.replaced : j # i => d.replaced[j].line # l
    BY <1>3 DEF Apart
  <2>4. ReplacedOf(r, l) = {}
    BY <1>11, <2>2, <2>3
  <2>5. ASSUME NEW k \in DirLines, k # l
        PROVE  ReplacedOf(r, k) # {} <=> ReplacedOf(d, k) # {}
    <3>1. ASSUME NEW j \in ReplacedOf(r, k) PROVE ReplacedOf(d, k) # {}
      BY <1>11, <2>1, <2>2, <3>1
    <3>2. ASSUME NEW j \in ReplacedOf(d, k) PROVE ReplacedOf(r, k) # {}
      <4>1. j \in DOMAIN d.replaced /\ d.replaced[j].line = k /\ j # i
        BY <1>3, <2>1, <2>5, <3>2
      <4>2. PICK m \in DOMAIN s : s[m] = d.replaced[j]
        BY <1>12, <4>1
      <4>3. m \in ReplacedOf(r, k)
        BY <2>2, <4>1, <4>2
      <4>4. QED
        BY <4>3
    <3>3. QED
      BY <3>1, <3>2
  <2>6. QED
    BY <2>4, <2>5
<1>17. \A k \in DirLines : k # l => (HasEntry(r, k) <=> HasEntry(d, k))
  BY <1>15, <1>16 DEF HasEntry
<1>18. Apart(r)
  <2>1. ASSUME NEW k \in DOMAIN s, NEW m \in DOMAIN s, s[k].line = s[m].line PROVE k = m
    <3>1. PICK j \in DOMAIN d.replaced : s[k] = d.replaced[j] /\ j = IF k < i THEN k ELSE k + 1
      BY <1>11
    <3>2. PICK h \in DOMAIN d.replaced : s[m] = d.replaced[h] /\ h = IF m < i THEN m ELSE m + 1
      BY <1>11
    <3>3. j = h
      BY <2>1, <3>1, <3>2 DEF Apart
    <3>4. QED
      BY <1>10, <3>1, <3>2, <3>3
  <2>2. QED
    BY <1>11, <1>13, <2>1 DEF Apart
<1>19. Held(r, copies)
  BY <1>11, <1>13 DEF Held
<1>20. Known(r, copies)
  BY <1>17 DEF Known
<1>21. Named(r)
  BY <1>8, <1>13, <1>16 DEF Named
<1>22. Room(r)
  BY <1>13, <1>14 DEF Room, Full
<1>23. \A k \in DirLines : k # l => Served(r, k)
  BY <1>8, <1>13, <1>17 DEF Served
<1>24. QED
  BY <1>1, <1>4, <1>8, <1>13, <1>14, <1>16, <1>18, <1>19, <1>20, <1>21, <1>22, <1>23 DEF Settled

-----------------------------------------------------------------------------
(* Allocation. *)

\* If no way can be replaced, a core waits for the line of each of them and
\* one more for the line to be allocated.
LEMMA MoreCoresThanWays ==
  ASSUME NEW copies \in Copies, NEW l \in DirLines, NEW d, Settled(d, copies, l),
         Full(d), ~HasEntry(d, l), d.queue[l] # <<>>, Candidates(d) = {}
  PROVE  ~(Cardinality(DirCores) <= DirWays)
<1> USE DEF Settled
<1>1. DirWays \in Nat
  BY DirAssumption
<1>2. PICK at : at = [i \in 0..DirWays |-> IF i = 0 THEN l ELSE d.slots[i].line]
  OBVIOUS
<1>3. /\ at[0] = l
      /\ \A i \in 1..DirWays : at[i] = d.slots[i].line /\ at[i] # l /\ at[i] # NoLine
  <2>1. \A i \in 1..DirWays : at[i] = d.slots[i].line /\ d.slots[i].line # NoLine
    BY <1>1, <1>2 DEF Full
  <2>2. \A i \in 1..DirWays : d.slots[i].line # l
    BY Finding DEF HasEntry
  <2>3. at[0] = l
    BY <1>1, <1>2
  <2>4. QED
    BY <2>1, <2>2, <2>3
<1>4. \A i \in 0..DirWays : i = 0 \/ i \in 1..DirWays
  BY <1>1
<1>5. ASSUME NEW i \in 0..DirWays
      PROVE  /\ at[i] \in DirLines /\ d.queue[at[i]] # <<>>
             /\ ReplacedOf(d, at[i]) = {}
  <2>1. CASE i = 0
    BY <1>3, <2>1
  <2>2. CASE i \in 1..DirWays
    <3>1. at[i] \in DirLines
      BY <1>3, <2>2 DEF States, Entries
    <3>2. d.queue[d.slots[i].line] # <<>>
      BY <2>2 DEF Candidates
    <3>3. \A j \in DOMAIN d.replaced : d.replaced[j].line # at[i]
      BY <1>3, <2>2 DEF Apart
    <3>4. QED
      BY <1>3, <2>2, <3>1, <3>2, <3>3, Finding
  <2>3. QED
    BY <1>4, <2>1, <2>2
<1>6. ASSUME NEW i \in 0..DirWays
      PROVE  /\ 1 \in DOMAIN d.queue[at[i]] /\ d.queue[at[i]][1] # Nullify
             /\ d.queue[at[i]][1] \in DirCores
  <2>1. PICK s \in Seq(DirCores \cup {Nullify}) : s = d.queue[at[i]]
    BY <1>5 DEF States
  <2>2. 1 \in DOMAIN s /\ s[1] \in DirCores \cup {Nullify}
    BY <1>5, <2>1, SequenceFacts
  <2>3. d.queue[at[i]][1] # Nullify
    BY <1>5 DEF Named
  <2>4. QED
    BY <2>1, <2>2, <2>3
<1>7. PICK f : f = [i \in 0..DirWays |-> d.queue[at[i]][1]]
  OBVIOUS
<1>8. f \in [0..DirWays -> DirCores]
  BY <1>6, <1>7
<1>9. ASSUME NEW i \in 0..DirWays, NEW j \in 0..DirWays, f[i] = f[j] PROVE i = j
  <2>1. at[i] = at[j]
    <3>1. d.queue[at[i]][1] = d.queue[at[j]][1]
      BY <1>7, <1>9
    <3>2. QED
      BY <1>5, <1>6, <3>1 DEF Turns
  <2>2. CASE i = 0 \/ j = 0
    BY <1>3, <1>4, <2>1, <2>2
  <2>3. CASE i \in 1..DirWays /\ j \in 1..DirWays
    BY <1>3, <2>1, <2>3 DEF Apart
  <2>4. QED
    BY <1>4, <2>2, <2>3
<1>10. IsFiniteSet(0..DirWays) /\ Cardinality(0..DirWays) = DirWays + 1
  <2>1. DirWays \in Int /\ 0 \in Int /\ ~(0 > DirWays) /\ DirWays - 0 + 1 = DirWays + 1
    BY <1>1
  <2>2. /\ IsFiniteSet(0..DirWays)
        /\ Cardinality(0..DirWays) = IF 0 > DirWays THEN 0 ELSE DirWays - 0 + 1
    BY <2>1, FS_Interval
  <2>3. QED
    BY <2>1, <2>2
<1>11. IsFiniteSet(DirCores) /\ Cardinality(DirCores) \in Nat
  BY FS_CardinalityType, DirAssumption
<1>12. ~(Cardinality(DirCores) < Cardinality(0..DirWays))
  BY <1>8, <1>9, <1>10, <1>11, FS_PigeonHole
<1>13. QED
  BY <1>1, <1>10, <1>11, <1>12

\* Line l takes way v.
Replaced(d, v, l) == Enqueue(ReplaceDirectoryEntry(d, v, l), d.slots[v].line, Nullify)

\* Way v, with an entry for line old that no request waits for, is to be l's.
Chosen(d, copies, l, v, old) ==
  /\ Settled(d, copies, l) /\ Full(d) /\ ~HasEntry(d, l)
  /\ v \in Candidates(d) /\ old = d.slots[v].line

\* The entry in way v goes to the list of replaced ones, with a request to
\* nullify its line, and l gets the way.
LEMMA Replacing ==
  ASSUME NEW copies \in Copies, NEW l \in DirLines, NEW d, NEW v, NEW old,
         Chosen(d, copies, l, v, old)
  PROVE  /\ Sound(Replaced(d, v, l), copies) /\ old \in DirLines
         /\ Replaced(d, v, l).queue[old] = <<Nullify>>
         /\ ReplacedOf(Replaced(d, v, l), old) # {} /\ copies[old] = d.slots[v].sharers
<1> SUFFICES ASSUME Settled(d, copies, l), Full(d), ~HasEntry(d, l),
                    v \in Candidates(d), old = d.slots[v].line
             PROVE  /\ Sound(Replaced(d, v, l), copies) /\ old \in DirLines
                    /\ Replaced(d, v, l).queue[old] = <<Nullify>>
                    /\ ReplacedOf(Replaced(d, v, l), old) # {}
                    /\ copies[old] = d.slots[v].sharers
  BY DEF Chosen
<1>0. PICK r : r = Replaced(d, v, l)
  OBVIOUS
<1> USE DEF Settled
<1>1. v \in 1..DirWays /\ d.queue[old] = <<>> /\ old # NoLine
  BY DEF Candidates, Full
<1>2. old \in DirLines /\ old # l
  <2>1. old \in DirLines
    BY <1>1 DEF States, Entries
  <2>2. \A i \in 1..DirWays : d.slots[i].line # l
    BY Finding DEF HasEntry
  <2>3. QED
    BY <1>1, <2>1, <2>2
<1>3. PICK e \in Entries : e = d.slots[v]
  BY <1>1 DEF States
<1>4. PICK new \in Entries : new = [FreshEntry EXCEPT !.line = l]
  BY DEF FreshEntry, Entries
<1>5. new.line = l /\ new.sharers = {}
  BY <1>4 DEF FreshEntry
<1>6. PICK s : s = Append(d.replaced, e)
  OBVIOUS
<1>7. PICK n : n = Len(d.replaced)
  OBVIOUS
<1>8. /\ n \in Nat /\ DOMAIN d.replaced = 1..n /\ s \in Seq(Entries) /\ DOMAIN s = 1..(n + 1)
      /\ \A j \in 1..n : s[j] = d.replaced[j]
      /\ s[n + 1] = e
  <2>1. PICK list \in Seq(Entries) : list = d.replaced
    BY DEF States
  <2>2. /\ s \in Seq(Entries) /\ Len(s) = n + 1 /\ \A j \in 1..n : s[j] = list[j]
        /\ s[n + 1] = e
    BY <1>3, <1>6, <1>7, <2>1, AppendProperties
  <2>3. n \in Nat /\ DOMAIN list = 1..n /\ DOMAIN s = 1..Len(s)
    BY <1>7, <2>1, <2>2, LenProperties
  <2>4. QED
    BY <2>1, <2>2, <2>3
<1>9. \A j \in DOMAIN s : \/ j \in DOMAIN d.replaced /\ s[j] = d.replaced[j]
                          \/ j = n + 1 /\ s[j] = e
  <2>1. ASSUME NEW j \in DOMAIN s
        PROVE  \/ j \in DOMAIN d.replaced /\ s[j] = d.replaced[j]
               \/ j = n + 1 /\ s[j] = e
    <3>1. j \in 1..n \/ j = n + 1
      BY <1>8
    <3>2. CASE j \in 1..n
      BY <1>8, <3>2
    <3>3. CASE j = n + 1
      BY <1>8, <3>3
    <3>4. QED
      BY <3>1, <3>2, <3>3
  <2>2. QED
    BY <2>1
<1>10. PICK q : q = Joined(d.queue, old, Nullify)
  OBVIOUS
<1>11. /\ q \in Queues /\ Turns(q) /\ \A k \in DirLines : k # old => q[k] = d.queue[k]
       /\ q[old] = <<Nullify>> /\ q[old] # <<>> /\ q[old][1] = Nullify
  <2>1. PICK was \in Queues : was = d.queue
    BY DEF States, Queues
  <2>2. q = Joined(was, old, Nullify) /\ Turns(was) /\ Joins(was, old, Nullify)
    BY <1>1, <1>10, <2>1 DEF Joins
  <2>3. Nullify \in DirCores \cup {Nullify}
    OBVIOUS
  <2>4. /\ q \in Queues /\ Turns(q) /\ \A k \in DirLines : k # old => q[k] = was[k]
        /\ q[old] # <<>>
        /\ q[old][1] = IF was[old] = <<>> THEN Nullify ELSE was[old][1]
    BY <1>2, <2>2, <2>3, EnqueueTurns
  <2>5. q[old] = Append(<<>>, Nullify)
    BY <1>1, <1>2, <2>1, <2>2 DEF Joined, Queues
  <2>6. QED
    BY <1>1, <2>1, <2>4, <2>5
<1>12. /\ r \in States /\ r.queue = q /\ r.replaced = s /\ r.error = d.error
       /\ r.slots[v] = new /\ \A i \in 1..DirWays : i # v => r.slots[i] = d.slots[i]
  <2>1. PICK d1 : d1 = ReplaceDirectoryEntry(d, v, l)
    OBVIOUS
  <2>2. d1 = [d EXCEPT !.replaced = s, !.slots[v] = new]
    BY <1>3, <1>4, <1>6, <2>1 DEF ReplaceDirectoryEntry
  <2>3. /\ d1 \in States /\ d1.queue = d.queue /\ d1.replaced = s /\ d1.error = d.error
        /\ d1.slots[v] = new /\ \A i \in 1..DirWays : i # v => d1.slots[i] = d.slots[i]
    BY <1>1, <1>8, <2>2 DEF States
  <2>4. r = [d1 EXCEPT !.queue = q]
    BY <1>0, <1>10, <2>1, <2>3 DEF Replaced, Enqueue, Joined
  <2>5. QED
    BY <1>11, <2>3, <2>4 DEF States, Queues
<1>13. \A k, i : i \in SlotsOf(r, k) <=> i \in 1..DirWays /\ r.slots[i].line = k
  BY <1>12, Finding
<1>14. \A k, j : j \in ReplacedOf(r, k) <=> j \in DOMAIN s /\ s[j].line = k
  BY <1>12, Finding
<1>15. v \in SlotsOf(r, l) /\ n + 1 \in ReplacedOf(r, old)
  BY <1>1, <1>3, <1>5, <1>8, <1>12, <1>13, <1>14
<1>16. \A i \in 1..DirWays : d.slots[i].line # l
  BY Finding DEF HasEntry
<1>17. \A j \in DOMAIN d.replaced : d.replaced[j].line # l /\ d.replaced[j].line # old
  <2>1. \A j \in DOMAIN d.replaced : d.replaced[j].line # l
    BY Finding DEF HasEntry
  <2>2. QED
    BY <1>1, <2>1 DEF Apart
<1>18. \A i \in 1..DirWays : i # v => r.slots[i].line # old
  BY <1>1, <1>12 DEF Apart
<1>19. Apart(r)
  <2>1. \A i, j \in 1..DirWays : r.slots[i].line = r.slots[j].line /\ r.slots[i].line # NoLine => i = j
    BY <1>1, <1>5, <1>12, <1>16 DEF Apart
  <2>2. \A i, j \in DOMAIN s : s[i].line = s[j].line => i = j
    BY <1>3, <1>9, <1>17 DEF Apart
  <2>3. \A i \in 1..DirWays, j \in DOMAIN s : r.slots[i].line # s[j].line
    BY <1>2, <1>3, <1>5, <1>9, <1>12, <1>17, <1>18 DEF Apart
  <2>4. \A j \in DOMAIN s : s[j].line \in DirLines
    BY <1>2, <1>3, <1>9 DEF Apart
  <2>5. QED
    BY <1>12, <2>1, <2>2, <2>3, <2>4 DEF Apart
<1>20. Full(r) /\ Room(r)
  BY <1>5, <1>12, DirAssumption DEF Full, Room
<1>21. copies[old] = d.slots[v].sharers
  BY <1>1 DEF Held
<1>22. copies[l] = {}
  BY DEF Known
<1>23. Held(r, copies)
  <2>1. \A i \in 1..DirWays : r.slots[i].sharers = copies[r.slots[i].line]
    <3>1. \A i \in 1..DirWays : i # v => r.slots[i].sharers = copies[r.slots[i].line]
      BY <1>12 DEF Held, Full
    <3>2. r.slots[v].sharers = copies[r.slots[v].line]
      BY <1>5, <1>12, <1>22
    <3>3. QED
      BY <3>1, <3>2
  <2>2. \A j \in DOMAIN s : s[j].sharers = copies[s[j].line]
    BY <1>3, <1>9, <1>21 DEF Held
  <2>3. QED
    BY <1>12, <2>1, <2>2 DEF Held
<1>24. ASSUME NEW k \in DirLines, HasEntry(d, k) PROVE HasEntry(r, k)
  <2>1. CASE k = old
    BY <1>15, <2>1 DEF HasEntry
  <2>2. ASSUME k # old, NEW i \in SlotsOf(d, k) PROVE HasEntry(r, k)
    <3>1. i \in 1..DirWays /\ d.slots[i].line = k /\ i # v
      BY <2>2, Finding
    <3>2. i \in SlotsOf(r, k)
      BY <1>12, <1>13, <3>1
    <3>3. QED
      BY <3>2 DEF HasEntry
  <2>3. ASSUME NEW j \in ReplacedOf(d, k) PROVE HasEntry(r, k)
    <3>1. j \in DOMAIN d.replaced /\ d.replaced[j].line = k
      BY <2>3, Finding
    <3>2. j \in DOMAIN s /\ s[j].line = k
      BY <1>8, <3>1
    <3>3. QED
      BY <1>14, <3>2 DEF HasEntry
  <2>4. QED
    BY <1>24, <2>1, <2>2, <2>3 DEF HasEntry
<1>25. Known(r, copies)
  BY <1>24 DEF Known
<1>26. Named(r)
  <2>1. ReplacedOf(r, old) # {} /\ q[old] # <<>> /\ q[old][1] = Nullify
    BY <1>11, <1>15
  <2>2. ASSUME NEW k \in DirLines, k # old
        PROVE  ReplacedOf(r, k) # {} <=> ReplacedOf(d, k) # {}
    <3>1. \A j : j \in ReplacedOf(r, k) => j \in ReplacedOf(d, k)
      BY <1>3, <1>9, <1>14, <2>2, Finding
    <3>2. \A j : j \in ReplacedOf(d, k) => j \in ReplacedOf(r, k)
      <4>1. ASSUME NEW j \in ReplacedOf(d, k) PROVE j \in ReplacedOf(r, k)
        <5>1. j \in DOMAIN d.replaced /\ d.replaced[j].line = k
          BY <4>1, Finding
        <5>2. j \in DOMAIN s /\ s[j].line = k
          BY <1>8, <5>1
        <5>3. QED
          BY <1>14, <5>2
      <4>2. QED
        BY <4>1
    <3>3. QED
      BY <3>1, <3>2
  <2>3. ASSUME NEW k \in DirLines
        PROVE  ReplacedOf(r, k) # {} <=> q[k] # <<>> /\ q[k][1] = Nullify
    <3>1. CASE k = old
      BY <2>1, <3>1
    <3>2. CASE k # old
      BY <1>11, <2>2, <3>2 DEF Named
    <3>3. QED
      BY <3>1, <3>2
  <2>4. QED
    BY <1>12, <2>3 DEF Named
<1>27. ASSUME NEW k \in DirLines PROVE Served(r, k)
  <2>1. CASE k = l
    BY <1>15, <2>1 DEF Served, HasEntry
  <2>2. CASE k = old
    BY <1>15, <2>2 DEF Served, HasEntry
  <2>3. CASE k # l /\ k # old
    <3>1. q[k] = d.queue[k] /\ Served(d, k)
      BY <1>11, <2>3
    <3>2. QED
      BY <1>12, <1>24, <3>1 DEF Served
  <2>4. QED
    BY <2>1, <2>2, <2>3
<1>28. QED
  BY <1>0, <1>2, <1>11, <1>12, <1>15, <1>19, <1>20, <1>21, <1>23, <1>25, <1>26, <1>27 DEF Sound

\* An allocation replaces an entry without requests, if there is one; an
\* entry without copies leaves the list at once.
LEMMA Allocating ==
  ASSUME NEW copies \in Copies, NEW l \in DirLines, NEW d, Settled(d, copies, l),
         Full(d), ~HasEntry(d, l), d.queue[l] # <<>>
  PROVE  Good(Allocate(d, l), copies)
<1> DEFINE n(i) == Cardinality(d.slots[i].sharers)
           few  == {i \in Candidates(d) : \A j \in Candidates(d) : n(i) <= n(j)}
<1>1. CASE Candidates(d) = {}
  <2>1. Allocate(d, l) = [d EXCEPT !.error = "allocation"]
    BY <1>1 DEF Allocate
  <2>2. PICK r : r = [d EXCEPT !.error = "allocation"]
    OBVIOUS
  <2>3. r \in States /\ r.error = "allocation" /\ r.slots = d.slots /\ r.replaced = d.replaced
    <3>1. PICK why \in Errors : why = "allocation"
      BY DEF Errors
    <3>2. r = [d EXCEPT !.error = why] /\ d \in States
      BY <2>2, <3>1 DEF Settled
    <3>3. QED
      BY <3>1, <3>2 DEF States
  <2>4. Apart(r) /\ Known(r, copies)
    BY <2>3 DEF Settled, Apart, Known, HasEntry, SlotsOf, ReplacedOf
  <2>5. ~(Cardinality(DirCores) <= DirWays)
    BY <1>1, MoreCoresThanWays
  <2>6. QED
    BY <2>1, <2>2, <2>3, <2>4, <2>5 DEF Good
<1>2. CASE Candidates(d) # {}
  <2>1. Candidates(d) \in SUBSET Nat
    BY DirAssumption DEF Candidates
  <2>2. few # {} /\ few \in SUBSET Nat
    <3>1. PICK m : m = [i \in Candidates(d) |-> n(i)]
      OBVIOUS
    <3>2. \A i \in Candidates(d) : m[i] = n(i)
      BY <3>1
    <3>3. ASSUME NEW i \in Candidates(d) PROVE n(i) \in Nat
      <4>1. i \in 1..DirWays
        BY DEF Candidates
      <4>2. d.slots[i].sharers \in SUBSET DirCores
        BY <4>1 DEF Settled, States, Entries
      <4>3. QED
        BY <4>2, FS_Subset, FS_CardinalityType, DirAssumption
    <3>4. PICK i \in Candidates(d) : \A j \in Candidates(d) : m[i] <= m[j]
      <4>1. \A i \in Candidates(d) : m[i] \in Nat
        BY <3>2, <3>3
      <4>2. QED
        BY <1>2, <4>1, FewestExists
    <3>5. QED
      BY <2>1, <3>2, <3>4
  <2>3. PICK v : v = First(few)
    OBVIOUS
  <2>4. v \in Candidates(d)
    <3>1. v \in few
      BY <2>2, <2>3, FirstIsLeast
    <3>2. QED
      BY <3>1
  <2>5. PICK old : old = d.slots[v].line
    OBVIOUS
  <2>6. PICK r : r = Replaced(d, v, l)
    OBVIOUS
  <2>7. /\ Sound(r, copies) /\ old \in DirLines /\ r.queue[old] = <<Nullify>>
        /\ ReplacedOf(r, old) # {} /\ copies[old] = d.slots[v].sharers
    <3>1. Chosen(d, copies, l, v, old)
      BY <2>4, <2>5 DEF Chosen
    <3>2. QED
      BY <2>6, <3>1, Replacing
  <2>8. Len(r.queue[old]) = 1
    BY <2>7
  <2>9. Allocate(d, l) = IF n(v) > 0 THEN r ELSE Dequeue(InvalidateDirectoryEntry(r, old), old)
    BY <1>2, <2>3, <2>5, <2>6, <2>8 DEF Allocate, Replaced
  <2>10. CASE n(v) > 0
    BY <2>7, <2>9, <2>10 DEF Good
  <2>11. CASE ~(n(v) > 0)
    <3>1. copies[old] = {}
      <4>1. v \in 1..DirWays
        BY <2>4 DEF Candidates
      <4>2. d.slots[v].sharers \in SUBSET DirCores
        BY <4>1 DEF Settled, States, Entries
      <4>3. IsFiniteSet(d.slots[v].sharers) /\ n(v) \in Nat
        BY <4>2, FS_Subset, FS_CardinalityType, DirAssumption
      <4>4. n(v) = 0
        BY <2>11, <4>3
      <4>5. QED
        BY <2>7, <4>3, <4>4, FS_EmptySet
    <3>2. PICK w : w = Dequeue(InvalidateDirectoryEntry(r, old), old)
      OBVIOUS
    <3>3. Settled(w, copies, old) /\ w.queue = Left(r.queue, old)
      BY <2>7, <3>1, <3>2, Releasing
    <3>4. w.queue[old] = <<>>
      <4>1. r.queue \in Queues
        BY <2>7 DEF Sound, States, Queues
      <4>2. w.queue[old] = Tail(<<Nullify>>)
        BY <2>7, <3>3, <4>1 DEF Left, Queues
      <4>3. QED
        BY <4>2
    <3>5. Sound(w, copies)
      BY <2>7, <3>3, <3>4, SoundSettled DEF Served
    <3>6. QED
      BY <2>9, <2>11, <3>2, <3>5 DEF Good
  <2>12. QED
    BY <2>10, <2>11
<1>3. QED
  BY <1>1, <1>2

\* A request at the head of a line's queue is looked at.
LEMMA Processing ==
  ASSUME NEW copies \in Copies, NEW l \in DirLines, NEW d, Settled(d, copies, l)
  PROVE  Good(IF d.queue[l] = <<>> THEN d ELSE ProcessHead(d, l), copies)
<1> USE DEF Settled
<1>1. CASE d.queue[l] = <<>>
  BY <1>1, SoundSettled DEF Served, Good
<1>2. CASE d.queue[l] # <<>>
  <2>1. GetDirectoryEntry(d, l) = d
    <3>1. SlotsOf(d, l) # {} \/ SlotsOf(d, NoLine) = {}
      BY DEF SlotsOf, Full
    <3>2. QED
      BY <3>1 DEF GetDirectoryEntry
  <2>2. CASE HasEntry(d, l)
    <3>1. ProcessHead(d, l) = d
      BY <2>1, <2>2 DEF ProcessHead
    <3>2. Sound(d, copies)
      BY <2>2, SoundSettled DEF Served
    <3>3. QED
      BY <1>2, <3>1, <3>2 DEF Good
  <2>3. CASE ~HasEntry(d, l)
    <3>1. ProcessHead(d, l) = Allocate(d, l)
      BY <2>1, <2>3 DEF ProcessHead
    <3>2. Full(d)
      BY <2>3 DEF HasEntry
    <3>3. QED
      BY <1>2, <2>3, <3>1, <3>2, Allocating
  <2>4. QED
    BY <2>2, <2>3
<1>3. QED
  BY <1>1, <1>2

-----------------------------------------------------------------------------
(* The steps. *)

\* The inductive invariant.
DirInv == dir_type \in EntryTypes /\ dir_copies \in Copies /\ Good(Dir, dir_copies)

\* The entry a line has is of that line, and its sharers have copies.
LEMMA EntryFound ==
  ASSUME NEW copies \in Copies, NEW l \in DirLines, NEW d, Sound(d, copies),
         HasEntry(d, l)
  PROVE  /\ EntryOf(d, l) \in Entries /\ EntryOf(d, l).line = l
         /\ EntryOf(d, l).sharers = copies[l]
<1> USE DEF Sound
<1>1. CASE SlotsOf(d, l) # {}
  <2>1. PICK i : i = First(SlotsOf(d, l))
    OBVIOUS
  <2>2. i \in 1..DirWays /\ d.slots[i].line = l
    BY <1>1, <2>1, SlotFound
  <2>3. EntryOf(d, l) = d.slots[i]
    BY <1>1, <2>1 DEF EntryOf
  <2>4. QED
    BY <2>2, <2>3, DirAssumption DEF States, Held
<1>2. CASE SlotsOf(d, l) = {}
  <2>1. PICK i : i = First(ReplacedOf(d, l))
    OBVIOUS
  <2>2. ReplacedOf(d, l) # {}
    BY <1>2 DEF HasEntry
  <2>3. i \in DOMAIN d.replaced /\ i \in 1..Len(d.replaced) /\ d.replaced[i].line = l
    BY <2>1, <2>2, ReplacedFound
  <2>4. EntryOf(d, l) = d.replaced[i]
    BY <1>2, <2>1 DEF EntryOf
  <2>5. d.replaced[i] \in Entries
    BY <2>3, ElementOfSeq DEF States
  <2>6. QED
    BY <2>3, <2>4, <2>5 DEF Held
<1>3. QED
  BY <1>1, <1>2

\* A message that leaves the directory good keeps the invariant.
LEMMA Becoming ==
  ASSUME NEW d, Becomes(d), dir_type \in EntryTypes, dir_copies' \in Copies, Good(d, dir_copies')
  PROVE  DirInv'
<1>1. d \in States
  BY DEF Good, Sound
<1>2. Dir' = d
  BY <1>1 DEF Dir, Becomes, States
<1>3. dir_type' = dir_type
  BY DEF Becomes
<1>4. QED
  BY <1>2, <1>3 DEF DirInv

\* While the directory has not stopped it is sound.
LEMMA Running ==
  ASSUME DirInv, dir_error = "none"
  PROVE  Sound(Dir, dir_copies) /\ dir_type \in EntryTypes /\ dir_copies \in Copies
BY DEF DirInv, Good, Dir

\* Request: looked up, queued and, alone, handled.
LEMMA RequestStep ==
  ASSUME DirInv, NEW c \in DirCores, NEW l \in DirLines, Request(c, l)
  PROVE  DirInv'
<1>1. Sound(Dir, dir_copies) /\ dir_type \in EntryTypes /\ dir_copies \in Copies
  BY Running DEF Request
<1>2. PICK g : g = GetDirectoryEntry(Dir, l)
  OBVIOUS
<1>3. Sound(g, dir_copies) /\ g.queue = Dir.queue /\ (HasEntry(g, l) \/ Full(g))
  BY <1>1, <1>2, Looking
<1>4. c # Nullify /\ ~Waits(g.queue, c)
  <2>1. Dir.queue = dir_queue
    BY DEF Dir
  <2>2. \A k \in DirLines : DOMAIN dir_queue[k] = 1..Len(dir_queue[k])
    BY <1>1, <2>1, LenProperties DEF Sound, States
  <2>3. ~Waiting(c)
    BY DEF Request
  <2>4. QED
    BY <1>3, <2>1, <2>2, <2>3, DirAssumption DEF Waiting, Waits
<1>5. PICK d : d = Enqueue(g, l, c)
  OBVIOUS
<1>6. /\ Len(d.queue[l]) = 1 => Settled(d, dir_copies, l)
      /\ Len(d.queue[l]) # 1 => Sound(d, dir_copies)
  BY <1>1, <1>3, <1>4, <1>5, Requesting
<1>7. /\ Becomes(IF Len(d.queue[l]) = 1 THEN ProcessHead(d, l) ELSE d)
      /\ dir_copies' = dir_copies
  BY <1>2, <1>5 DEF Request
<1>8. CASE Len(d.queue[l]) = 1
  <2>1. d.queue[l] # <<>>
    BY <1>8
  <2>2. Good(ProcessHead(d, l), dir_copies)
    BY <1>1, <1>6, <1>8, <2>1, Processing
  <2>3. Becomes(ProcessHead(d, l))
    BY <1>7, <1>8
  <2>4. QED
    BY <1>1, <1>7, <2>2, <2>3, Becoming
<1>9. CASE Len(d.queue[l]) # 1
  <2>1. Good(d, dir_copies) /\ Becomes(d)
    BY <1>6, <1>7, <1>9 DEF Good
  <2>2. QED
    BY <1>1, <1>7, <2>1, Becoming
<1>10. QED
  BY <1>8, <1>9

\* Adding a sharer keeps an entry's line and type.
LEMMA AddSharerFacts ==
  ASSUME NEW e \in Entries, NEW c \in DirCores, NEW e1 \in AddSharer(e, c)
  PROVE  e1 \in Entries /\ e1.line = e.line
<1>1. e \in [line : DirLines \cup {NoLine}, sharers : SUBSET DirCores, trap : BOOLEAN]
  BY DEF Entries
<1>2. CASE dir_type = "limitless"
  <2>1. e1 = [e EXCEPT !.sharers = @ \cup {c}, !.trap = @ \/ BitsetSize = MaxHwSharers]
    BY <1>2 DEF AddSharer
  <2>2. (e.trap \/ BitsetSize = MaxHwSharers) \in BOOLEAN
    OBVIOUS
  <2>3. PICK t \in BOOLEAN : t = (e.trap \/ BitsetSize = MaxHwSharers)
    BY <2>2
  <2>4. e1 = [e EXCEPT !.sharers = @ \cup {c}, !.trap = t]
    BY <2>1, <2>3
  <2>5. QED
    BY <1>1, <2>4 DEF Entries
<1>3. CASE dir_type # "limitless" /\ Cardinality(e.sharers) < Limit
  <2>1. e1 = [e EXCEPT !.sharers = @ \cup {c}]
    BY <1>3 DEF AddSharer
  <2>2. QED
    BY <1>1, <2>1 DEF Entries
<1>4. CASE dir_type # "limitless" /\ ~(Cardinality(e.sharers) < Limit)
  <2>1. PICK o \in e.sharers : e1 = [e EXCEPT !.sharers = (@ \ {o}) \cup {c}]
    BY <1>4 DEF AddSharer
  <2>2. QED
    BY <1>1, <2>1 DEF Entries
<1>5. QED
  BY <1>2, <1>3, <1>4

\* Answer: the requester's copy is entered and the next request handled.
LEMMA AnswerStep ==
  ASSUME DirInv, NEW l \in DirLines, NEW exclusive \in BOOLEAN, Answer(l, exclusive)
  PROVE  DirInv'
<1>1. Sound(Dir, dir_copies) /\ dir_type \in EntryTypes /\ dir_copies \in Copies
  BY Running DEF Answer
<1>2. /\ Dir.queue[l] # <<>> /\ Dir.queue[l][1] = Head(dir_queue[l])
      /\ Dir.queue[l][1] # Nullify /\ Dir.queue[l][1] \in DirCores
  <2>1. PICK s \in Seq(DirCores \cup {Nullify}) : s = Dir.queue[l]
    BY <1>1 DEF Sound, States
  <2>2. s = dir_queue[l] /\ s # <<>> /\ Head(s) # Nullify
    BY <2>1 DEF Answer, Dir
  <2>3. Head(s) = s[1] /\ Head(s) \in DirCores \cup {Nullify}
    BY <2>2, HeadTailProperties
  <2>4. QED
    BY <2>1, <2>2, <2>3
<1>3. HasEntry(Dir, l)
  BY <1>1, <1>2 DEF Sound, Served
<1>4. PICK e : e = EntryOf(Dir, l)
  OBVIOUS
<1>5. e \in Entries /\ e.line = l /\ e.sharers = dir_copies[l]
  BY <1>1, <1>3, <1>4, EntryFound
<1>6. PICK c \in DirCores : c = Head(dir_queue[l])
  BY <1>2
<1>7. PICK e1 \in IF exclusive THEN {[e EXCEPT !.sharers = {c}]}
                  ELSE IF c \in e.sharers THEN {e} ELSE AddSharer(e, c) :
        /\ Becomes(ProcessNext(SetEntry(Dir, l, e1), l))
        /\ dir_copies' = [dir_copies EXCEPT ![l] = e1.sharers]
  BY <1>4, <1>6 DEF Answer
<1>8. e1 \in Entries /\ e1.line = l
  <2>1. CASE exclusive
    BY <1>5, <1>7, <2>1 DEF Entries
  <2>2. CASE ~exclusive /\ c \in e.sharers
    BY <1>5, <1>7, <2>2
  <2>3. CASE ~exclusive /\ c \notin e.sharers
    <3>1. e1 \in AddSharer(e, c)
      BY <1>7, <2>3
    <3>2. QED
      BY <1>5, <3>1, AddSharerFacts
  <2>4. QED
    BY <2>1, <2>2, <2>3
<1>9. dir_copies' \in Copies
  BY <1>1, <1>7, <1>8 DEF Copies, Entries
<1>10. PICK d : d = SetEntry(Dir, l, e1)
  OBVIOUS
<1>11. Sound(d, dir_copies') /\ d.queue = Dir.queue
  <2>1. dir_copies' = With(dir_copies, l, e1.sharers)
    BY <1>7 DEF With
  <2>2. QED
    BY <1>1, <1>3, <1>8, <1>10, <2>1, Writing
<1>12. PICK r : r = Dequeue(d, l)
  OBVIOUS
<1>13. Settled(r, dir_copies', l)
  BY <1>2, <1>9, <1>11, <1>12, Answering
<1>14. Good(IF r.queue[l] = <<>> THEN r ELSE ProcessHead(r, l), dir_copies')
  BY <1>9, <1>13, Processing
<1>15. ProcessNext(d, l) = IF r.queue[l] = <<>> THEN r ELSE ProcessHead(r, l)
  BY <1>12 DEF ProcessNext
<1>16. Becomes(ProcessNext(d, l)) /\ Good(ProcessNext(d, l), dir_copies')
  BY <1>7, <1>10, <1>14, <1>15
<1>17. QED
  BY <1>1, <1>9, <1>16, Becoming

\* CopyGone: with the last copy of a nullified line its entry goes too.
LEMMA CopyGoneStep ==
  ASSUME DirInv, NEW c \in DirCores, NEW l \in DirLines, CopyGone(c, l)
  PROVE  DirInv'
<1>1. Sound(Dir, dir_copies) /\ dir_type \in EntryTypes /\ dir_copies \in Copies
  BY Running DEF CopyGone
<1>2. HasEntry(Dir, l)
  BY <1>1 DEF CopyGone, Sound, Known
<1>3. GetDirectoryEntry(Dir, l) = Dir
  BY <1>1, <1>2, Looking
<1>4. PICK e : e = EntryOf(Dir, l)
  OBVIOUS
<1>5. e \in Entries /\ e.line = l /\ e.sharers = dir_copies[l] /\ c \in e.sharers
  <2>1. e \in Entries /\ e.line = l /\ e.sharers = dir_copies[l]
    BY <1>1, <1>2, <1>4, EntryFound
  <2>2. QED
    BY <2>1 DEF CopyGone
<1>6. PICK e1 : e1 = [e EXCEPT !.sharers = @ \ {c}]
  OBVIOUS
<1>7. e1 \in Entries /\ e1.line = l /\ e1.sharers = dir_copies[l] \ {c}
  BY <1>5, <1>6 DEF Entries
<1>8. dir_copies' = [dir_copies EXCEPT ![l] = e1.sharers] /\ dir_copies' \in Copies
  <2>1. dir_copies' = [dir_copies EXCEPT ![l] = @ \ {c}]
    BY DEF CopyGone
  <2>2. dir_copies' = [dir_copies EXCEPT ![l] = e1.sharers]
    BY <1>7, <2>1
  <2>3. QED
    BY <1>1, <1>7, <2>2 DEF Copies, Entries
<1>9. PICK d : d = SetEntry(Dir, l, e1)
  OBVIOUS
<1>10. /\ Sound(d, dir_copies') /\ d.queue = Dir.queue
       /\ ReplacedOf(d, l) = {} <=> ReplacedOf(Dir, l) = {}
  <2>1. dir_copies' = With(dir_copies, l, e1.sharers)
    BY <1>8 DEF With
  <2>2. /\ Sound(SetEntry(Dir, l, e1), With(dir_copies, l, e1.sharers))
        /\ SetEntry(Dir, l, e1).queue = Dir.queue
        /\ ReplacedOf(SetEntry(Dir, l, e1), l) = {} <=> ReplacedOf(Dir, l) = {}
    <3>1. e1 \in Entries /\ e1.line = l
      BY <1>7
    <3>2. QED
      BY <1>1, <1>2, <3>1, Writing
  <2>3. QED
    BY <1>9, <2>1, <2>2
<1>11. Becomes(IF Dir.queue[l] # <<>> /\ e.sharers = {c}
               THEN ProcessNext(InvalidateDirectoryEntry(d, l), l) ELSE d)
  BY <1>2, <1>3, <1>4, <1>5, <1>6, <1>9 DEF CopyGone
<1>12. CASE Dir.queue[l] # <<>> /\ e.sharers = {c}
  <2>1. Dir.queue[l][1] = Nullify
    <3>1. PICK s \in Seq(DirCores \cup {Nullify}) : s = Dir.queue[l]
      BY <1>1 DEF Sound, States
    <3>2. s = dir_queue[l] /\ s # <<>>
      BY <1>12, <3>1 DEF Dir
    <3>3. Head(s) = s[1] /\ Head(s) = Nullify
      BY <3>2, SequenceFacts DEF CopyGone
    <3>4. QED
      BY <3>1, <3>3
  <2>2. ReplacedOf(Dir, l) # {}
    BY <1>1, <1>12, <2>1 DEF Sound, Named
  <2>3. dir_copies'[l] = {}
    BY <1>1, <1>5, <1>7, <1>8, <1>12 DEF Copies
  <2>4. PICK r : r = Dequeue(InvalidateDirectoryEntry(d, l), l)
    OBVIOUS
  <2>5. Settled(r, dir_copies', l)
    BY <1>8, <1>10, <2>2, <2>3, <2>4, Releasing
  <2>6. Good(IF r.queue[l] = <<>> THEN r ELSE ProcessHead(r, l), dir_copies')
    BY <1>8, <2>5, Processing
  <2>7. ProcessNext(InvalidateDirectoryEntry(d, l), l)
          = IF r.queue[l] = <<>> THEN r ELSE ProcessHead(r, l)
    BY <2>4 DEF ProcessNext
  <2>8. PICK w : w = ProcessNext(InvalidateDirectoryEntry(d, l), l)
    OBVIOUS
  <2>9. Becomes(w) /\ Good(w, dir_copies')
    BY <1>11, <1>12, <2>6, <2>7, <2>8
  <2>10. QED
    BY <1>1, <1>8, <2>9, Becoming
<1>13. CASE ~(Dir.queue[l] # <<>> /\ e.sharers = {c})
  <2>1. Becomes(d) /\ Good(d, dir_copies')
    BY <1>10, <1>11, <1>13 DEF Good
  <2>2. QED
    BY <1>1, <1>8, <2>1, Becoming
<1>14. QED
  BY <1>12, <1>13

-----------------------------------------------------------------------------
\* At the beginning all ways are free.
LEMMA DirInitInv == ASSUME DirInit PROVE DirInv
<1>1. /\ Dir.slots = [i \in 1..DirWays |-> FreshEntry] /\ Dir.replaced = <<>>
      /\ Dir.queue = [l \in DirLines |-> <<>>] /\ Dir.error = "none"
  BY DEF Dir, DirInit
<1>2. FreshEntry \in Entries /\ FreshEntry.line = NoLine /\ FreshEntry.sharers = {}
  BY DEF FreshEntry, Entries
<1>3. \A i \in 1..DirWays : Dir.slots[i].line = NoLine /\ Dir.slots[i].sharers = {}
  BY <1>1, <1>2
<1>4. DOMAIN Dir.replaced = {} /\ \A l \in DirLines : DOMAIN Dir.queue[l] = {}
  BY <1>1
<1>5. Dir \in States
  <2>1. /\ [i \in 1..DirWays |-> FreshEntry] \in [1..DirWays -> Entries]
        /\ <<>> \in Seq(Entries)
        /\ [l \in DirLines |-> <<>>] \in [DirLines -> Seq(DirCores \cup {Nullify})]
        /\ "none" \in Errors
    BY <1>2 DEF Errors
  <2>2. QED
    BY <2>1 DEF Dir, DirInit, States
<1>6. dir_copies \in Copies /\ \A l \in DirLines : dir_copies[l] = {}
  BY DEF DirInit, Copies
<1>7. Apart(Dir) /\ Held(Dir, dir_copies)
  BY <1>3, <1>4 DEF Apart, Held
<1>8. Room(Dir) /\ Turns(Dir.queue) /\ Known(Dir, dir_copies)
  BY <1>1, <1>3, <1>4, <1>6 DEF Room, Turns, Known
<1>9. \A l \in DirLines : ReplacedOf(Dir, l) = {} /\ Dir.queue[l] = <<>>
  BY <1>1, <1>4, <1>5, Finding
<1>10. Named(Dir) /\ \A l \in DirLines : Served(Dir, l)
  BY <1>9 DEF Named, Served
<1>11. QED
  BY <1>1, <1>5, <1>6, <1>7, <1>8, <1>10 DEF DirInv, Good, Sound, DirInit

\* Every message keeps the invariant.
LEMMA DirStep == ASSUME DirInv, [DirNext]_dirVars PROVE DirInv'
<1>1. ASSUME NEW c \in DirCores, NEW l \in DirLines, Request(c, l) PROVE DirInv'
  BY <1>1, RequestStep
<1>2. ASSUME NEW c \in DirCores, NEW l \in DirLines, CopyGone(c, l) PROVE DirInv'
  BY <1>2, CopyGoneStep
<1>3. ASSUME NEW l \in DirLines, NEW exclusive \in BOOLEAN, Answer(l, exclusive) PROVE DirInv'
  BY <1>3, AnswerStep
<1>4. CASE UNCHANGED dirVars
  <2>1. Dir' = Dir /\ dir_copies' = dir_copies /\ dir_type' = dir_type
    BY <1>4 DEF Dir, dirVars
  <2>2. QED
    BY <2>1 DEF DirInv
<1>5. ASSUME NEW l \in DirLines, Answer(l, TRUE) PROVE DirInv'
  <2>1. PICK exclusive \in BOOLEAN : exclusive = TRUE
    OBVIOUS
  <2>2. Answer(l, exclusive)
    BY <1>5, <2>1
  <2>3. QED
    BY <1>3, <2>2
<1>6. ASSUME NEW l \in DirLines, Answer(l, FALSE) PROVE DirInv'
  <2>1. PICK exclusive \in BOOLEAN : exclusive = FALSE
    OBVIOUS
  <2>2. Answer(l, exclusive)
    BY <1>6, <2>1
  <2>3. QED
    BY <1>3, <2>2
<1>7. QED
  BY <1>1, <1>2, <1>4, <1>5, <1>6 DEF DirNext

\* The invariant of a set of directory entries: no line has two entries, the
\* sharers of an entry have the copies, an entry is replaced while its nullify
\* request leads its queue, and a line with requests has an entry; it can only
\* stop in an allocation, when more cores have requests than there are ways.
THEOREM DirectoryInvariant == DirSpec => []DirInv
<1>1. DirInit => DirInv
  BY DirInitInv
<1>2. DirInv /\ [DirNext]_dirVars => DirInv'
  BY DirStep
<1>3. QED
  BY <1>1, <1>2, PTL DEF DirSpec

\* Whatever lines compete for the ways of a set, getDirectoryEntry,
\* processDirectoryEntryAllocationReq and processNullifyReq never give a line two
\* entries, forget a copy or leak a replaced entry, and with no more cores than
\* ways an allocation always finds an entry to replace.
THEOREM EntriesAreCorrect == DirSpec => []EntriesCorrect
<1>1. ASSUME DirInv PROVE EntriesCorrect
  <2>1. Dir \in States /\ Apart(Dir) /\ Known(Dir, dir_copies)
    BY <1>1 DEF DirInv, Good, Sound
  <2>2. /\ Dir.slots = dir_slots /\ Dir.replaced = dir_replaced
        /\ Dir.queue = dir_queue /\ Dir.error = dir_error
    BY DEF Dir
  <2>3. dir_error = "none" => Sound(Dir, dir_copies)
    BY <1>1, Running
  <2>4. DirTypeOK
    <3>1. dir_slots \in [1..DirWays -> Entries] /\ dir_queue \in Queues
      BY <2>1, <2>2 DEF States, Queues
    <3>2. ASSUME NEW l \in DirLines, NEW i \in 1..Len(dir_queue[l])
          PROVE  dir_queue[l][i] \in DirCores \cup {Nullify}
      <4>1. dir_queue[l] \in Seq(DirCores \cup {Nullify})
        BY <3>1 DEF Queues
      <4>2. QED
        BY <4>1, ElementOfSeq
    <3>3. \A i \in 1..Len(dir_replaced) : dir_replaced[i].line \in DirLines
      <4>1. DOMAIN dir_replaced = 1..Len(dir_replaced)
        BY <2>1, <2>2, LenProperties DEF States
      <4>2. QED
        BY <2>1, <2>2, <4>1 DEF Apart
    <3>4. QED
      BY <1>1, <3>1, <3>2, <3>3 DEF DirTypeOK, DirInv, Entries
  <2>5. OneEntryPerLine
    <3>1. ASSUME NEW l \in DirLines
          PROVE  Cardinality(SlotsOf(Dir, l)) + Cardinality(ReplacedOf(Dir, l)) <= 1
      <4>1. \/ SlotsOf(Dir, l) = {} \/ \E i : SlotsOf(Dir, l) = {i}
        BY <2>1, SlotFound
      <4>2. \/ ReplacedOf(Dir, l) = {} \/ \E i : ReplacedOf(Dir, l) = {i}
        BY <2>1, ReplacedFound
      <4>3. SlotsOf(Dir, l) = {} \/ ReplacedOf(Dir, l) = {}
        BY <2>1, Finding DEF Apart
      <4>4. Cardinality({}) = 0 /\ \A i : Cardinality({i}) = 1
        BY FS_EmptySet, FS_Singleton
      <4>5. /\ Cardinality(SlotsOf(Dir, l)) \in {0, 1}
            /\ Cardinality(ReplacedOf(Dir, l)) \in {0, 1}
        BY <4>1, <4>2, <4>4
      <4>6. Cardinality(SlotsOf(Dir, l)) = 0 \/ Cardinality(ReplacedOf(Dir, l)) = 0
        BY <4>3, <4>4
      <4>7. QED
        BY <4>5, <4>6
    <3>2. QED
      BY <3>1 DEF OneEntryPerLine
  <2>6. CopiesKnown
    <3>1. ASSUME NEW l \in DirLines, HasEntry(Dir, l), dir_error = "none"
          PROVE  EntryOf(Dir, l).sharers = dir_copies[l]
      <4>1. Sound(Dir, dir_copies) /\ dir_copies \in Copies
        BY <1>1, <2>3, <3>1 DEF DirInv
      <4>2. QED
        BY <3>1, <4>1, EntryFound
    <3>2. QED
      BY <2>1, <3>1 DEF CopiesKnown, Known
  <2>7. ReplacedUntilNullified
    <3>1. ASSUME dir_error = "none", NEW l \in DirLines
          PROVE  ReplacedOf(Dir, l) # {} <=> dir_queue[l] # <<>> /\ Head(dir_queue[l]) = Nullify
      <4>1. ReplacedOf(Dir, l) # {} <=> dir_queue[l] # <<>> /\ dir_queue[l][1] = Nullify
        BY <2>2, <2>3, <3>1 DEF Sound, Named
      <4>2. PICK s \in Seq(DirCores \cup {Nullify}) : s = dir_queue[l]
        BY <2>1, <2>2 DEF States
      <4>3. s # <<>> => Head(s) = s[1]
        BY SequenceFacts
      <4>4. QED
        BY <4>1, <4>2, <4>3
    <3>2. QED
      BY <3>1 DEF ReplacedUntilNullified
  <2>8. AllocationSucceeds
    BY <1>1, <2>2 DEF DirInv, Good, Sound, AllocationSucceeds
  <2>9. QED
    BY <2>4, <2>5, <2>6, <2>7, <2>8 DEF EntriesCorrect
<1>2. QED
  BY <1>1, DirectoryInvariant, PTL

-----------------------------------------------------------------------------
(***************************************************************************)
(* The replacement policies, for any associativity of at least two (a      *)
(* direct-mapped NMRU set has no way that is not the most recently used).  *)
(***************************************************************************)

(* The ways getReplacementIndex may end. *)
SetErrors == {"none", "no victim", "assertion", "recursion"}

(* The replacement states of the policy of the set. *)
Repls == [bits : [Ways -> 0..(IF set_policy = "srrip" THEN RripMax ELSE Assoc - 1)],
          ptr : Ways, set : Ways]

(* The order of use names every way once. *)
EachOnce(q) ==
    /\ q \in [1..Assoc -> Ways]
    /\ \A i, j \in 1..Assoc : q[i] = q[j] => i = j
    /\ \A w \in Ways : \E i \in 1..Assoc : q[i] = w

(* The ways NRU has marked used. *)
Ones(r) == {w \in Ways : r.bits[w] = 1}

(* What the replacement state r has to do with the order of use q: the bits of  *)
(* a stack policy are the places in it, and NRU has marked no more ways than it *)
(* has counted since the bits were last cleared.                                *)
Kept(r, q) ==
    /\ r \in Repls /\ EachOnce(q)
    /\ set_policy \in StackPolicies => \A i \in 1..Assoc : r.bits[q[i]] = i - 1
    /\ set_policy \in {"nru", "plru"} => \A w \in Ways : r.bits[w] \in {0, 1}
    /\ set_policy = "nru" => Cardinality(Ones(r)) <= r.set
    /\ set_policy = "plru" => Assoc \in {4, 8}

(* Every node of the PLRU tree on the path to the way used last points away from *)
(* it: touching that way again changes nothing.                                  *)
Pointing(r, q) == set_policy = "plru" => PLRUUpdate(r, q[1]) = r

(* The records of what the last operation did. *)
Lasts == [way : Ways \cup {-1}, evicted : {"free", "held", "upgrading"}, last : Ways,
          error : SetErrors, upgrading : SUBSET Ways]

(* The state between two operations; the tree points once a way has been filled, *)
(* until all are invalidated.                                                    *)
Steady ==
    /\ set_policy \in Policies
    /\ set_ways \in [Ways -> {"free", "held", "upgrading"}]
    /\ Kept(set_repl, set_recency)
    /\ (\E w \in Ways : set_ways[w] # "free") => Pointing(set_repl, set_recency)

(* The inductive invariant. *)
SetInv ==
    /\ Steady /\ set_last \in Lasts
    /\ VictimFound /\ UpgradeNotEvicted /\ LastUsedKept

-----------------------------------------------------------------------------
(* And one of bounded naturals a greatest. *)
LEMMA GreatestOf ==
  ASSUME NEW S, S # {}, NEW n \in Nat, S \subseteq 0..n
  PROVE  \E i \in S : \A j \in S : j <= i
<1> DEFINE T == {n - i : i \in S}
<1>1. T \in SUBSET Nat /\ T # {}
  <2>1. \A i \in S : n - i \in Nat
    OBVIOUS
  <2>2. QED
    BY <2>1
<1>2. PICK k \in T : \A j \in T : k <= j
  BY <1>1, LeastOf
<1>3. PICK i \in S : k = n - i
  OBVIOUS
<1>4. ASSUME NEW j \in S PROVE j <= i
  <2>1. n - j \in T
    OBVIOUS
  <2>2. n - i <= n - j
    BY <1>2, <1>3, <2>1
  <2>3. QED
    BY <2>2
<1>5. QED
  BY <1>4

(* The ways are finitely many. *)
LEMMA WaysFinite ==
  /\ IsFiniteSet(Ways) /\ Cardinality(Ways) = Assoc
  /\ \A S \in SUBSET Ways : IsFiniteSet(S) /\ Cardinality(S) \in Nat /\ Cardinality(S) <= Assoc
<1>1. IsFiniteSet(Ways) /\ Cardinality(Ways) = Assoc
  BY SetAssumption, FS_Interval DEF Ways
<1>2. QED
  BY <1>1, FS_Subset, FS_CardinalityType

(* The place of a way in the order of use. *)
LEMMA PlaceOf ==
  ASSUME NEW q, EachOnce(q), NEW w \in Ways
  PROVE  \E p \in 1..Assoc :
           /\ q[p] = w
           /\ ToFront(q, w) = [i \in 1..Assoc |-> IF i = 1 THEN w ELSE IF i <= p THEN q[i - 1] ELSE q[i]]
<1>1. \E i \in 1..Assoc : q[i] = w
  BY DEF EachOnce
<1>2. QED
  BY <1>1 DEF ToFront

(* Moving a way to the front keeps every way once. *)
LEMMA FrontOnce ==
  ASSUME NEW q, EachOnce(q), NEW w \in Ways
  PROVE  EachOnce(ToFront(q, w)) /\ ToFront(q, w)[1] = w
<1>1. PICK p \in 1..Assoc :
        /\ q[p] = w
        /\ ToFront(q, w) = [i \in 1..Assoc |-> IF i = 1 THEN w ELSE IF i <= p THEN q[i - 1] ELSE q[i]]
  BY PlaceOf
<1> DEFINE f == ToFront(q, w)
<1>a. Assoc \in Nat \ {0}
  BY SetAssumption
<1>2. f \in [1..Assoc -> Ways]
  BY <1>1, <1>a DEF EachOnce
<1>3. ASSUME NEW i \in 1..Assoc, NEW j \in 1..Assoc, f[i] = f[j] PROVE i = j
  <2> DEFINE g(k) == IF k = 1 THEN p ELSE IF k <= p THEN k - 1 ELSE k
  <2>1. \A k \in 1..Assoc : g(k) \in 1..Assoc /\ f[k] = q[g(k)]
    BY <1>1, <1>a
  <2>2. g(i) = g(j)
    BY <1>3, <2>1 DEF EachOnce
  <2>3. QED
    BY <2>2
<1>4. ASSUME NEW v \in Ways PROVE \E i \in 1..Assoc : f[i] = v
  <2>1. PICK k \in 1..Assoc : q[k] = v
    BY DEF EachOnce
  <2>2. CASE k < p
    <3>1. k + 1 \in 1..Assoc /\ k + 1 # 1 /\ k + 1 <= p /\ (k + 1) - 1 = k
      BY <1>a, <2>2
    <3>2. f[k + 1] = v
      BY <1>1, <2>1, <3>1
    <3>3. QED
      BY <3>1, <3>2
  <2>3. CASE k = p
    <3>1. 1 \in 1..Assoc /\ f[1] = v
      BY <1>1, <1>a, <2>1, <2>3
    <3>2. QED
      BY <3>1
  <2>4. CASE k > p
    <3>1. f[k] = v
      BY <1>1, <2>1, <2>4
    <3>2. QED
      BY <3>1
  <2>5. QED
    BY <2>2, <2>3, <2>4
<1>5. f[1] = w
  BY <1>1, <1>a
<1>6. QED
  BY <1>2, <1>3, <1>4, <1>5 DEF EachOnce

(* moveToMRU renumbers the bits as the order of use is renumbered. *)
LEMMA StackUpdate ==
  ASSUME NEW r, NEW q, NEW w \in Ways, Kept(r, q), set_policy \in StackPolicies
  PROVE  Kept(MoveToMRU(r, w), ToFront(q, w))
<1>1. PICK p \in 1..Assoc :
        /\ q[p] = w
        /\ ToFront(q, w) = [i \in 1..Assoc |-> IF i = 1 THEN w ELSE IF i <= p THEN q[i - 1] ELSE q[i]]
  BY PlaceOf DEF Kept
<1>a. Assoc \in Nat \ {0} /\ set_policy \notin {"srrip", "nru", "plru"}
  BY SetAssumption DEF StackPolicies
<1>2. EachOnce(ToFront(q, w)) /\ EachOnce(q)
  BY FrontOnce DEF Kept
<1>3. r \in [bits : [Ways -> 0..(Assoc - 1)], ptr : Ways, set : Ways]
  BY <1>a DEF Kept, Repls
<1> DEFINE b == [i \in Ways |-> IF i = w THEN 0
                                ELSE IF r.bits[i] < r.bits[w] THEN r.bits[i] + 1
                                ELSE r.bits[i]]
<1>4. MoveToMRU(r, w) = [r EXCEPT !.bits = b]
  BY DEF MoveToMRU
<1>5. \A i \in 1..Assoc : r.bits[q[i]] = i - 1
  BY DEF Kept
<1>6. r.bits[w] = p - 1
  BY <1>1, <1>5
<1>7. b \in [Ways -> 0..(Assoc - 1)]
  <2>1. SUFFICES ASSUME NEW i \in Ways PROVE b[i] \in 0..(Assoc - 1)
    OBVIOUS
  <2>2. r.bits[i] \in 0..(Assoc - 1) /\ p - 1 \in 0..(Assoc - 1)
    BY <1>3, <1>a
  <2>3. QED
    BY <1>6, <1>a, <2>2
<1>8. ASSUME NEW i \in 1..Assoc PROVE b[ToFront(q, w)[i]] = i - 1
  <2>1. CASE i = 1
    BY <1>1, <1>a, <2>1
  <2>2. CASE i # 1 /\ i <= p
    <3>0. i - 1 \in 1..Assoc
      BY <1>a, <2>2
    <3>1. ToFront(q, w)[i] = q[i - 1] /\ q[i - 1] \in Ways
      BY <1>1, <1>2, <2>2, <3>0 DEF EachOnce
    <3>2. q[i - 1] # w
      BY <1>1, <1>2, <2>2, <3>0 DEF EachOnce
    <3>3. r.bits[q[i - 1]] = (i - 1) - 1
      BY <1>5, <3>0
    <3>4. b[q[i - 1]] = r.bits[q[i - 1]] + 1
      BY <1>6, <2>2, <3>1, <3>2, <3>3
    <3>5. QED
      BY <3>1, <3>3, <3>4
  <2>3. CASE i > p
    <3>1. ToFront(q, w)[i] = q[i] /\ q[i] \in Ways
      BY <1>1, <1>2, <2>3 DEF EachOnce
    <3>2. q[i] # w
      BY <1>1, <1>2, <2>3, <3>1 DEF EachOnce
    <3>3. b[q[i]] = r.bits[q[i]]
      BY <1>5, <1>6, <2>3, <3>1, <3>2
    <3>4. QED
      BY <1>5, <3>1, <3>3
  <2>4. QED
    BY <2>1, <2>2, <2>3
<1> HIDE DEF b
<1>9. MoveToMRU(r, w).bits = b /\ MoveToMRU(r, w) \in Repls
  BY <1>3, <1>4, <1>7, <1>a DEF Repls
<1>10. QED
  BY <1>2, <1>8, <1>9, <1>a DEF Kept

(* NRU marks the way; the count of updates bounds the marks. *)
LEMMA NruUpdate ==
  ASSUME NEW r, NEW q, NEW w \in Ways, Kept(r, q), set_policy = "nru"
  PROVE  Kept(NRUUpdate(r, w), q)
<1>a. Assoc \in Nat \ {0} /\ set_policy \notin StackPolicies
  BY SetAssumption DEF StackPolicies
<1>1. r \in [bits : [Ways -> 0..(Assoc - 1)], ptr : Ways, set : Ways]
  BY DEF Kept, Repls
<1>2. \A v \in Ways : r.bits[v] \in {0, 1}
  BY DEF Kept
<1>3. Cardinality(Ones(r)) <= r.set /\ EachOnce(q)
  BY DEF Kept
<1>4. r.set \in 0..(Assoc - 1)
  BY <1>1 DEF Ways
<1>r. Repls = [bits : [Ways -> 0..(Assoc - 1)], ptr : Ways, set : Ways]
  BY DEF Repls
<1>5. CASE r.set + 1 = Assoc
  <2> DEFINE n == [r EXCEPT !.bits = [i \in Ways |-> 0], !.set = 0]
  <2>1. NRUUpdate(r, w) = n
    BY <1>5 DEF NRUUpdate
  <2>2. n \in Repls /\ n.bits = [i \in Ways |-> 0] /\ n.set = 0
    <3>1. 0 \in Ways /\ 0 \in 0..(Assoc - 1)
      BY <1>a DEF Ways
    <3>2. QED
      BY <1>1, <1>r, <3>1
  <2>3. Ones(n) = {}
    BY <2>2 DEF Ones
  <2> HIDE DEF n
  <2>4. Cardinality(Ones(n)) <= n.set
    BY <2>2, <2>3, FS_EmptySet
  <2>5. QED
    BY <1>3, <1>a, <2>1, <2>2, <2>4 DEF Kept
<1>6. CASE r.set + 1 # Assoc
  <2> DEFINE n == [r EXCEPT !.bits[w] = 1, !.set = r.set + 1]
  <2>1. NRUUpdate(r, w) = n
    BY <1>6 DEF NRUUpdate
  <2>2. Assoc >= 2
    BY <1>4, <1>6, <1>a
  <2>3. n.bits = [r.bits EXCEPT ![w] = 1] /\ n.set = r.set + 1 /\ n.ptr = r.ptr
    BY <1>1
  <2>4. n \in Repls
    <3>1. 1 \in 0..(Assoc - 1) /\ r.set + 1 \in Ways
      BY <1>4, <1>6, <1>a, <2>2 DEF Ways
    <3>2. QED
      BY <1>1, <1>r, <3>1
  <2>5. \A v \in Ways : n.bits[v] \in {0, 1}
    BY <1>1, <1>2, <2>3
  <2>6. Ones(n) = Ones(r) \cup {w}
    BY <1>1, <2>3 DEF Ones
  <2> HIDE DEF n
  <2>7. IsFiniteSet(Ones(r)) /\ Cardinality(Ones(r)) \in Nat
    BY WaysFinite DEF Ones
  <2>8. Cardinality(Ones(n)) <= Cardinality(Ones(r)) + 1
    BY <2>6, <2>7, FS_AddElement
  <2>9. Cardinality(Ones(n)) <= n.set
    <3>1. Cardinality(Ones(n)) \in Nat
      BY WaysFinite DEF Ones
    <3>2. QED
      BY <1>3, <1>4, <2>3, <2>7, <2>8, <3>1
  <2>10. QED
    BY <1>3, <1>a, <2>1, <2>4, <2>5, <2>9 DEF Kept
<1>7. QED
  BY <1>5, <1>6

(* The nodes of the tree that lead to a way point away from it. *)
LEMMA TreeUpdate ==
  ASSUME NEW r, NEW q, NEW w \in Ways, Kept(r, q), set_policy = "plru"
  PROVE  Kept(PLRUUpdate(r, w), q) /\ PLRUUpdate(PLRUUpdate(r, w), w) = PLRUUpdate(r, w)
<1>a. Assoc \in {4, 8} /\ set_policy \notin StackPolicies
  BY DEF StackPolicies, Kept
<1>1. r \in [bits : [Ways -> 0..(Assoc - 1)], ptr : Ways, set : Ways]
  BY DEF Kept, Repls
<1>2. \A v \in Ways : r.bits[v] \in {0, 1}
  BY DEF Kept
<1>3. EachOnce(q)
  BY DEF Kept
<1>4. CASE Assoc = 4
  <2> DEFINE i == 1 + (w \div 2)
             x == IF w < 2 THEN 1 ELSE 0
             y == 1 - (w % 2)
  <2>1. w \in 0..3 /\ Ways = 0..3
    BY <1>4 DEF Ways
  <2>2. i \in 1..2 /\ x \in {0, 1} /\ y \in {0, 1}
    BY <2>1
  <2>3. \A u : PLRUUpdate(u, w) = [u EXCEPT !.bits[0] = x, !.bits[i] = y]
    BY <1>4 DEF PLRUUpdate
  <2> HIDE DEF i, x, y
  <2> DEFINE n == [r EXCEPT !.bits[0] = x, !.bits[i] = y]
  <2>4. n \in Repls /\ \A v \in Ways : n.bits[v] \in {0, 1}
    <3>1. Repls = [bits : [0..3 -> 0..3], ptr : 0..3, set : 0..3]
      BY <1>4, <2>1 DEF Repls
    <3>2. r \in [bits : [0..3 -> 0..3], ptr : 0..3, set : 0..3]
      BY <1>1, <1>4, <2>1
    <3>3. n.bits = [r.bits EXCEPT ![0] = x, ![i] = y]
      BY <3>2
    <3>4. \A v \in 0..3 : n.bits[v] \in {0, 1}
      BY <1>2, <2>1, <2>2, <3>2, <3>3
    <3>5. n.bits \in [0..3 -> 0..3]
      BY <2>2, <3>2, <3>3
    <3> HIDE DEF n
    <3>6. n = [r EXCEPT !.bits = n.bits]
      BY <3>2, <3>3 DEF n
    <3>7. QED
      BY <2>1, <3>1, <3>2, <3>4, <3>5, <3>6
  <2>5. [n EXCEPT !.bits[0] = x, !.bits[i] = y] = n
    BY <1>1, <2>1, <2>2
  <2> HIDE DEF n
  <2>6. PLRUUpdate(r, w) = n
    BY <2>3 DEF n
  <2>7. PLRUUpdate(n, w) = n
    BY <2>3, <2>5
  <2>8. QED
    BY <1>3, <1>a, <2>4, <2>6, <2>7 DEF Kept
<1>5. CASE Assoc = 8
  <2> DEFINE i == 1 + 3 * (w \div 4)
             j == 2 + 3 * (w \div 4) + ((w % 4) \div 2)
             x == IF w < 4 THEN 1 ELSE 0
             y == IF w % 4 < 2 THEN 1 ELSE 0
             z == 1 - (w % 2)
  <2>1. w \in 0..7 /\ Ways = 0..7
    BY <1>5 DEF Ways
  <2>2. i \in 1..7 /\ j \in 1..7 /\ i # j /\ x \in {0, 1} /\ y \in {0, 1} /\ z \in {0, 1}
    BY <2>1
  <2>3. \A u : PLRUUpdate(u, w) = [u EXCEPT !.bits[0] = x, !.bits[i] = y, !.bits[j] = z]
    BY <1>5 DEF PLRUUpdate
  <2> HIDE DEF i, j, x, y, z
  <2> DEFINE n == [r EXCEPT !.bits[0] = x, !.bits[i] = y, !.bits[j] = z]
  <2>4. n \in Repls /\ \A v \in Ways : n.bits[v] \in {0, 1}
    <3>1. Repls = [bits : [0..7 -> 0..7], ptr : 0..7, set : 0..7]
      BY <1>5, <2>1 DEF Repls
    <3>2. r \in [bits : [0..7 -> 0..7], ptr : 0..7, set : 0..7]
      BY <1>1, <1>5, <2>1
    <3>3. n.bits = [r.bits EXCEPT ![0] = x, ![i] = y, ![j] = z]
      BY <3>2
    <3>4. \A v \in 0..7 : n.bits[v] \in {0, 1}
      BY <1>2, <2>1, <2>2, <3>2, <3>3
    <3>5. n.bits \in [0..7 -> 0..7]
      BY <2>2, <3>2, <3>3
    <3> HIDE DEF n
    <3>6. n = [r EXCEPT !.bits = n.bits]
      BY <3>2, <3>3 DEF n
    <3>7. QED
      BY <2>1, <3>1, <3>2, <3>4, <3>5, <3>6
  <2>5. [n EXCEPT !.bits[0] = x, !.bits[i] = y, !.bits[j] = z] = n
    BY <1>1, <2>1, <2>2
  <2> HIDE DEF n
  <2>6. PLRUUpdate(r, w) = n
    BY <2>3 DEF n
  <2>7. PLRUUpdate(n, w) = n
    BY <2>3, <2>5
  <2>8. QED
    BY <1>3, <1>a, <2>4, <2>6, <2>7 DEF Kept
<1>6. QED
  BY <1>4, <1>5, <1>a

(* SRRIP decrements the counter of the way, down to zero. *)
LEMMA SrripUpdate ==
  ASSUME NEW r, NEW q, NEW w \in Ways, Kept(r, q), set_policy = "srrip"
  PROVE  Kept(SRRIPUpdate(r, w), q)
<1>a. RripMax \in Nat /\ set_policy \notin StackPolicies \cup {"nru", "plru"}
  BY SetAssumption DEF StackPolicies
<1>1. r \in [bits : [Ways -> 0..RripMax], ptr : Ways, set : Ways] /\ EachOnce(q)
  BY DEF Kept, Repls
<1> DEFINE x == IF r.bits[w] > 0 THEN r.bits[w] - 1 ELSE 0
<1>2. x \in 0..RripMax
  <2>1. r.bits[w] \in 0..RripMax
    BY <1>1
  <2>2. QED
    BY <1>a, <2>1
<1>3. SRRIPUpdate(r, w) = [r EXCEPT !.bits[w] = x]
  BY DEF SRRIPUpdate
<1> HIDE DEF x
<1>4. SRRIPUpdate(r, w) \in Repls
  BY <1>1, <1>2, <1>3, <1>a DEF Repls
<1>5. QED
  BY <1>1, <1>4, <1>a DEF Kept

(* A way that was touched. *)
LEMMA Updating ==
  ASSUME NEW r, NEW q, NEW w \in Ways, Kept(r, q), set_policy \in Policies
  PROVE  /\ Kept(UpdateReplacementIndex(r, w), Touched(q, w))
         /\ Pointing(UpdateReplacementIndex(r, w), Touched(q, w))
<1>1. CASE set_policy \in StackPolicies
  <2>1. UpdateReplacementIndex(r, w) = MoveToMRU(r, w) /\ Touched(q, w) = ToFront(q, w)
    <3>1. Touched(q, w) = ToFront(q, w)
      BY <1>1 DEF Touched, Tracked
    <3>2. UpdateReplacementIndex(r, w) = MoveToMRU(r, w)
      BY <1>1 DEF UpdateReplacementIndex, StackPolicies
    <3>3. QED
      BY <3>1, <3>2
  <2>2. set_policy # "plru"
    BY <1>1 DEF StackPolicies
  <2>3. QED
    BY <1>1, <2>1, <2>2, StackUpdate DEF Pointing
<1>2. CASE set_policy = "nru"
  <2>1. UpdateReplacementIndex(r, w) = NRUUpdate(r, w) /\ Touched(q, w) = q
    BY <1>2 DEF UpdateReplacementIndex, Touched, Tracked, StackPolicies
  <2>2. QED
    BY <1>2, <2>1, NruUpdate DEF Pointing
<1>3. CASE set_policy = "plru"
  <2>1. UpdateReplacementIndex(r, w) = PLRUUpdate(r, w) /\ Touched(q, w) = ToFront(q, w)
    BY <1>3 DEF UpdateReplacementIndex, Touched, Tracked, StackPolicies
  <2>2. EachOnce(ToFront(q, w)) /\ ToFront(q, w)[1] = w
    BY FrontOnce DEF Kept
  <2>3. Kept(PLRUUpdate(r, w), q) /\ PLRUUpdate(PLRUUpdate(r, w), w) = PLRUUpdate(r, w)
    BY <1>3, TreeUpdate
  <2>4. set_policy \notin StackPolicies
    BY <1>3 DEF StackPolicies
  <2>5. QED
    BY <2>1, <2>2, <2>3, <2>4 DEF Pointing, Kept
<1>4. CASE set_policy = "srrip"
  <2>1. UpdateReplacementIndex(r, w) = SRRIPUpdate(r, w) /\ Touched(q, w) = q
    BY <1>4 DEF UpdateReplacementIndex, Touched, Tracked, StackPolicies
  <2>2. QED
    BY <1>4, <2>1, SrripUpdate DEF Pointing
<1>5. CASE set_policy \in {"round_robin", "random"}
  <2>1. UpdateReplacementIndex(r, w) = r /\ Touched(q, w) = q
    BY <1>5 DEF UpdateReplacementIndex, Touched, Tracked, StackPolicies
  <2>2. QED
    BY <1>5, <2>1 DEF Pointing
<1>6. QED
  BY <1>1, <1>2, <1>3, <1>4, <1>5 DEF Policies, StackPolicies

-----------------------------------------------------------------------------
(* What a policy may answer when it is asked for a victim. *)
Answers == [way : Ways, repl : Repls, error : SetErrors]
(* What LRU and NMRU have to choose from: the ways not being upgraded, but the *)
(* one used last.                                                              *)
Others == Ways \ (Upgrading \cup {set_recency[1]})

(* A good answer: taking the way keeps the order of use, no error is possible  *)
(* without upgrades, and what is taken and which search fails with upgrades is *)
(* as UpgradeNotEvicted and LastUsedKept say.                                  *)
Choice(v) ==
    /\ v \in Answers
    /\ v.error = "none" => /\ Kept(v.repl, Touched(set_recency, v.way))
                          /\ Pointing(v.repl, Touched(set_recency, v.way))
    /\ Upgrading = {} => v.error = "none"
    /\ v.error = "none" /\ set_ways[v.way] = "upgrading" =>
         set_policy = "round_robin" \/ (set_policy = "lru" /\ Others = {})
    /\ v.error # "none" =>
         \/ set_policy \in {"nru", "plru", "srrip"}
         \/ set_policy = "nmru" /\ Others = {}
         \/ set_policy \in {"mru", "random", "round_robin"} /\ Upgrading = Ways
    /\ (set_policy \in {"lru", "nmru", "plru"} /\ v.error = "none" /\ set_ways[v.way] = "held"
          /\ v.way = set_recency[1]) => set_policy = "lru" /\ Others = {}

(* Remainders near the number of ways. *)
LEMMA Around ==
  /\ \A k \in Nat : k % Assoc \in Ways
  /\ \A k \in Ways : k % Assoc = k /\ (k + Assoc) % Assoc = k
<1>1. PICK n \in Nat \ {0} : n = Assoc
  BY SetAssumption
<1>2. \A k \in Nat : k % n \in 0..(n - 1)
  BY <1>1
<1>3. \A k \in 0..(n - 1) : k % n = k /\ (k + n) % n = k
  BY <1>1
<1>4. QED
  BY <1>1, <1>2, <1>3 DEF Ways

(* The scan of the ways finds one of C if there is one. *)
LEMMA Scanned ==
  ASSUME NEW C \in SUBSET Ways, NEW s \in Scan(C), set_repl.ptr \in Ways
  PROVE  \/ /\ s.error = "none" /\ s.way \in C
            /\ \E p \in Ways : s = Found(s.way, [set_repl EXCEPT !.ptr = p])
         \/ C = {} /\ s = Failed("no victim")
<1>a. Assoc \in Nat \ {0}
  BY SetAssumption
<1> DEFINE at(k) == (set_repl.ptr + k) % Assoc
           K == {k \in Ways : at(k) \in C}
           k1 == CHOOSE k \in K : \A j \in K : k <= j
<1>1. ASSUME C # {} PROVE K # {}
  <2>1. PICK w \in C : w \in Ways
    BY <1>1
  <2>2. PICK p \in Ways : p = set_repl.ptr
    OBVIOUS
  <2>3. CASE w >= p
    <3>1. w - p \in Ways /\ p + (w - p) = w
      BY <1>a, <2>1, <2>2, <2>3 DEF Ways
    <3>2. at(w - p) = w
      BY <2>1, <2>2, <3>1, Around
    <3>3. QED
      BY <2>1, <3>1, <3>2
  <2>4. CASE w < p
    <3>1. w + Assoc - p \in Ways /\ p + (w + Assoc - p) = w + Assoc
      BY <1>a, <2>1, <2>2, <2>4 DEF Ways
    <3>2. at(w + Assoc - p) = w
      BY <2>1, <2>2, <3>1, Around
    <3>3. QED
      BY <2>1, <3>1, <3>2
  <2>5. w \in Nat /\ p \in Nat
    BY <1>a, <2>1, <2>2 DEF Ways
  <2>6. QED
    BY <2>3, <2>4, <2>5
<1>2. CASE K = {}
  <2>1. Scan(C) = {Failed("no victim")}
    BY <1>2 DEF Scan
  <2>2. QED
    BY <1>1, <1>2, <2>1
<1>3. CASE K # {}
  <2>1. K \in SUBSET Nat
    BY <1>a DEF Ways
  <2>2. k1 \in K
    BY <1>3, <2>1, LeastOf
  <2>3. Scan(C) = {Found(at(k1), [set_repl EXCEPT !.ptr = at(k1 + 1)])}
    BY <1>3 DEF Scan
  <2>4. at(k1) \in C
    BY <2>2
  <2>5. at(k1 + 1) \in Ways
    <3>1. set_repl.ptr + (k1 + 1) \in Nat
      BY <1>a, <2>2 DEF Ways
    <3>2. QED
      BY <3>1, Around
  <2> HIDE DEF at, K, k1
  <2>6. s = Found(at(k1), [set_repl EXCEPT !.ptr = at(k1 + 1)])
    BY <2>3
  <2>7. s.way = at(k1) /\ s.error = "none"
    BY <2>6 DEF Found
  <2>8. QED
    BY <2>4, <2>5, <2>6, <2>7
<1>4. QED
  BY <1>2, <1>3

(* The pointer plays no part in what is kept. *)
LEMMA PointerMoved ==
  ASSUME NEW r, NEW q, Kept(r, q), NEW p \in Ways
  PROVE  Kept([r EXCEPT !.ptr = p], q)
<1>1. r \in Repls
  BY DEF Kept
<1>2. /\ [r EXCEPT !.ptr = p] \in Repls /\ [r EXCEPT !.ptr = p].bits = r.bits
      /\ [r EXCEPT !.ptr = p].set = r.set
  BY <1>1 DEF Repls
<1>3. QED
  BY <1>2 DEF Kept, Ones

(* Taking a way that is touched. *)
LEMMA Filled ==
  ASSUME Steady, NEW w \in Ways
  PROVE  /\ Fill(w) \in Answers /\ Fill(w).way = w /\ Fill(w).error = "none"
         /\ Kept(Fill(w).repl, Touched(set_recency, w))
         /\ Pointing(Fill(w).repl, Touched(set_recency, w))
<1>1. /\ Kept(UpdateReplacementIndex(set_repl, w), Touched(set_recency, w))
      /\ Pointing(UpdateReplacementIndex(set_repl, w), Touched(set_recency, w))
  BY Updating DEF Steady
<1>2. UpdateReplacementIndex(set_repl, w) \in Repls
  BY <1>1 DEF Kept
<1>3. QED
  BY <1>1, <1>2 DEF Fill, Found, Answers, SetErrors

(* Taking a way and only moving the pointer, of a policy that tracks nothing. *)
LEMMA Unused ==
  ASSUME Steady, NEW w \in Ways, NEW p \in Ways, set_policy \in {"round_robin", "random"}
  PROVE  /\ Kept(set_repl, Touched(set_recency, w))
         /\ Kept([set_repl EXCEPT !.ptr = p], Touched(set_recency, w))
         /\ \A r : Pointing(r, Touched(set_recency, w))
<1>1. Touched(set_recency, w) = set_recency
  BY DEF Touched, Tracked, StackPolicies
<1>2. QED
  BY <1>1, PointerMoved DEF Steady, Pointing

(* When no line is being upgraded every way may be replaced. *)
LEMMA AllValid ==
  ASSUME Upgrading = {}
  PROVE  \A w \in Ways : isValidReplacement(w)
BY DEF Upgrading, isValidReplacement

(* With two ways and no upgrade there are others than the way used last. *)
LEMMA OthersLeft ==
  ASSUME Assoc >= 2, Upgrading = {}
  PROVE  Others # {}
<1>1. 0 \in Ways /\ 1 \in Ways
  BY SetAssumption DEF Ways
<1>2. QED
  BY <1>1 DEF Others

(* The way used last is the one with bit 0. *)
LEMMA ZeroIsLast ==
  ASSUME Steady, set_policy \in StackPolicies
  PROVE  /\ set_recency[1] \in Ways
         /\ \A w \in Ways : set_repl.bits[w] \in Nat /\ (set_repl.bits[w] = 0 <=> w = set_recency[1])
<1>a. Assoc \in Nat \ {0} /\ set_policy # "srrip"
  BY SetAssumption DEF StackPolicies
<1>1. set_recency \in [1..Assoc -> Ways] /\ \A w \in Ways : \E i \in 1..Assoc : set_recency[i] = w
  BY DEF Steady, Kept, EachOnce
<1>2. \A i \in 1..Assoc : set_repl.bits[set_recency[i]] = i - 1
  BY DEF Steady, Kept
<1>3. ASSUME NEW w \in Ways
      PROVE  set_repl.bits[w] \in Nat /\ (set_repl.bits[w] = 0 <=> w = set_recency[1])
  <2>1. PICK i \in 1..Assoc : set_recency[i] = w
    BY <1>1
  <2>2. set_repl.bits[w] = i - 1
    BY <1>2, <2>1
  <2>3. set_repl.bits[set_recency[1]] = 0
    BY <1>2, <1>a
  <2>4. QED
    BY <1>a, <2>1, <2>2, <2>3
<1>4. QED
  BY <1>1, <1>3, <1>a

(* An error is an answer. *)
LEMMA FailedAnswers ==
  ASSUME Steady
  PROVE  \A e \in SetErrors : Failed(e) \in Answers /\ Failed(e).error = e
<1>1. 0 \in Ways
  BY SetAssumption DEF Ways
<1>2. set_repl \in Repls
  BY DEF Steady, Kept
<1>3. QED
  BY <1>1, <1>2 DEF Failed, Answers

(* The first free way is free. *)
LEMMA FreeWay ==
  ASSUME Steady, Free # {}
  PROVE  FirstFree \in Ways /\ set_ways[FirstFree] = "free"
<1>1. Free \in SUBSET Nat
  BY SetAssumption DEF Free, Ways
<1>2. FirstFree \in Free
  BY <1>1, LeastOf DEF FirstFree
<1>3. QED
  BY <1>2 DEF Free

(* LRU. *)
LEMMA LruChosen ==
  ASSUME Steady, Assoc >= 2, set_policy = "lru", NEW v \in LRUVictim
  PROVE  Choice(v)
<1> DEFINE C == {w \in Ways : set_repl.bits[w] > 0 /\ isValidReplacement(w)}
           c == CHOOSE w \in C : \A u \in C : set_repl.bits[u] <= set_repl.bits[w]
<1>a. Assoc \in Nat \ {0} /\ set_policy \in StackPolicies
  BY SetAssumption DEF StackPolicies
<1>1. \A w \in Ways : set_repl.bits[w] \in 0..(Assoc - 1)
  BY DEF Steady, Kept, Repls
<1>2. CASE C = {}
  <2>1. v = Fill(0) /\ 0 \in Ways
    BY <1>2, <1>a DEF LRUVictim, Ways
  <2>2. Others = {}
    <3>1. ASSUME NEW w \in Others PROVE w \in C
      <4>1. w \in Ways /\ w # set_recency[1] /\ isValidReplacement(w)
        BY DEF Others, Upgrading, isValidReplacement
      <4>2. QED
        BY <1>a, <4>1, ZeroIsLast
    <3>2. QED
      BY <1>2, <3>1
  <2>3. QED
    BY <2>1, <2>2, Filled DEF Choice
<1>3. CASE C # {}
  <2>1. c \in C
    <3> DEFINE B == {set_repl.bits[w] : w \in C}
    <3>1. B # {} /\ B \subseteq 0..(Assoc - 1)
      BY <1>1, <1>3
    <3> HIDE DEF B
    <3>0. Assoc - 1 \in Nat
      BY <1>a
    <3>2. PICK m \in B : \A n \in B : n <= m
      BY Zenon, <3>0, <3>1, GreatestOf
    <3> USE DEF B
    <3>3. PICK w \in C : m = set_repl.bits[w]
      OBVIOUS
    <3>4. \A u \in C : set_repl.bits[u] <= set_repl.bits[w]
      BY <3>2, <3>3
    <3>5. QED
      BY <3>3, <3>4
  <2>2. v = Fill(c)
    BY <1>3 DEF LRUVictim
  <2> HIDE DEF c
  <2>3. c \in Ways /\ set_repl.bits[c] # 0 /\ set_ways[c] # "upgrading"
    BY <1>1, <2>1 DEF isValidReplacement
  <2>4. c # set_recency[1]
    BY <1>a, <2>3, ZeroIsLast
  <2>5. QED
    BY <2>2, <2>3, <2>4, Filled DEF Choice
<1>4. QED
  BY <1>2, <1>3

(* MRU. *)
LEMMA MruChosen ==
  ASSUME Steady, Assoc >= 2, set_policy = "mru", NEW v \in MRUVictim
  PROVE  Choice(v)
<1> DEFINE C == {w \in Ways : isValidReplacement(w)}
           c == CHOOSE w \in C : \A u \in C : set_repl.bits[w] <= set_repl.bits[u]
<1>a. Assoc \in Nat \ {0} /\ set_policy \in StackPolicies
  BY SetAssumption DEF StackPolicies
<1>1. \A w \in Ways : set_repl.bits[w] \in 0..(Assoc - 1)
  BY DEF Steady, Kept, Repls
<1>2. CASE C = {}
  <2>1. v = Failed("no victim")
    BY <1>2 DEF MRUVictim
  <2>2. Upgrading = Ways
    BY <1>2 DEF Upgrading, isValidReplacement
  <2>3. Upgrading # {}
    <3>1. 0 \in Ways
      BY <1>a DEF Ways
    <3>2. QED
      BY <1>2, <3>1, AllValid
  <2>4. v \in Answers /\ v.error = "no victim"
    BY <2>1, FailedAnswers DEF SetErrors
  <2>5. QED
    BY <2>2, <2>3, <2>4 DEF Choice
<1>3. CASE C # {}
  <2>1. c \in C
    <3> DEFINE B == {set_repl.bits[w] : w \in C}
    <3>1. B # {} /\ B \in SUBSET Nat
      BY <1>1, <1>3
    <3>2. PICK m \in B : \A n \in B : m <= n
      BY <3>1, LeastOf
    <3>3. PICK w \in C : m = set_repl.bits[w]
      OBVIOUS
    <3>4. \A u \in C : set_repl.bits[w] <= set_repl.bits[u]
      BY <3>2, <3>3
    <3>5. QED
      BY <3>3, <3>4
  <2>2. v = Fill(c)
    BY <1>3 DEF MRUVictim
  <2> HIDE DEF c
  <2>3. c \in Ways /\ set_ways[c] # "upgrading"
    BY <2>1 DEF isValidReplacement
  <2>5. QED
    BY <2>2, <2>3, Filled DEF Choice
<1>4. QED
  BY <1>2, <1>3

(* What NRU and NMRU find with the pointer. *)
LEMMA PointerChosen ==
  ASSUME Steady, NEW C \in SUBSET Ways, NEW v \in PointerVictim(C)
  PROVE  \/ /\ v.error = "none" /\ v.way \in C /\ v \in Answers
            /\ Kept(v.repl, Touched(set_recency, v.way))
            /\ Pointing(v.repl, Touched(set_recency, v.way))
         \/ C = {} /\ v \in Answers /\ v.error = "no victim"
<1>a. Assoc \in Nat \ {0}
  BY SetAssumption
<1>b. set_repl.ptr \in Ways /\ set_repl \in Repls
  BY DEF Steady, Kept, Repls
<1>1. PICK s \in Scan(C) :
        v = [s EXCEPT !.repl = IF s.error = "none" THEN UpdateReplacementIndex(s.repl, s.way) ELSE s.repl]
  BY DEF PointerVictim
<1>2. CASE C = {} /\ s = Failed("no victim")
  <2>1. v = s
    BY <1>1, <1>2 DEF Failed
  <2>2. QED
    BY <1>2, <2>1, FailedAnswers DEF SetErrors
<1>3. CASE s.error = "none" /\ s.way \in C /\ \E p \in Ways : s = Found(s.way, [set_repl EXCEPT !.ptr = p])
  <2>1. PICK p \in Ways : s = Found(s.way, [set_repl EXCEPT !.ptr = p])
    BY <1>3
  <2> DEFINE u == UpdateReplacementIndex([set_repl EXCEPT !.ptr = p], s.way)
  <2>2. PICK w \in C : w = s.way
    BY <1>3
  <2>3. s = [way |-> w, repl |-> [set_repl EXCEPT !.ptr = p], error |-> "none"]
    BY <2>1, <2>2 DEF Found
  <2>4. u = UpdateReplacementIndex(s.repl, s.way)
    BY <2>3
  <2>5. Kept(u, Touched(set_recency, w)) /\ Pointing(u, Touched(set_recency, w))
    BY <2>2, PointerMoved, Updating DEF Steady
  <2> HIDE DEF u
  <2>6. v = [way |-> w, repl |-> u, error |-> "none"]
    BY <1>1, <2>3, <2>4
  <2>7. u \in Repls
    BY <2>5 DEF Kept
  <2>8. QED
    BY <2>2, <2>5, <2>6, <2>7 DEF Answers, SetErrors
<1>4. QED
  BY <1>2, <1>3, <1>b, Scanned

(* NRU: fewer ways are marked than there are. *)
LEMMA NruChosen ==
  ASSUME Steady, set_policy = "nru", NEW v \in NRUVictim
  PROVE  Choice(v)
<1> DEFINE C == {w \in Ways : set_repl.bits[w] = 0 /\ isValidReplacement(w)}
<1>a. Assoc \in Nat \ {0} /\ set_policy \notin StackPolicies \cup {"random", "lru", "nmru", "plru"}
  BY SetAssumption DEF StackPolicies
<1>1. v \in PointerVictim(C)
  BY DEF NRUVictim
<1>2. ASSUME Upgrading = {} PROVE C # {}
  <2>1. \A w \in Ways : set_repl.bits[w] \in {0, 1}
    BY DEF Steady, Kept
  <2>2. Cardinality(Ones(set_repl)) <= set_repl.set /\ set_repl.set \in 0..(Assoc - 1)
    BY DEF Steady, Kept, Repls, Ways
  <2>3. Ones(set_repl) # Ways
    <3>1. Cardinality(Ways) = Assoc
      BY WaysFinite
    <3>2. QED
      BY <1>a, <2>2, <3>1
  <2>4. PICK w \in Ways : w \notin Ones(set_repl)
    BY <2>3 DEF Ones
  <2>5. QED
    BY <1>2, <2>1, <2>4, AllValid DEF Ones
<1>3. C \in SUBSET Ways /\ \A w \in C : set_ways[w] # "upgrading"
  BY DEF isValidReplacement
<1> HIDE DEF C
<1>4. QED
  BY <1>1, <1>2, <1>3, <1>a, PointerChosen DEF Choice

(* NMRU: two valid ways, one of which is not the most recently used. *)
LEMMA NmruChosen ==
  ASSUME Steady, Assoc >= 2, set_policy = "nmru", NEW v \in NMRUVictim
  PROVE  Choice(v)
<1> DEFINE C == {w \in Ways : set_repl.bits[w] # 0 /\ isValidReplacement(w)}
<1>a. Assoc \in Nat \ {0} /\ set_policy \in StackPolicies
  BY SetAssumption DEF StackPolicies
<1>1. v \in PointerVictim(C)
  BY DEF NMRUVictim
<1>2. ASSUME Others # {} PROVE C # {}
  <2>1. PICK w \in Ways : w # set_recency[1] /\ isValidReplacement(w)
    BY <1>2 DEF Others, Upgrading, isValidReplacement
  <2>2. QED
    BY <1>a, <2>1, ZeroIsLast
<1>3. ASSUME Upgrading = {} PROVE Others # {}
  BY <1>3, OthersLeft
<1>4. \A w \in C : set_ways[w] # "upgrading" /\ w # set_recency[1]
  BY <1>a, ZeroIsLast DEF isValidReplacement
<1> HIDE DEF C
<1>5. C \in SUBSET Ways
  BY DEF C
<1>6. QED
  BY <1>1, <1>2, <1>3, <1>4, <1>5, PointerChosen DEF Choice

(* The tree leads to a way, and not to the one it points away from. *)
LEMMA TreeLeads ==
  ASSUME NEW r, NEW w, NEW m \in Ways, Assoc \in {4, 8},
         r \in [bits : [Ways -> 0..(Assoc - 1)], ptr : Ways, set : Ways],
         \A v \in Ways : r.bits[v] \in {0, 1},
         w = IF Assoc = 4
             THEN IF r.bits[0] = 0 THEN r.bits[1] ELSE 2 + r.bits[2]
             ELSE LET h == 3 * r.bits[0]
                      q == r.bits[1 + h]
                  IN  4 * r.bits[0] + 2 * q + r.bits[2 + h + q]
  PROVE  w \in Ways /\ (PLRUUpdate(r, m) = r => w # m)
<1>1. CASE Assoc = 4
  <2>1. Ways = 0..3
    BY <1>1 DEF Ways
  <2> DEFINE b == r.bits
  <2>2. b \in [0..3 -> 0..3] /\ \A v \in 0..3 : b[v] \in {0, 1}
    BY <1>1, <2>1
  <2>3. w = IF b[0] = 0 THEN b[1] ELSE 2 + b[2]
    BY <1>1
  <2> HIDE DEF b
  <2>4. PICK x \in {0, 1}, y \in {0, 1}, z \in {0, 1} : x = b[0] /\ y = b[1] /\ z = b[2]
    BY <2>2
  <2>5. w = IF x = 0 THEN y ELSE 2 + z
    BY <2>3, <2>4
  <2>6. w \in 0..3 /\ (w < 2 <=> x = 0)
    BY <2>5
  <2>7. ASSUME PLRUUpdate(r, m) = r, w = m PROVE FALSE
    <3> DEFINE i == 1 + (w \div 2)
               n == [r EXCEPT !.bits[0] = IF w < 2 THEN 1 ELSE 0, !.bits[i] = 1 - (w % 2)]
    <3>1. n = r
      <4>1. PLRUUpdate(r, w) = n
        BY <1>1 DEF PLRUUpdate
      <4>2. QED
        BY <2>7, <4>1
    <3>2. i \in 1..2
      <4>1. PICK u \in 0..3 : u = w
        BY <2>6
      <4>2. 1 + (u \div 2) \in 1..2
        BY ONLY u \in 0..3
      <4>3. QED
        BY <4>1, <4>2
    <3> HIDE DEF i
    <3>3. n.bits = [b EXCEPT ![0] = IF w < 2 THEN 1 ELSE 0, ![i] = 1 - (w % 2)]
      BY DEF b
    <3> HIDE DEF n
    <3>4. b = [b EXCEPT ![0] = IF w < 2 THEN 1 ELSE 0, ![i] = 1 - (w % 2)]
      BY <3>1, <3>3 DEF b
    <3>5. b[0] = IF w < 2 THEN 1 ELSE 0
      BY <2>2, <3>2, <3>4
    <3>6. QED
      BY <2>4, <2>6, <3>5
  <2>8. QED
    BY <2>1, <2>6, <2>7
<1>2. CASE Assoc = 8
  <2>1. Ways = 0..7
    BY <1>2 DEF Ways
  <2> DEFINE b == r.bits
  <2>2. b \in [0..7 -> 0..7] /\ \A v \in 0..7 : b[v] \in {0, 1}
    BY <1>2, <2>1
  <2>3. w = 4 * b[0] + 2 * b[1 + 3 * b[0]] + b[2 + 3 * b[0] + b[1 + 3 * b[0]]]
    BY <1>2
  <2> HIDE DEF b
  <2>4. PICK x \in {0, 1} : x = b[0]
    BY <2>2
  <2>5. PICK y \in {0, 1} : y = b[1 + 3 * x]
    <3>1. 1 + 3 * x \in 0..7
      BY <2>4
    <3>2. QED
      BY <2>2, <3>1
  <2>6. PICK z \in {0, 1} : z = b[2 + 3 * x + y]
    <3>1. 2 + 3 * x + y \in 0..7
      BY <2>4, <2>5
    <3>2. QED
      BY <2>2, <3>1
  <2>7. w = 4 * x + 2 * y + z
    BY <2>3, <2>4, <2>5, <2>6
  <2>8. w \in 0..7 /\ (w < 4 <=> x = 0)
    BY <2>7
  <2>9. ASSUME PLRUUpdate(r, m) = r, w = m PROVE FALSE
    <3> DEFINE i == 1 + 3 * (w \div 4)
               j == 2 + 3 * (w \div 4) + ((w % 4) \div 2)
               n == [r EXCEPT !.bits[0] = IF w < 4 THEN 1 ELSE 0,
                              !.bits[i] = IF w % 4 < 2 THEN 1 ELSE 0,
                              !.bits[j] = 1 - (w % 2)]
    <3>1. n = r
      <4>1. PLRUUpdate(r, w) = n
        BY <1>2 DEF PLRUUpdate
      <4>2. QED
        BY <2>9, <4>1
    <3>2. i \in 1..7 /\ j \in 1..7
      <4>1. PICK u \in 0..7 : u = w
        BY <2>8
      <4>2. 1 + 3 * (u \div 4) \in 1..7
        BY ONLY u \in 0..7
      <4>3. 2 + 3 * (u \div 4) + ((u % 4) \div 2) \in 1..7
        BY ONLY u \in 0..7
      <4>4. QED
        BY <4>1, <4>2, <4>3
    <3> HIDE DEF i, j
    <3>3. n.bits = [b EXCEPT ![0] = IF w < 4 THEN 1 ELSE 0,
                             ![i] = IF w % 4 < 2 THEN 1 ELSE 0, ![j] = 1 - (w % 2)]
      BY DEF b
    <3> HIDE DEF n
    <3>4. b = [b EXCEPT ![0] = IF w < 4 THEN 1 ELSE 0,
                        ![i] = IF w % 4 < 2 THEN 1 ELSE 0, ![j] = 1 - (w % 2)]
      BY <3>1, <3>3 DEF b
    <3>5. b[0] = IF w < 4 THEN 1 ELSE 0
      BY <2>2, <3>2, <3>4
    <3>6. QED
      BY <2>4, <2>8, <3>5
  <2>10. QED
    BY <2>1, <2>8, <2>9
<1>3. QED
  BY <1>1, <1>2

(* Tree PLRU. *)
LEMMA PlruChosen ==
  ASSUME Steady, Free = {}, Assoc >= 2, set_policy = "plru", NEW v \in PLRUVictim
  PROVE  Choice(v)
<1> DEFINE b == set_repl.bits
           w == IF Assoc = 4
                THEN IF b[0] = 0 THEN b[1] ELSE 2 + b[2]
                ELSE LET h == 3 * b[0]
                         q == b[1 + h]
                     IN  4 * b[0] + 2 * q + b[2 + h + q]
<1>1. /\ Assoc \in {4, 8} /\ EachOnce(set_recency)
      /\ \A u \in Ways : b[u] \in {0, 1}
      /\ set_repl \in [bits : [Ways -> 0..(Assoc - 1)], ptr : Ways, set : Ways]
  BY DEF Steady, Kept, Repls
<1>2. set_recency[1] \in Ways
  <2>1. 1 \in 1..Assoc
    BY <1>1
  <2>2. QED
    BY <1>1, <2>1 DEF EachOnce
<1>3. PLRUUpdate(set_repl, set_recency[1]) = set_repl
  <2>1. set_ways[set_recency[1]] # "free"
    BY <1>2 DEF Free
  <2>2. QED
    BY <1>2, <2>1 DEF Steady, Pointing
<1>4. v \in IF isValidReplacement(w) THEN {Fill(w)} ELSE {Failed("assertion")}
  BY DEF PLRUVictim
<1>5. w \in Ways /\ w # set_recency[1]
  BY <1>1, <1>2, <1>3, TreeLeads
<1> HIDE DEF w
<1>6. set_policy \notin StackPolicies \cup {"random"}
  BY DEF StackPolicies
<1>7. CASE isValidReplacement(w)
  BY <1>4, <1>5, <1>6, <1>7, Filled DEF Choice, isValidReplacement
<1>8. CASE ~isValidReplacement(w)
  <2>1. v = Failed("assertion")
    BY <1>4, <1>8
  <2>2. v \in Answers /\ v.error = "assertion" /\ v.way = 0
    BY <2>1, FailedAnswers DEF SetErrors, Failed
  <2>3. Upgrading # {}
    BY <1>5, <1>8, AllValid
  <2>4. QED
    BY <1>6, <2>2, <2>3 DEF Choice
<1>9. QED
  BY <1>7, <1>8

(* SRRIP: aging ends with a way at the maximum. *)
LEMMA SrripChosen ==
  ASSUME Steady, set_policy = "srrip", NEW v \in SRRIPVictim
  PROVE  Choice(v)
<1> DEFINE IsTop(k) == (\E w \in Ways : set_repl.bits[w] = k) /\ \A w \in Ways : set_repl.bits[w] <= k
           top == CHOOSE k \in 0..RripMax : IsTop(k)
           aged == [w \in Ways |-> set_repl.bits[w] + RripMax - top]
           C == {w \in Ways : aged[w] = RripMax}
           Outcome(s) == IF s.error # "none" \/ ~isValidReplacement(s.way) THEN Failed("assertion")
                         ELSE [s EXCEPT !.repl.bits = [aged EXCEPT ![s.way] = RripMax - 1]]
<1>a. Assoc \in Nat \ {0} /\ RripMax \in Nat \ {0}
  BY SetAssumption
<1>b. set_policy \notin StackPolicies \cup {"random", "lru", "nmru", "plru", "nru"} \cup Tracked
  BY DEF StackPolicies, Tracked
<1>1. set_repl \in [bits : [Ways -> 0..RripMax], ptr : Ways, set : Ways]
  BY DEF Steady, Kept, Repls
<1>2. Repls = [bits : [Ways -> 0..RripMax], ptr : Ways, set : Ways]
  BY DEF Repls
<1>3. top \in 0..RripMax /\ IsTop(top)
  <2> DEFINE B == {set_repl.bits[w] : w \in Ways}
  <2>1. 0 \in Ways
    BY <1>a DEF Ways
  <2>2. B # {} /\ B \subseteq 0..RripMax
    BY <1>1, <2>1
  <2> HIDE DEF B
  <2>3. PICK k \in B : \A n \in B : n <= k
    BY <1>a, <2>2, GreatestOf
  <2>4. k \in 0..RripMax /\ IsTop(k)
    BY <2>2, <2>3 DEF B
  <2> HIDE DEF IsTop
  <2>5. QED
    BY <2>4
<1> HIDE DEF top
<1>4. aged \in [Ways -> 0..RripMax]
  <2>1. SUFFICES ASSUME NEW w \in Ways PROVE set_repl.bits[w] + RripMax - top \in 0..RripMax
    OBVIOUS
  <2>2. set_repl.bits[w] \in 0..RripMax /\ set_repl.bits[w] <= top
    BY <1>1, <1>3
  <2>3. QED
    BY <1>3, <1>a, <2>2
<1>5. C # {}
  <2>1. PICK w \in Ways : set_repl.bits[w] = top
    BY <1>3
  <2>2. aged[w] = RripMax
    BY <1>3, <1>a, <2>1
  <2>3. QED
    BY <2>2
<1>6. v \in {Outcome(s) : s \in Scan(C)}
  BY DEF SRRIPVictim, top
<1> HIDE DEF aged
<1>c. C \in SUBSET Ways
  OBVIOUS
<1> HIDE DEF C
<1>7. PICK s \in Scan(C) : v = Outcome(s)
  BY <1>6
<1>8. s.error = "none" /\ s.way \in C /\ \E p \in Ways : s = Found(s.way, [set_repl EXCEPT !.ptr = p])
  BY <1>1, <1>5, <1>c, Scanned
<1>9. PICK p \in Ways, w \in C : s = [way |-> w, repl |-> [set_repl EXCEPT !.ptr = p], error |-> "none"]
  BY <1>8 DEF Found
<1>10. CASE isValidReplacement(w)
  <2> DEFINE n == [[set_repl EXCEPT !.ptr = p] EXCEPT !.bits = [aged EXCEPT ![w] = RripMax - 1]]
  <2>1. RripMax - 1 \in 0..RripMax
    BY <1>a
  <2>2. [aged EXCEPT ![w] = RripMax - 1] \in [Ways -> 0..RripMax]
    BY <1>4, <2>1
  <2>3. n \in Repls
    BY <1>1, <1>2, <2>2
  <2>4. v = [way |-> w, repl |-> n, error |-> "none"]
    BY <1>7, <1>9, <1>10
  <2> HIDE DEF n
  <2>5. Kept(n, set_recency) /\ Touched(set_recency, w) = set_recency
    BY <1>b, <2>3 DEF Kept, Touched, Steady
  <2>6. QED
    BY <1>b, <1>c, <1>10, <2>3, <2>4, <2>5 DEF Choice, Answers, SetErrors, Pointing, isValidReplacement
<1>11. CASE ~isValidReplacement(w)
  <2>1. v = Failed("assertion")
    BY <1>7, <1>9, <1>11
  <2>2. v \in Answers /\ v.error = "assertion"
    BY <2>1, FailedAnswers DEF SetErrors
  <2>3. Upgrading # {}
    BY <1>11, <1>c, AllValid
  <2>4. QED
    BY <1>b, <2>2, <2>3 DEF Choice
<1>12. QED
  BY <1>10, <1>11

(* Round robin. *)
LEMMA RoundRobinChosen ==
  ASSUME Steady, set_policy = "round_robin", NEW v \in RoundRobinVictim
  PROVE  Choice(v)
<1> DEFINE at(k) == (set_repl.ptr + Assoc - k) % Assoc
           K == {k \in 1..Assoc : isValidReplacement(at(k))}
           k1 == CHOOSE k \in K : \A j \in K : k <= j
<1>a. Assoc \in Nat \ {0}
  BY SetAssumption
<1>b. set_policy \notin StackPolicies \cup {"random", "lru", "nmru", "plru", "nru"} \cup Tracked
  BY DEF StackPolicies, Tracked
<1>1. set_repl.ptr \in Nat
  BY <1>a DEF Steady, Kept, Repls, Ways
<1>2. \A k \in 0..Assoc : at(k) \in Ways
  <2>1. \A k \in 0..Assoc : set_repl.ptr + Assoc - k \in Nat
    BY <1>1, <1>a
  <2>2. QED
    BY <2>1, Around
<1>3. CASE K = {}
  <2>1. v = Failed("recursion")
    BY <1>3 DEF RoundRobinVictim
  <2>2. v \in Answers /\ v.error = "recursion"
    BY <2>1, FailedAnswers DEF SetErrors
  <2>3. Upgrading = Ways
    <3>1. ASSUME NEW w \in Ways PROVE \E k \in 1..Assoc : at(k) = w
      <4>1. PICK p \in Ways : p = set_repl.ptr
        BY DEF Steady, Kept, Repls
      <4>2. PICK n \in Nat \ {0} : n = Assoc
        BY <1>a
      <4>3. p \in 0..(n - 1) /\ w \in 0..(n - 1)
        BY <4>1, <4>2 DEF Ways
      <4>4. CASE w < p
        <5>1. p - w \in 1..Assoc /\ set_repl.ptr + Assoc - (p - w) = w + Assoc
          BY <4>1, <4>2, <4>3, <4>4
        <5>2. QED
          BY <5>1, Around
      <4>5. CASE w >= p
        <5>1. p + Assoc - w \in 1..Assoc /\ set_repl.ptr + Assoc - (p + Assoc - w) = w
          BY <4>1, <4>2, <4>3, <4>5
        <5>2. QED
          BY <5>1, Around
      <4>6. QED
        BY <4>3, <4>4, <4>5
    <3>2. ASSUME NEW w \in Ways PROVE ~isValidReplacement(w)
      BY <1>3, <3>1
    <3>3. QED
      BY <3>2 DEF Upgrading, isValidReplacement
  <2>4. Upgrading # {}
    <3>1. 0 \in Ways
      BY <1>a DEF Ways
    <3>2. QED
      BY <2>3, <3>1
  <2>5. QED
    BY <1>b, <2>2, <2>3, <2>4 DEF Choice
<1>4. CASE K # {}
  <2>1. K \in SUBSET Nat
    BY <1>a
  <2>2. k1 \in K
    BY <1>4, <2>1, LeastOf
  <2>3. v = Found(at(k1 - 1), [set_repl EXCEPT !.ptr = at(k1)])
    BY <1>4 DEF RoundRobinVictim
  <2>4. at(k1 - 1) \in Ways /\ at(k1) \in Ways
    <3>1. k1 \in 0..Assoc /\ k1 - 1 \in 0..Assoc
      BY <1>a, <2>2
    <3>2. QED
      BY <1>2, <3>1
  <2> HIDE DEF at, k1
  <2>5. PICK w \in Ways, p \in Ways : v = [way |-> w, repl |-> [set_repl EXCEPT !.ptr = p], error |-> "none"]
    BY <2>3, <2>4 DEF Found
  <2>6. Kept([set_repl EXCEPT !.ptr = p], Touched(set_recency, w)) /\ Pointing([set_repl EXCEPT !.ptr = p], Touched(set_recency, w))
    BY Unused
  <2>7. [set_repl EXCEPT !.ptr = p] \in Repls
    BY <2>6 DEF Kept
  <2>8. QED
    BY <1>b, <2>5, <2>6, <2>7 DEF Choice, Answers, SetErrors
<1>5. QED
  BY <1>3, <1>4

(* Random. *)
LEMMA RandomChosen ==
  ASSUME Steady, set_policy = "random", NEW v \in RandomVictim
  PROVE  Choice(v)
<1>a. Assoc \in Nat \ {0} /\ set_policy \notin {"lru", "nmru", "plru"}
  BY SetAssumption
<1>1. CASE Upgrading = Ways
  <2>1. v = Failed("recursion")
    BY <1>1 DEF RandomVictim
  <2>2. v \in Answers /\ v.error = "recursion"
    BY <2>1, FailedAnswers DEF SetErrors
  <2>3. Upgrading # {}
    <3>1. 0 \in Ways
      BY <1>a DEF Ways
    <3>2. QED
      BY <1>1, <3>1
  <2>4. QED
    BY <1>1, <1>a, <2>2, <2>3 DEF Choice
<1>2. CASE Upgrading # Ways
  <2>1. PICK w \in Ways : isValidReplacement(w) /\ v = Found(w, set_repl)
    BY <1>2 DEF RandomVictim
  <2>2. Kept(set_repl, Touched(set_recency, w)) /\ Pointing(set_repl, Touched(set_recency, w))
    BY Unused
  <2>3. set_repl \in Repls
    BY DEF Steady, Kept
  <2>4. QED
    BY <1>a, <2>1, <2>2, <2>3 DEF Choice, Answers, SetErrors, Found, isValidReplacement
<1>3. QED
  BY <1>1, <1>2

(* A free way. *)
LEMMA FreeChosen ==
  ASSUME Steady, Free # {}, NEW v \in GetReplacementIndex, set_policy # "round_robin"
  PROVE  Choice(v)
<1>1. FirstFree \in Ways /\ set_ways[FirstFree] = "free"
  BY FreeWay
<1>2. CASE set_policy = "srrip"
  <2> DEFINE f == FirstFree
             n == [set_repl EXCEPT !.bits[f] = RripMax - 1]
  <2>1. v = [way |-> f, repl |-> n, error |-> "none"]
    BY <1>2 DEF GetReplacementIndex, Found
  <2>2. Repls = [bits : [Ways -> 0..RripMax], ptr : Ways, set : Ways]
    BY <1>2 DEF Repls
  <2>3. RripMax - 1 \in 0..RripMax
    BY SetAssumption
  <2>4. set_repl \in Repls
    BY DEF Steady, Kept
  <2> HIDE DEF f
  <2>5. n \in Repls
    BY <2>2, <2>3, <2>4
  <2> HIDE DEF n
  <2>b. set_policy \notin StackPolicies \cup {"random", "lru", "nmru", "plru", "nru"} \cup Tracked
    BY <1>2 DEF StackPolicies, Tracked
  <2>6. Kept(n, set_recency) /\ Touched(set_recency, f) = set_recency
    BY <2>b, <2>5 DEF Kept, Touched, Steady
  <2>7. QED
    BY <1>1, <2>b, <2>1, <2>5, <2>6 DEF Choice, Answers, SetErrors, Pointing, f
<1>3. CASE set_policy # "srrip"
  <2>1. v = Fill(FirstFree)
    BY <1>3 DEF GetReplacementIndex
  <2>2. QED
    BY <1>1, <2>1, Filled DEF Choice
<1>4. QED
  BY <1>2, <1>3

(* Whatever getReplacementIndex answers. *)
LEMMA Choosing ==
  ASSUME Steady, Assoc >= 2, NEW v \in GetReplacementIndex
  PROVE  Choice(v)
<1>1. CASE set_policy = "round_robin"
  BY <1>1, RoundRobinChosen DEF GetReplacementIndex
<1>2. CASE set_policy # "round_robin" /\ Free # {}
  BY <1>2, FreeChosen
<1>3. CASE set_policy # "round_robin" /\ Free = {}
  <2>1. CASE set_policy = "lru"
    BY <1>3, <2>1, LruChosen DEF GetReplacementIndex
  <2>2. CASE set_policy = "mru"
    BY <1>3, <2>2, MruChosen DEF GetReplacementIndex
  <2>3. CASE set_policy = "nru"
    BY <1>3, <2>3, NruChosen DEF GetReplacementIndex
  <2>4. CASE set_policy = "nmru"
    BY <1>3, <2>4, NmruChosen DEF GetReplacementIndex
  <2>5. CASE set_policy = "plru"
    BY <1>3, <2>5, PlruChosen DEF GetReplacementIndex
  <2>6. CASE set_policy = "srrip"
    BY <1>3, <2>6, SrripChosen DEF GetReplacementIndex
  <2>7. CASE set_policy = "random"
    BY <1>3, <2>7, RandomChosen DEF GetReplacementIndex
  <2>8. QED
    BY <1>3, <2>1, <2>2, <2>3, <2>4, <2>5, <2>6, <2>7 DEF Steady, Policies
<1>4. QED
  BY <1>1, <1>2, <1>3

-----------------------------------------------------------------------------
(* After a step that chose no victim nothing is claimed of one. *)
LEMMA NoVictimFine ==
  ASSUME set_last' = NoVictim, set_policy' = set_policy
  PROVE  set_last' \in Lasts /\ VictimFound' /\ UpgradeNotEvicted' /\ LastUsedKept'
<1>1. 0 \in Ways
  BY SetAssumption DEF Ways
<1>2. QED
  BY <1>1 DEF NoVictim, Lasts, SetErrors, VictimFound, UpgradeNotEvicted, LastUsedKept

(* The types do not depend on what a step changes. *)
LEMMA SamePolicy ==
  ASSUME set_policy' = set_policy, NEW r, NEW q
  PROVE  /\ (Kept(r, q))' <=> Kept(r', q')
         /\ (Pointing(r, q))' <=> Pointing(r', q')
BY DEF Kept, Pointing, Repls, Ones, EachOnce, PLRUUpdate

(* The constructors establish the invariant. *)
LEMMA SetInitInv == SetInit => SetInv
<1> SUFFICES ASSUME SetInit PROVE SetInv
  OBVIOUS
<1>a. Assoc \in Nat \ {0} /\ RripMax \in Nat \ {0}
  BY SetAssumption
<1>1. EachOnce(set_recency)
  <2>1. set_recency = [i \in 1..Assoc |-> i - 1]
    BY DEF SetInit
  <2>2. set_recency \in [1..Assoc -> Ways]
    BY <1>a, <2>1 DEF Ways
  <2>3. ASSUME NEW w \in Ways PROVE \E i \in 1..Assoc : set_recency[i] = w
    <3>1. w + 1 \in 1..Assoc /\ (w + 1) - 1 = w
      BY <1>a DEF Ways
    <3>2. QED
      BY <2>1, <3>1
  <2>4. \A i, j \in 1..Assoc : set_recency[i] = set_recency[j] => i = j
    BY <1>a, <2>1
  <2>5. QED
    BY <2>2, <2>3, <2>4 DEF EachOnce
<1> DEFINE b == [w \in Ways |-> CASE set_policy \in StackPolicies -> w
                                [] set_policy = "srrip"         -> RripMax - 1
                                [] OTHER                        -> 0]
<1>2. set_repl = [bits |-> b, ptr |-> IF set_policy = "round_robin" THEN Assoc - 1 ELSE 0, set |-> 0]
  BY DEF SetInit, InitialRepl
<1>3. b \in [Ways -> 0..(IF set_policy = "srrip" THEN RripMax ELSE Assoc - 1)]
  <2>1. CASE set_policy = "srrip"
    BY <1>a, <2>1 DEF StackPolicies
  <2>2. CASE set_policy # "srrip"
    BY <1>a, <2>2 DEF Ways
  <2>3. QED
    BY <2>1, <2>2
<1>4. set_repl \in Repls
  <2>1. 0 \in Ways /\ Assoc - 1 \in Ways
    BY <1>a DEF Ways
  <2> HIDE DEF b
  <2>2. QED
    BY <1>2, <1>3, <2>1 DEF Repls
<1>5. set_policy \in StackPolicies => \A i \in 1..Assoc : set_repl.bits[set_recency[i]] = i - 1
  <2>1. set_recency = [i \in 1..Assoc |-> i - 1]
    BY DEF SetInit
  <2>2. \A i \in 1..Assoc : i - 1 \in Ways
    BY <1>a DEF Ways
  <2>3. set_policy \in StackPolicies => \A w \in Ways : set_repl.bits[w] = w
    <3>1. SUFFICES ASSUME set_policy \in StackPolicies, NEW w \in Ways PROVE b[w] = w
      BY <1>2
    <3>2. set_policy # "srrip"
      BY <3>1 DEF StackPolicies
    <3>3. QED
      BY <3>1, <3>2
  <2> HIDE DEF b
  <2>4. QED
    BY <2>1, <2>2, <2>3
<1>6. set_policy \in {"nru", "plru"} => \A w \in Ways : set_repl.bits[w] = 0
  BY <1>2 DEF StackPolicies
<1>7. set_policy = "nru" => Cardinality(Ones(set_repl)) <= set_repl.set
  <2>1. ASSUME set_policy = "nru" PROVE Ones(set_repl) = {}
    BY <1>6, <2>1 DEF Ones
  <2>2. QED
    BY <1>2, <2>1, FS_EmptySet
<1>8. Kept(set_repl, set_recency)
  BY <1>1, <1>4, <1>5, <1>6, <1>7 DEF Kept, SetInit
<1>9. set_last \in Lasts /\ VictimFound /\ UpgradeNotEvicted /\ LastUsedKept
  <2>1. 0 \in Ways
    BY <1>a DEF Ways
  <2> HIDE DEF b
  <2>2. QED
    BY <2>1 DEF SetInit, NoVictim, Lasts, SetErrors, VictimFound, UpgradeNotEvicted, LastUsedKept
<1>10. QED
  BY <1>8, <1>9 DEF SetInv, Steady, SetInit

(* A hit. *)
LEMMA AccessInv ==
  ASSUME SetInv, NEW w \in Ways, NEW u \in BOOLEAN, Access(w, u)
  PROVE  SetInv'
<1>1. set_policy' = set_policy /\ set_ways' = set_ways /\ set_last' = NoVictim
  BY DEF Access
<1>2. set_ways[w] # "free"
  BY DEF Access
<1>3. Kept(set_repl', set_recency') /\ Pointing(set_repl', set_recency')
  <2>1. CASE u
    <3>1. set_repl' = UpdateReplacementIndex(set_repl, w) /\ set_recency' = Touched(set_recency, w)
      BY <2>1 DEF Access, Touch
    <3>2. QED
      BY <3>1, Updating DEF SetInv, Steady
  <2>2. CASE ~u
    BY <1>2, <2>2 DEF Access, SetInv, Steady
  <2>3. QED
    BY <2>1, <2>2
<1>4. (Kept(set_repl, set_recency))' /\ (Pointing(set_repl, set_recency))'
  BY <1>1, <1>3, SamePolicy
<1>5. QED
  BY <1>1, <1>4, NoVictimFine DEF SetInv, Steady

(* A fill. *)
LEMMA InsertInv ==
  ASSUME SetInv, Assoc >= 2, Insert
  PROVE  SetInv'
<1>1. PICK v \in GetReplacementIndex :
        /\ set_last' = [way |-> v.way, evicted |-> IF v.error = "none" THEN set_ways[v.way] ELSE "free",
                        last |-> set_recency[1], error |-> v.error, upgrading |-> Upgrading]
        /\ IF v.error # "none" THEN UNCHANGED <<set_ways, set_repl, set_recency>>
           ELSE /\ set_ways' = [set_ways EXCEPT ![v.way] = "held"]
                /\ set_repl' = v.repl
                /\ set_recency' = Touched(set_recency, v.way)
  BY DEF Insert, Touch
<1>2. Choice(v)
  BY Choosing DEF SetInv
<1>3. set_policy' = set_policy /\ Steady
  BY DEF Insert, SetInv
<1>4. v.way \in Ways /\ v.error \in SetErrors
  BY <1>2 DEF Choice, Answers
<1>5. Upgrading \in SUBSET Ways /\ set_recency[1] \in Ways
  <2>1. EachOnce(set_recency) /\ 1 \in 1..Assoc
    BY <1>3, SetAssumption DEF Steady, Kept
  <2>2. QED
    BY <2>1 DEF EachOnce, Upgrading
<1>6. Steady'
  <2>1. CASE v.error # "none"
    <3>1. Kept(set_repl', set_recency')
      BY <1>1, <1>3, <2>1 DEF Steady
    <3>2. (Kept(set_repl, set_recency))'
      BY <1>3, <3>1, SamePolicy
    <3>3. Pointing(set_repl, set_recency) => (Pointing(set_repl, set_recency))'
      BY <1>1, <1>3, <2>1, SamePolicy
    <3>4. QED
      BY <1>1, <1>3, <2>1, <3>2, <3>3 DEF Steady
  <2>2. CASE v.error = "none"
    <3>1. Kept(set_repl', set_recency') /\ Pointing(set_repl', set_recency')
      BY <1>1, <1>2, <2>2 DEF Choice
    <3>2. (Kept(set_repl, set_recency))' /\ (Pointing(set_repl, set_recency))'
      BY <1>3, <3>1, SamePolicy
    <3>3. set_ways' \in [Ways -> {"free", "held", "upgrading"}]
      BY <1>1, <1>3, <1>4, <2>2 DEF Steady
    <3>4. QED
      BY <1>3, <3>2, <3>3 DEF Steady
  <2>3. QED
    BY <2>1, <2>2
<1>7. set_last' \in Lasts
  <2>1. set_ways[v.way] \in {"free", "held", "upgrading"}
    BY <1>3, <1>4 DEF Steady
  <2>2. QED
    BY <1>1, <1>4, <1>5, <2>1 DEF Lasts
<1>8. VictimFound'
  <2>1. ASSUME Upgrading = {} PROVE v.error = "none"
    BY <1>2, <2>1 DEF Choice
  <2>2. QED
    BY <1>1, <2>1 DEF VictimFound
<1>b. Spare' = Others
  BY <1>1 DEF Spare, Others, Ways
<1>9. UpgradeNotEvicted'
  BY <1>1, <1>2, <1>3, <1>b DEF UpgradeNotEvicted, Choice
<1>10. LastUsedKept'
  BY <1>1, <1>2, <1>3, <1>b DEF LastUsedKept, Choice
<1>11. QED
  BY <1>6, <1>7, <1>8, <1>9, <1>10 DEF SetInv

(* Steps that leave the replacement state alone. *)
LEMMA WaysInv ==
  ASSUME SetInv, set_last' = NoVictim, UNCHANGED <<set_policy, set_repl, set_recency>>,
         set_ways' \in [Ways -> {"free", "held", "upgrading"}],
         \E w \in Ways : set_ways[w] # "free"
  PROVE  SetInv'
<1>1. Kept(set_repl', set_recency') /\ Pointing(set_repl', set_recency')
  BY DEF SetInv, Steady
<1>2. (Kept(set_repl, set_recency))' /\ (Pointing(set_repl, set_recency))'
  BY <1>1, SamePolicy
<1>3. QED
  BY <1>2, NoVictimFine DEF SetInv, Steady

(* Every operation of Cache on the set keeps it. *)
LEMMA SetNextInv ==
  ASSUME SetInv, Assoc >= 2, SetNext
  PROVE  SetInv'
<1>1. ASSUME NEW w \in Ways, Access(w, TRUE) \/ Access(w, FALSE) PROVE SetInv'
  BY <1>1, AccessInv
<1>2. ASSUME NEW w \in Ways, Invalidate(w) PROVE SetInv'
  <2>1. set_ways' \in [Ways -> {"free", "held", "upgrading"}]
    BY <1>2 DEF Invalidate, SetInv, Steady
  <2>2. QED
    BY <1>2, <2>1, WaysInv DEF Invalidate
<1>3. ASSUME NEW w \in Ways, SetCState(w) PROVE SetInv'
  <2>1. set_ways' \in [Ways -> {"free", "held", "upgrading"}] /\ set_ways[w] # "free"
    BY <1>3 DEF SetCState, SetInv, Steady
  <2>2. QED
    BY <1>3, <2>1, WaysInv DEF SetCState
<1>4. QED
  BY <1>1, <1>2, <1>3, InsertInv DEF SetNext

(* A step of something else. *)
LEMMA SetStutter ==
  ASSUME SetInv, UNCHANGED setVars
  PROVE  SetInv'
<1>1. UNCHANGED <<set_policy, set_ways, set_repl, set_recency, set_last>>
  BY DEF setVars
<1>2. (Kept(set_repl, set_recency))' <=> Kept(set_repl, set_recency)
  BY <1>1, SamePolicy
<1>3. (Pointing(set_repl, set_recency))' <=> Pointing(set_repl, set_recency)
  BY <1>1, SamePolicy
<1>4. Steady'
  BY <1>1, <1>2, <1>3 DEF SetInv, Steady
<1>5. Spare' = Spare
  BY <1>1 DEF Spare
<1>6. QED
  BY <1>1, <1>4, <1>5 DEF SetInv, Lasts, VictimFound, UpgradeNotEvicted, LastUsedKept

(* SetInv is an invariant of a set of two ways or more, whatever its policy and *)
(* whatever hits, fills, invalidations and upgrades Cache makes of it.          *)
THEOREM SetInvariant ==
  ASSUME Assoc >= 2
  PROVE  SetSpec => []SetInv
<1>1. SetInit => SetInv
  BY SetInitInv
<1>2. SetInv /\ [SetNext]_setVars => SetInv'
  BY SetNextInv, SetStutter
<1>3. QED
  BY <1>1, <1>2, PTL DEF SetSpec

(* What every policy does, however many upgrades are in flight: the bits of LRU,  *)
(* MRU and NMRU are the order of use; a set without upgrades finds a victim; only  *)
(* round robin, and LRU with nothing to spare, evict a line that is being upgraded; *)
(* only NRU, PLRU and SRRIP, NMRU with nothing to spare, and MRU, random and round  *)
(* robin in a set that is all upgrading find none; and LRU, NMRU and PLRU keep the  *)
(* line used last while they can (getReplacementIndex and updateReplacementIndex of *)
(* cache_set_*.cc).                                                                *)
THEOREM ReplacementIsCorrect ==
  ASSUME Assoc >= 2
  PROVE  SetSpec => []ReplacementCorrect
<1>1. SetInv => ReplacementCorrect
  BY DEF SetInv, Steady, Kept, Repls, EachOnce, Lasts, SetErrors, ReplacementCorrect, SetTypeOK, BitsAreRecency
<1>2. QED
  BY <1>1, SetInvariant, PTL

-----------------------------------------------------------------------------
(***************************************************************************)
(* The global history buffer, for any sizes of buffer and table.           *)
(***************************************************************************)

(* The places in m_ghb and in m_ghbTable. *)
Indices == 0..GhbSize - 1
TablePlaces == 0..TableSize - 1
(* The types of the buffer, the table and their heads. *)
GhbTypes ==
  /\ ghb \in [Indices -> [next : Indices \cup {None}, delta : Int, gen : 0..3, from : Int, when : Nat]]
  /\ ghb_table \in [TablePlaces -> [index : Indices \cup {None}, delta : Int, gen : 0..3, when : Nat]]
  /\ ghb_head \in Indices /\ ghb_tableHead \in TablePlaces /\ ghb_wraps \in Nat
  /\ ghb_last \in PfAddresses \cup {None}

(* What lies before the head was recorded in this round through the buffer, *)
(* the rest in the round before it.                                         *)
Rounds ==
  \A i \in Indices :
    /\ ghb[i].when = IF i < ghb_head THEN ghb_wraps
                     ELSE IF ghb_wraps = 0 THEN 0 ELSE ghb_wraps - 1
    /\ ghb[i].gen = Generation(ghb[i].when)

(* An entry of the table points to a place that was written in its round, *)
(* and, unless that has been overwritten, right after its delta.          *)
Pointed(t) ==
  t.index # None =>
    /\ t.gen = Generation(t.when) /\ t.when <= ghb_wraps
    /\ t.when = ghb_wraps => t.index < ghb_head
    /\ ghb[t.index].when = t.when => ghb[t.index].from = t.delta
TablePoints == \A i \in TablePlaces : Pointed(ghb_table[i])

(* The table is used from the front, up to its head until it is full. *)
FrontUsed ==
  (\E i \in TablePlaces : ghb_table[i].delta = None) =>
    \A i \in TablePlaces : ghb_table[i].delta # None <=> i < ghb_tableHead

(* The inductive invariant. *)
GhbInv == GhbTypes /\ Rounds /\ TablePoints /\ FrontUsed /\ OneEntryPerDelta

(* Stopping at an unused entry misses no delta: the table is used from the front. *)
LEMMA HitOrAbsent ==
  ASSUME GhbInv, NEW d \in Int, d # None
  PROVE  TableHit(d) = {i \in TablePlaces : ghb_table[i].delta = d}
<1>1. ASSUME NEW i \in TablePlaces, ghb_table[i].delta = d, NEW j \in 0..i - 1
      PROVE  ghb_table[j].delta # None
  <2>1. j \in TablePlaces /\ j < i /\ i \in Int
    BY <1>1, PfAssumption DEF TablePlaces
  <2>2. ASSUME ghb_table[j].delta = None PROVE FALSE
    <3>1. i < ghb_tableHead /\ ~(j < ghb_tableHead)
      BY <1>1, <2>1, <2>2 DEF GhbInv, FrontUsed
    <3>2. ghb_tableHead \in Int
      BY PfAssumption DEF GhbInv, GhbTypes, TablePlaces
    <3>3. QED
      BY <2>1, <3>1, <3>2
  <2>3. QED
    BY <2>2
<1>2. QED
  BY <1>1 DEF TableHit, TablePlaces

(* The constructor establishes the invariant. *)
LEMMA PfInitInv ==
  ASSUME PfInit
  PROVE  GhbInv
<1>1. 0 \in Indices /\ 0 \in TablePlaces /\ None \in Int
  BY PfAssumption DEF Indices, TablePlaces, None
<1>2. GhbTypes
  BY <1>1 DEF PfInit, GhbTypes, Indices, TablePlaces
<1>3. Rounds
  BY PfAssumption DEF PfInit, Rounds, Generation, Indices
<1>4. TablePoints /\ OneEntryPerDelta
  BY DEF PfInit, TablePoints, Pointed, OneEntryPerDelta, TablePlaces
<1>5. FrontUsed
  BY PfAssumption DEF PfInit, FrontUsed, TablePlaces
<1>6. QED
  BY <1>2, <1>3, <1>4, <1>5 DEF GhbInv

(* The entry that Record writes, and where. *)
LEMMA RecordInv ==
  ASSUME GhbInv, NEW delta \in Int, Record(delta), ghb_last' \in PfAddresses
  PROVE  GhbInv'
<1> DEFINE prevHead == IF ghb_head > 0 THEN ghb_head - 1 ELSE GhbSize - 1
           prev == ghb[prevHead].delta
           hits == TableHit(prev)
           k == IF hits # {} THEN CHOOSE k \in hits : TRUE ELSE ghb_tableHead
           live == /\ ghb_table[k].index # None
                   /\ ghb_table[k].gen = IF ghb_table[k].index = ghb_head
                                           THEN Generation(ghb_wraps)
                                           ELSE ghb[ghb_table[k].index].gen
           link == IF prev # None /\ hits # {} /\ live THEN ghb_table[k].index ELSE None
           e == [next |-> link, delta |-> delta, gen |-> Generation(ghb_wraps), from |-> prev, when |-> ghb_wraps]
           t == [index |-> ghb_head, delta |-> prev, gen |-> Generation(ghb_wraps), when |-> ghb_wraps]
<1>a. GhbSize \in Nat /\ GhbSize > 1 /\ TableSize \in Nat \ {0}
  BY PfAssumption
<1>b. GhbTypes /\ ghb_head \in Indices /\ ghb_wraps \in Nat /\ ghb_tableHead \in TablePlaces
  BY DEF GhbInv, GhbTypes
<1>1. prevHead \in Indices /\ prev \in Int
  <2>1. prevHead \in Indices
    BY <1>a, <1>b DEF Indices
  <2> HIDE DEF prevHead
  <2>2. QED
    BY <1>b, <2>1 DEF GhbTypes
<1> HIDE DEF prevHead
<1>2. /\ ghb' = [ghb EXCEPT ![ghb_head] = e]
      /\ prev = None => ghb_table' = ghb_table /\ ghb_tableHead' = ghb_tableHead
      /\ prev # None => /\ ghb_table' = [ghb_table EXCEPT ![k] = t]
                        /\ ghb_tableHead' = IF hits # {} THEN ghb_tableHead ELSE (ghb_tableHead + 1) % TableSize
      /\ ghb_head' = (ghb_head + 1) % GhbSize
      /\ ghb_wraps' = IF ghb_head + 1 = GhbSize THEN ghb_wraps + 1 ELSE ghb_wraps
  BY DEF Record, prevHead
<1>3. hits \subseteq TablePlaces /\ k \in TablePlaces
  BY <1>b DEF TableHit, TablePlaces
<1>4. link \in Indices \cup {None}
  <2>1. ghb_table[k].index \in Indices \cup {None}
    BY <1>b, <1>3 DEF GhbTypes
  <2>2. QED
    BY <2>1
<1>5. Generation(ghb_wraps) \in 0..3
  BY <1>b DEF Generation
<1>6. prev # None => hits = {i \in TablePlaces : ghb_table[i].delta = prev}
  BY <1>1, HitOrAbsent
<1>7. hits # {} => k \in hits
  OBVIOUS
<1> HIDE DEF prev, hits, k, live, link
<1>8. ghb_head' = (IF ghb_head + 1 = GhbSize THEN 0 ELSE ghb_head + 1) /\ ghb_head' \in Indices
  <2>1. PICK n \in Nat : n = GhbSize
    BY <1>a
  <2>2. PICK h \in 0..n - 1 : h = ghb_head
    BY <1>b, <2>1 DEF Indices
  <2>3. (h + 1) % n = IF h + 1 = n THEN 0 ELSE h + 1
    BY <1>a, <2>1, <2>2
  <2>4. QED
    BY <1>2, <2>1, <2>2, <2>3 DEF Indices
<1>9. /\ ghb_tableHead' \in TablePlaces
      /\ (prev # None /\ hits = {}) => ghb_tableHead' = IF ghb_tableHead + 1 = TableSize THEN 0 ELSE ghb_tableHead + 1
  <2>1. PICK n \in Nat \ {0} : n = TableSize
    BY <1>a
  <2>2. PICK h \in 0..n - 1 : h = ghb_tableHead
    BY <1>b, <2>1 DEF TablePlaces
  <2>3. (h + 1) % n = IF h + 1 = n THEN 0 ELSE h + 1
    BY <2>1, <2>2
  <2>4. (h + 1) % n \in 0..n - 1
    BY <2>1, <2>2
  <2>5. QED
    BY <1>2, <1>b, <2>1, <2>2, <2>3, <2>4 DEF TablePlaces
<1>10. e \in [next : Indices \cup {None}, delta : Int, gen : 0..3, from : Int, when : Nat]
  BY <1>1, <1>4, <1>5, <1>b
<1>11. t \in [index : Indices \cup {None}, delta : Int, gen : 0..3, when : Nat]
  BY <1>1, <1>5, <1>b
<1>12. /\ e.when = ghb_wraps /\ e.gen = Generation(ghb_wraps) /\ e.from = prev
       /\ t.index = ghb_head /\ t.delta = prev /\ t.gen = Generation(ghb_wraps) /\ t.when = ghb_wraps
  OBVIOUS
<1> HIDE DEF e, t
<1>13. ghb_wraps' \in Nat
  BY <1>2, <1>b
<1>14. GhbTypes'
  <2>1. ghb' \in [Indices -> [next : Indices \cup {None}, delta : Int, gen : 0..3, from : Int, when : Nat]]
    BY <1>2, <1>b, <1>10 DEF GhbTypes
  <2>2. ghb_table' \in [TablePlaces -> [index : Indices \cup {None}, delta : Int, gen : 0..3, when : Nat]]
    BY <1>2, <1>b, <1>3, <1>11 DEF GhbTypes
  <2>3. QED
    BY <1>8, <1>9, <1>13, <2>1, <2>2 DEF GhbTypes, Indices, TablePlaces
<1>15. \A i \in Indices : i \in Nat /\ i < GhbSize
  BY <1>a DEF Indices
<1>16. \A i \in Indices : ghb'[i] = IF i = ghb_head THEN e ELSE ghb[i]
  BY <1>2, <1>b DEF GhbTypes
<1>17. Rounds'
  <2>1. SUFFICES ASSUME NEW i \in Indices
                 PROVE  /\ ghb'[i].when = IF i < ghb_head' THEN ghb_wraps'
                                          ELSE IF ghb_wraps' = 0 THEN 0 ELSE ghb_wraps' - 1
                        /\ ghb'[i].gen = Generation(ghb'[i].when)
    BY DEF Rounds, Indices, Generation
  <2>2. /\ ghb[i].when = IF i < ghb_head THEN ghb_wraps
                         ELSE IF ghb_wraps = 0 THEN 0 ELSE ghb_wraps - 1
        /\ ghb[i].gen = Generation(ghb[i].when)
    BY DEF GhbInv, Rounds
  <2>3. ghb'[i].gen = Generation(ghb'[i].when)
    BY <1>12, <1>16, <2>2
  <2>4. ghb'[i].when = IF i <= ghb_head THEN ghb_wraps
                       ELSE IF ghb_wraps = 0 THEN 0 ELSE ghb_wraps - 1
    BY <1>12, <1>15, <1>16, <1>b, <2>2
  <2>5. QED
    BY <1>2, <1>8, <1>15, <1>b, <2>3, <2>4
<1>18. TablePoints'
  <2>1. SUFFICES ASSUME NEW i \in TablePlaces, ghb_table'[i].index # None
                 PROVE  /\ ghb_table'[i].gen = Generation(ghb_table'[i].when)
                        /\ ghb_table'[i].when <= ghb_wraps'
                        /\ ghb_table'[i].when = ghb_wraps' => ghb_table'[i].index < ghb_head'
                        /\ ghb'[ghb_table'[i].index].when = ghb_table'[i].when
                             => ghb'[ghb_table'[i].index].from = ghb_table'[i].delta
    BY DEF TablePoints, Pointed, TablePlaces, Generation
  <2>2. CASE ghb_table'[i] = t
    BY <1>2, <1>8, <1>12, <1>16, <1>b, <1>15, <2>2
  <2>3. CASE ghb_table'[i] = ghb_table[i]
    <3>1. Pointed(ghb_table[i])
      BY DEF GhbInv, TablePoints
    <3>2. PICK u : u = ghb_table[i]
      OBVIOUS
    <3>3. u.index \in Indices /\ u.when \in Nat
      BY <1>b, <2>1, <2>3, <3>2 DEF GhbTypes
    <3>4. /\ u.gen = Generation(u.when) /\ u.when <= ghb_wraps
          /\ u.when = ghb_wraps => u.index < ghb_head
          /\ ghb[u.index].when = u.when => ghb[u.index].from = u.delta
      BY <2>1, <2>3, <3>1, <3>2 DEF Pointed
    <3>5. u.when <= ghb_wraps' /\ (u.when = ghb_wraps' => u.index < ghb_head')
      <4>1. /\ ghb_wraps \in Nat /\ u.when \in Nat /\ u.index \in Nat /\ ghb_head \in Nat
            /\ u.index < GhbSize
        BY <1>15, <1>b, <3>3
      <4>2. /\ ghb_wraps' = IF ghb_head + 1 = GhbSize THEN ghb_wraps + 1 ELSE ghb_wraps
            /\ ghb_head' = IF ghb_head + 1 = GhbSize THEN 0 ELSE ghb_head + 1
        BY <1>2, <1>8
      <4>3. u.when <= ghb_wraps /\ (u.when = ghb_wraps => u.index < ghb_head)
        BY <3>4
      <4>4. QED
        BY <4>1, <4>2, <4>3
    <3>6. ghb'[u.index].when = u.when => ghb'[u.index].from = u.delta
      BY <1>12, <1>15, <1>16, <1>b, <3>3, <3>4
    <3>7. QED
      BY <2>3, <3>2, <3>4, <3>5, <3>6
  <2>4. QED
    BY <1>2, <1>b, <2>2, <2>3 DEF GhbTypes
<1>19. OneEntryPerDelta'
  <2>1. \A i, j \in TablePlaces : ghb_table[i].delta = ghb_table[j].delta /\ ghb_table[i].delta # None => i = j
    BY DEF GhbInv, OneEntryPerDelta, TablePlaces
  <2>2. CASE prev = None
    BY <1>2, <2>1, <2>2 DEF OneEntryPerDelta, TablePlaces
  <2>3. CASE prev # None
    <3>1. \A i \in TablePlaces : ghb_table'[i] = IF i = k THEN t ELSE ghb_table[i]
      BY <1>2, <1>b, <2>3 DEF GhbTypes
    <3>2. \A i \in TablePlaces : ghb_table[i].delta = prev => i = k
      BY <1>6, <1>7, <2>1, <2>3
    <3>3. \A i, j \in TablePlaces : ghb_table'[i].delta = ghb_table'[j].delta /\ ghb_table'[i].delta # None => i = j
      BY <1>12, <2>1, <3>1, <3>2
    <3>4. QED
      BY <3>3 DEF OneEntryPerDelta, TablePlaces
  <2>4. QED
    BY <2>2, <2>3
<1>20. FrontUsed'
  <2>0. \A i \in TablePlaces : i \in Nat /\ i < TableSize
    BY <1>a DEF TablePlaces
  <2>1. FrontUsed
    BY DEF GhbInv
  <2>2. CASE prev = None
    BY <1>2, <2>1, <2>2 DEF FrontUsed, TablePlaces
  <2>3. CASE prev # None
    <3>1. \A i \in TablePlaces : ghb_table'[i] = IF i = k THEN t ELSE ghb_table[i]
      BY <1>2, <1>b, <2>3 DEF GhbTypes
    <3>2. SUFFICES ASSUME NEW x \in TablePlaces, ghb_table'[x].delta = None, NEW i \in TablePlaces
                   PROVE  ghb_table'[i].delta # None <=> i < ghb_tableHead'
      BY DEF FrontUsed, TablePlaces
    <3>3. x # k /\ ghb_table[x].delta = None
      BY <1>12, <2>3, <3>1, <3>2
    <3>4. \A j \in TablePlaces : ghb_table[j].delta # None <=> j < ghb_tableHead
      BY <2>1, <3>3 DEF FrontUsed
    <3>5. CASE hits # {}
      <4>1. ghb_table[k].delta = prev
        BY <1>6, <1>7, <2>3, <3>5
      <4>2. ghb_table'[i].delta # None <=> ghb_table[i].delta # None
        BY <1>12, <2>3, <3>1, <4>1
      <4>3. ghb_tableHead' = ghb_tableHead
        BY <1>2, <2>3, <3>5
      <4>4. QED
        BY <3>4, <4>2, <4>3
    <3>6. CASE hits = {}
      <4>1. k = ghb_tableHead
        BY <3>6 DEF k
      <4>2. x > ghb_tableHead
        BY <1>b, <2>0, <3>3, <3>4, <4>1
      <4>3. ghb_tableHead' = ghb_tableHead + 1
        BY <1>9, <1>b, <2>0, <2>3, <3>6, <4>2
      <4>4. ghb_table'[i].delta # None <=> (i = k \/ ghb_table[i].delta # None)
        BY <1>12, <2>3, <3>1
      <4>5. QED
        BY <1>b, <2>0, <3>4, <4>1, <4>3, <4>4
    <3>7. QED
      BY <3>5, <3>6
  <2>4. QED
    BY <2>2, <2>3
<1>21. QED
  BY <1>14, <1>17, <1>18, <1>19, <1>20 DEF GhbInv

(* A call that records nothing keeps it. *)
LEMMA GhbUnchanged ==
  ASSUME GhbInv, ghb' = ghb, ghb_head' = ghb_head, ghb_wraps' = ghb_wraps,
         ghb_table' = ghb_table, ghb_tableHead' = ghb_tableHead, ghb_last' \in PfAddresses \cup {None}
  PROVE  GhbInv'
<1>1. GhbTypes'
  BY DEF GhbInv, GhbTypes, Indices, TablePlaces
<1>2. Rounds'
  BY DEF GhbInv, Rounds, Indices, Generation
<1>3. TablePoints'
  BY DEF GhbInv, TablePoints, Pointed, TablePlaces, Generation
<1>4. FrontUsed' /\ OneEntryPerDelta'
  BY DEF GhbInv, FrontUsed, OneEntryPerDelta, TablePlaces
<1>5. QED
  BY <1>1, <1>2, <1>3, <1>4 DEF GhbInv

(* Every call of getNextAddress keeps it. *)
LEMMA PfNextInv ==
  ASSUME GhbInv, [PfNext]_<<ghbVars, flowVars>>
  PROVE  GhbInv'
<1>1. ASSUME NEW a \in PfAddresses, GhbNext(a) PROVE GhbInv'
  <2>1. ghb_last' = a
    BY <1>1 DEF GhbNext
  <2>2. CASE ghb_last = None
    BY <1>1, <2>1, <2>2, GhbUnchanged DEF GhbNext
  <2>3. CASE ghb_last # None
    <3>1. Record(a - ghb_last)
      BY <1>1, <2>3 DEF GhbNext
    <3>2. a - ghb_last \in Int
      BY <2>3, PfAssumption DEF GhbInv, GhbTypes
    <3>3. QED
      BY <2>1, <3>1, <3>2, RecordInv
  <2>4. QED
    BY <2>2, <2>3
<1>2. ASSUME UNCHANGED ghbVars PROVE GhbInv'
  BY <1>2, GhbUnchanged DEF ghbVars, GhbInv, GhbTypes
<1>3. QED
  BY <1>1, <1>2 DEF PfNext

(* The invariant gives the property: of two writes less than four rounds apart to *)
(* one place, the generations differ.                                             *)
LEMMA GhbInvHistory ==
  ASSUME GhbInv
  PROVE  HistoryCorrect
<1>1. PfTypeOK
  BY DEF GhbInv, GhbTypes, PfTypeOK, Indices, TablePlaces
<1>2. TableLeadsToDelta
  <2>1. SUFFICES ASSUME NEW i \in TablePlaces, Live(ghb_table[i]), ghb_wraps - ghb_table[i].when < 4
                 PROVE  ghb[ghb_table[i].index].from = ghb_table[i].delta
    BY DEF TableLeadsToDelta, TablePlaces
  <2>2. PICK t : t = ghb_table[i]
    OBVIOUS
  <2>3. t.index \in Indices /\ t.when \in Nat /\ ghb_wraps \in Nat
    BY <2>1, <2>2 DEF Live, GhbInv, GhbTypes
  <2>4. Pointed(t) /\ t.index # None
    BY <2>1, <2>2 DEF GhbInv, TablePoints, Live
  <2>5. PICK x \in Nat : x = ghb[t.index].when
    BY <2>3 DEF GhbInv, GhbTypes
  <2>6. x % 4 = t.when % 4
    BY <2>1, <2>2, <2>3, <2>4, <2>5 DEF Live, Pointed, GhbInv, Rounds, Generation
  <2>7. x = t.when
    <3>1. x = IF t.index < ghb_head THEN ghb_wraps ELSE IF ghb_wraps = 0 THEN 0 ELSE ghb_wraps - 1
      BY <2>3, <2>5 DEF GhbInv, Rounds
    <3>2. t.when <= ghb_wraps /\ (t.when = ghb_wraps => t.index < ghb_head)
      BY <2>4 DEF Pointed
    <3>3. ghb_wraps - t.when < 4
      BY <2>1, <2>2
    <3>4. PICK y \in Nat, w \in Nat : y = t.when /\ w = ghb_wraps
      BY <2>3
    <3>5. x % 4 = y % 4 /\ x <= w /\ x >= w - 1 /\ y <= w /\ w - y < 4 /\ (y = w => x = w)
      BY <2>3, <2>6, <3>1, <3>2, <3>3, <3>4
    <3>6. x = y
      BY ONLY <3>5, x \in Nat, y \in Nat, w \in Nat
    <3>7. QED
      BY <3>4, <3>6
  <2>8. QED
    BY <2>2, <2>4, <2>5, <2>7 DEF Pointed
<1>3. QED
  BY <1>1, <1>2 DEF HistoryCorrect, GhbInv

(* GhbInv is an invariant of the GHB prefetcher, whatever addresses are accessed *)
(* and however often the buffer wraps.                                           *)
THEOREM HistoryInvariant == PfSpec => []GhbInv
<1>1. PfInit => GhbInv
  BY PfInitInv
<1>2. GhbInv /\ [PfNext]_<<ghbVars, flowVars>> => GhbInv'
  BY PfNextInv
<1>3. QED
  BY <1>1, <1>2, PTL DEF PfSpec

(* Through every wrap of the buffer a table entry the code takes for live, less *)
(* than four wraps old, leads to a place where its delta occurred, no delta has *)
(* two entries and no index leaves its array (GhbPrefetcher::getNextAddress).   *)
THEOREM HistoryIsCorrect == PfSpec => []HistoryCorrect
<1>1. GhbInv => HistoryCorrect
  BY GhbInvHistory
<1>2. QED
  BY <1>1, HistoryInvariant, PTL
=============================================================================
