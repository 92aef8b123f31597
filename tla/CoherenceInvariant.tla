--------------------------- MODULE CoherenceInvariant -----------------------
(***************************************************************************)
(* The invariant of the directory protocol of module Coherence.            *)
(*                                                                         *)
(* It describes the protocol from one cache at a time: how the state of    *)
(* its line fits the messages on the way to and from it and what the       *)
(* directory believes and is doing.  What the caches have in common is     *)
(* only the directory entry.                                               *)
(***************************************************************************)
EXTENDS Coherence

\* A full-map directory entry (directory_type = full_map).
FullMap == IsFiniteSet(Caches) /\ Cardinality(Caches) <= MaxHwSharers

-----------------------------------------------------------------------------
(* The channel from a cache to the directory. *)

\* The messages with which a cache gives the line up.
GiveUps  == {"INV_REP", "FLUSH_REP"}
ToDirs   == CoreReqs \cup GiveUps \cup {"WB_REP"}

\* The types of message that may be sent while one of type t is on its way.
Followers(t) ==
  CASE t \in GiveUps               -> {"SH_REQ", "EX_REQ"}
    [] t \in {"SH_REQ", "EX_REQ"}  -> {}
    [] t = "UPGRADE_REQ"           -> GiveUps \cup {"WB_REP"}
    [] t = "WB_REP"                -> {"INV_REP", "SH_REQ", "EX_REQ", "UPGRADE_REQ"}
    [] OTHER                       -> {}

\* A channel holds each type at most once, in an order Followers allows.
Types(ch) == {ch[i].type : i \in DOMAIN ch}

InSequence(ch) ==
  \A i, j \in DOMAIN ch : i < j => ch[j].type \in Followers(ch[i].type)

-----------------------------------------------------------------------------
(* The channel from the directory to a cache: at most one demand that came *)
(* too late, then at most one reply, then at most one demand.              *)

Replies == {"EX_REP", "SH_REP", "UPGRADE_REP"}
Demands == {"INV_REQ", "FLUSH_REQ", "WB_REQ"}

\* The demand before the reply, the reply, and the demand behind it.
Ahead(ch)  == IF ch # <<>> /\ ch[1].type \in Demands THEN ch[1].type ELSE "none"
Reply(ch)  == IF ch # <<>> /\ ch[1].type \in Replies THEN ch[1].type
              ELSE IF Len(ch) >= 2 THEN ch[2].type ELSE "none"
Behind(ch) == IF ch # <<>> /\ ch[1].type \in Replies
              THEN IF Len(ch) >= 2 THEN ch[2].type ELSE "none"
              ELSE IF Len(ch) >= 3 THEN ch[3].type ELSE "none"

Inbox(ch) ==
  /\ Len(ch) <= 3
  /\ Len(ch) = 3 => ch[1].type \in Demands
  /\ Len(ch) >= 2 => IF ch[1].type \in Demands THEN ch[2].type \in Replies
                                              ELSE ch[2].type \in Demands
  /\ Len(ch) = 3 => ch[3].type \in Demands

-----------------------------------------------------------------------------
(* What the directory is doing.  A is the queue without a request that has *)
(* been answered, and b says that its head is being served.                *)

\* The requests of c in the queue.
Asked(A, c) == {A[i].type : i \in {j \in DOMAIN A : A[j].requester = c}}

\* The head's requester is listed as a sharer before it has the line.
Promised(A, c) == A # <<>> /\ A[1].requester = c /\ (A[1].wait \/ A[1].from # NoCache)

\* What the request at the head asks of cache c.
Demanded(e, A, b, c) ==
  IF ~b \/ A = <<>> \/ c \notin e.sharers \/ A[1].wait \/ A[1].requester = c THEN {}
  ELSE IF A[1].type = "SH_REQ"
  THEN IF e.dstate # "SHARED" \/ A[1].from = c THEN {"WB_REQ"} ELSE {}
  ELSE IF e.dstate # "SHARED" THEN {"FLUSH_REQ"}
  ELSE IF A[1].type = "UPGRADE_REQ" /\ A[1].requester \notin e.sharers
  THEN {"INV_REQ", "FLUSH_REQ"} ELSE {"INV_REQ"}

\* Whether the directory lists c, and whether c is due to get the line.
Listed(e, c) == IF c \in e.sharers THEN "yes" ELSE "no"
Due(A, c)    == IF Promised(A, c) THEN "yes" ELSE "no"

\* How a cache with its line in state s, whose first waiter is w, and which
\* is between two waiters if sv, fits the rest: X is on the way to the
\* directory, a, r and z on the way from it, Y in its queue; ds is the
\* directory's state of the line, held whether it lists the cache, dem what
\* it asks of the cache and prom whether it has promised it the line.
Fits(s, w, sv, X, a, r, z, Y, ds, held, dem, prom) ==
  LET gave    == X \cap GiveUps # {}
      granted == r \in {"EX_REP", "SH_REP"}
      reqs    == (X \cap CoreReqs) \cup Y
      lives(T) == z = T \/ (a = T /\ (s # "I" \/ gave))
  IN
  /\ prom \in {"yes", "no"}
  /\ s # "I" => r \in {"none", "UPGRADE_REP"}
  /\ r = "UPGRADE_REP" => s = "SU" /\ a = "none" /\ ds = "MODIFIED"
  /\ held = "yes" <=> s # "I" \/ gave \/ granted \/ prom = "yes"
  /\ s # "I" => ~gave /\ ~granted /\ prom = "no"
  /\ gave => ~granted /\ prom = "no"
  /\ granted => prom = "no"
  /\ r # "none" => reqs = {}
  /\ X \cap CoreReqs = {} \/ Y = {}
  /\ reqs # {} \/ r # "none" => w # "none" /\ ~sv
  /\ "SH_REQ" \in reqs \/ "EX_REQ" \in reqs => s = "I"
  /\ "SH_REQ" \in Y \/ "EX_REQ" \in Y => ~gave
  /\ "UPGRADE_REQ" \in reqs => /\ s \in {"SU", "I"}
                               /\ gave => dem \cap {"INV_REQ", "FLUSH_REQ"} # {}
  /\ "SH_REQ" \in reqs => w = "R"
  /\ "EX_REQ" \in reqs \/ "UPGRADE_REQ" \in reqs => w = "W"
  /\ r = "EX_REP" => ds \in {"EXCLUSIVE", "MODIFIED"} /\ (ds = "MODIFIED" => w = "W")
  /\ r = "SH_REP" => ds = "SHARED"
  /\ s = "E" => ds = "EXCLUSIVE"
  /\ s = "M" => ds \in {"EXCLUSIVE", "MODIFIED"}
  /\ s = "S" => ds = "SHARED" \/ "WB_REP" \in X
  /\ s = "SU" => /\ w = "W" /\ ~sv
                 /\ ds = "SHARED" \/ "WB_REP" \in X \/ r = "UPGRADE_REP"
  /\ sv => (w = "R" /\ s \in {"S", "E", "M"}) \/ (w = "W" /\ s = "M")
  /\ "INV_REP" \in X => ds \in {"SHARED", "EXCLUSIVE"} \/ "WB_REP" \in X
  /\ "FLUSH_REP" \in X => /\ "WB_REP" \notin X
                          /\ ds \in {"EXCLUSIVE", "MODIFIED"} \/ "FLUSH_REQ" \in dem
  /\ "WB_REP" \in X => /\ "WB_REQ" \in dem /\ s \notin {"E", "M"} /\ r = "none"
                       /\ \A T \in Demands : ~lives(T)
  /\ \A T \in Demands : lives(T) => T \in dem

-----------------------------------------------------------------------------
\* A request nobody has looked at.
Fresh(req) == /\ req.type \in CoreReqs /\ req.requester \in Caches
              /\ ~req.wait /\ req.from = NoCache

\* The request being served and the entry.
HeadOK(e, h) ==
  /\ h.requester = NoCache <=> h.type = "NULLIFY_REQ"
  /\ h.from # NoCache => h.type = "SH_REQ"
  /\ h.type = "SH_REQ" =>
       IF h.wait THEN h.requester \in e.sharers /\ e.dstate \in {"SHARED", "EXCLUSIVE"}
       ELSE IF h.from = NoCache
       THEN e.dstate \in {"EXCLUSIVE", "MODIFIED"} /\ h.requester \notin e.sharers
       ELSE h.requester \in e.sharers /\ e.dstate = "SHARED"
  /\ h.type = "EX_REQ" =>
       IF h.wait THEN e.dstate = "MODIFIED" /\ h.requester = e.owner
       ELSE e.dstate # "UNCACHED" /\ h.requester \notin e.sharers
  /\ h.type = "UPGRADE_REQ" =>
       IF h.wait THEN e.dstate = "MODIFIED" /\ h.requester = e.owner
       ELSE /\ e.sharers \ {h.requester} # {}
            /\ e.dstate # "SHARED" => h.requester \notin e.sharers
  /\ h.type = "NULLIFY_REQ" => ~h.wait /\ e.dstate # "UNCACHED"

\* The entry agrees with itself and with what is being served.
EntryOK(e, A, b) ==
  /\ e.sharers = {} <=> e.dstate = "UNCACHED"
  /\ e.dstate \in {"EXCLUSIVE", "MODIFIED"} => e.sharers = {e.owner}
  /\ e.where = "none" => e.dstate = "UNCACHED" /\ ~b
  /\ e.where = "replaced" => b /\ A[1].type = "NULLIFY_REQ"
  /\ Protocol = "MESIF" /\ e.dstate = "SHARED" => e.forwarder \in e.sharers \cup {NoCache}

\* Only the head has been looked at, and a cache has one request at a time.
QueueOK(e, A, b) ==
  /\ A \in Seq(Requests)
  /\ b => A # <<>> /\ HeadOK(e, A[1])
  /\ \A i \in DOMAIN A : ~(b /\ i = 1) => Fresh(A[i])
  /\ \A i, j \in DOMAIN A : A[i].requester = A[j].requester => i = j

\* At most one read, for the request being served, is out at DRAM.
MemoryOK(rd, fd, A, b) ==
  /\ \A i \in DOMAIN rd : rd[i].type = "WRITE" => rd[i].data \in Data
  /\ \A i, j \in DOMAIN rd : rd[i].type = "READ" /\ rd[j].type = "READ" => i = j
  /\ Len(fd) <= 1
  /\ (fd # <<>> \/ \E i \in DOMAIN rd : rd[i].type = "READ") => b /\ A[1].wait
  /\ fd # <<>> => \A i \in DOMAIN rd : rd[i].type # "READ"

First(ws) == IF ws = <<>> THEN "none" ELSE Head(ws)

\* Cache c and its channels, with the directory serving A from entry e.
CacheOK(c, cst, ws, sv, td, tc, e, A, b) ==
  /\ InSequence(td[c]) /\ Inbox(tc[c])
  /\ Fits(cst[c], First(ws[c]), sv[c], Types(td[c]), Ahead(tc[c]), Reply(tc[c]),
          Behind(tc[c]), Asked(A, c), e.dstate, Listed(e, c),
          Demanded(e, A, b, c), Due(A, c))

CachesOK(cst, ws, sv, td, tc, e, A, b) ==
  \A c \in Caches : CacheOK(c, cst, ws, sv, td, tc, e, A, b)

\* The requests not yet answered, and whether the first is being served.
Pending == IF next THEN Tail(queue) ELSE queue
Busy == ~next /\ queue # <<>>

\* Messages that are to carry the line carry it.
FlushData(ch) ==
  \A i \in DOMAIN ch : ch[i].type \in {"FLUSH_REP", "WB_REP"} => ch[i].data \in Data
ReplyData(ch) ==
  \A i \in DOMAIN ch : ch[i].type \in {"EX_REP", "SH_REP"} => ch[i].data \in Data

DataOK == \A c \in Caches : FlushData(toDir[c]) /\ ReplyData(toCache[c])

\* The inductive invariant.
CoherenceInv ==
  /\ TypeOK /\ DataOK
  /\ next => queue # <<>>
  /\ EntryOK(entry, Pending, Busy) /\ QueueOK(entry, Pending, Busy)
  /\ MemoryOK(toDram, fromDram, Pending, Busy)
  /\ CachesOK(cstate, waiters, serving, toDir, toCache, entry, Pending, Busy)
=============================================================================
