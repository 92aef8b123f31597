----------------------------- MODULE Coherence -----------------------------
(***************************************************************************)
(* The directory protocol that keeps one cache line coherent between the   *)
(* last-level caches (parametric_dram_directory_msi/cache_cntlr.cc), its   *)
(* home directory (pr_l1_pr_l2_dram_directory_msi/dram_directory_cntlr.cc) *)
(* and its DRAM controller, for the variants MSI, MESI and MESIF.          *)
(*                                                                         *)
(* A last-level cache stands for the whole inclusive stack above it: every *)
(* step below holds the set's stack lock (module SetLock).  Other lines of *)
(* the same set appear only through what they do to this one: a fill of    *)
(* another line evicts it, an allocation for another line takes its        *)
(* directory entry.  Messages travel through one FIFO inbox per core       *)
(* (SmTransport), of which each pair of components sees a FIFO channel.    *)
(***************************************************************************)
EXTENDS Integers, Sequences, FiniteSets

CONSTANTS Caches,          \* last-level caches
          Protocol,        \* "MSI", "MESI" or "MESIF"
          MaxHwSharers,    \* sharers a directory entry can name
          Values,          \* contents of the line
          Garbage,         \* contents of a buffer nobody filled, or of a freed one
          NoData,          \* a NULL data buffer
          NoCache,         \* INVALID_CORE_ID
          Uninit,          \* a directory field no constructor sets
          MaxQueued,       \* bound: accesses that wait on the line at one cache
          MaxWaiters,      \* bound: accesses that wait on the line at all caches
          MaxDramMsgs      \* bound: messages in flight to the DRAM controller

ASSUME CoherenceAssumption ==
  /\ Protocol \in {"MSI", "MESI", "MESIF"}
  /\ MaxHwSharers \in Nat \ {0}
  /\ MaxQueued \in Nat \ {0} /\ MaxWaiters \in Nat \ {0}
  /\ MaxDramMsgs \in Nat \ {0}
  /\ NoCache \notin Caches /\ Uninit \notin Caches /\ NoCache # Uninit
  /\ Garbage \notin Values /\ NoData \notin Values \cup {Garbage}
  /\ Values # {}

Data == Values \cup {Garbage}

VARIABLES
  cstate,     \* CacheState of the line in each cache
  cdata,      \* its contents there
  waiters,    \* m_directory_waiters: accesses that missed, in order
  serving,    \* the cache's network thread is between two of its waiters
  entry,      \* the directory entry of the line
  queue,      \* m_dram_directory_req_queue_list for the line
  next,       \* the directory is about to run processNextReqFromL2Cache
  toDir,      \* cache -> directory
  toCache,    \* directory -> cache
  toDram,     \* directory -> DRAM controller
  fromDram,   \* DRAM controller -> directory
  dram,       \* contents of the line in DRAM
  latest      \* the last value any core wrote

cacheVars == <<cstate, cdata, waiters, serving>>
dirVars   == <<entry, queue, next>>
memVars   == <<toDram, fromDram, dram>>
vars == <<cstate, cdata, waiters, serving, entry, queue, next,
          toDir, toCache, toDram, fromDram, dram, latest>>

CStates  == {"I", "S", "SU", "E", "M"}       \* SU: SHARED_UPGRADING
DStates  == {"UNCACHED", "SHARED", "EXCLUSIVE", "MODIFIED"}
Accesses == {"R", "W"}                       \* READ; READ_EX or WRITE
CoreReqs == {"SH_REQ", "EX_REQ", "UPGRADE_REQ"}

Msg(type, data) == [type |-> type, data |-> data]

CacheMsgs == [type : CoreReqs \cup {"INV_REP", "FLUSH_REP", "WB_REP"},
              data : Data \cup {NoData}]
DirMsgs   == [type : {"EX_REP", "SH_REP", "UPGRADE_REP", "INV_REQ", "FLUSH_REQ", "WB_REQ"},
              data : Data \cup {NoData}]
DramMsgs  == [type : {"READ", "WRITE"}, data : Data \cup {NoData}]

\* where: "set" in the directory set, "replaced" on the list of replaced
\* entries, "none" not allocated.
Entries == [where : {"set", "replaced", "none"}, dstate : DStates,
            sharers : SUBSET Caches, owner : Caches \cup {NoCache},
            forwarder : Caches \cup {NoCache, Uninit}]

\* ShmemReq: wait is m_wait_for_data, from m_forwarding_from, data the
\* buffer of its message.
Requests == [type : CoreReqs \cup {"NULLIFY_REQ"}, requester : Caches \cup {NoCache},
             wait : BOOLEAN, from : Caches \cup {NoCache}, data : Data \cup {NoData}]

\* The type invariant: DState, CState and message contents as the code types them.
TypeOK ==
  /\ cstate \in [Caches -> CStates]
  /\ cdata \in [Caches -> Data]
  /\ waiters \in [Caches -> Seq(Accesses)]
  /\ serving \in [Caches -> BOOLEAN]
  /\ entry \in Entries
  /\ queue \in Seq(Requests)
  /\ next \in BOOLEAN
  /\ toDir \in [Caches -> Seq(CacheMsgs)]
  /\ toCache \in [Caches -> Seq(DirMsgs)]
  /\ toDram \in Seq(DramMsgs)
  /\ fromDram \in Seq(Data)
  /\ dram \in Data
  /\ latest \in Values

NoEntry    == [where |-> "none", dstate |-> "UNCACHED", sharers |-> {},
               owner |-> NoCache, forwarder |-> Uninit]
FreshEntry == [NoEntry EXCEPT !.where = "set"]

Init ==
  /\ cstate = [c \in Caches |-> "I"]
  /\ cdata = [c \in Caches |-> Garbage]
  /\ waiters = [c \in Caches |-> <<>>]
  /\ serving = [c \in Caches |-> FALSE]
  /\ entry = NoEntry
  /\ queue = <<>>
  /\ next = FALSE
  /\ toDir = [c \in Caches |-> <<>>]
  /\ toCache = [c \in Caches |-> <<>>]
  /\ toDram = <<>>
  /\ fromDram = <<>>
  /\ dram \in Values
  /\ latest = dram

-----------------------------------------------------------------------------
(* The directory.  A handler turns the entry and the queue into a reply    *)
(* record: the new entry and queue, what it sends to each cache and to     *)
(* DRAM, and whether it ends by running processNextReqFromL2Cache.         *)

Quiet(e, q) == [entry |-> e, queue |-> q, out |-> [c \in Caches |-> <<>>],
                mem |-> <<>>, next |-> FALSE]

SendTo(S, m, e, q) ==
  [Quiet(e, q) EXCEPT !.out = [c \in Caches |-> IF c \in S THEN <<m>> ELSE <<>>]]

\* The two forms a reply with data takes: at once, or when DRAM answers.
ReplyNow(type, c, data, e, q) ==
  [SendTo({c}, Msg(type, data), e, q) EXCEPT !.next = TRUE]

MayForward(e, req) == /\ Protocol = "MESIF"
                      /\ req.from = NoCache
                      /\ e.dstate = "SHARED"
                      /\ e.forwarder # NoCache

RetrieveDataAndSend(type, c, data, e, q) ==
  LET req == Head(q)
      forward == <<[req EXCEPT !.from = e.forwarder]>> \o Tail(q)
      fetch   == <<[req EXCEPT !.wait = TRUE]>> \o Tail(q)
  IN  IF data # NoData
      THEN ReplyNow(type, c, data, [e EXCEPT !.forwarder = c], q)
      ELSE IF MayForward(e, req)
      THEN SendTo({e.forwarder}, Msg("WB_REQ", NoData), e, forward)
      ELSE [Quiet(e, fetch) EXCEPT !.mem = <<Msg("READ", NoData)>>]

\* addSharer, setOwner and the new state of a line nobody holds.
Claim(e, c, dstate) ==
  [e EXCEPT !.sharers = @ \cup {c}, !.owner = c, !.dstate = dstate]

\* getDirectoryEntry, or processDirectoryEntryAllocationReq if there is none.
Allocated(e) == IF e.where = "none" THEN FreshEntry ELSE e

ProcessExReq(e0, q, data) ==
  LET e == Allocated(e0)
      c == Head(q).requester
  IN  CASE e.dstate \in {"EXCLUSIVE", "MODIFIED"} ->
             SendTo({e.owner}, Msg("FLUSH_REQ", NoData), e, q)
        [] e.dstate = "SHARED" ->
             SendTo(e.sharers, Msg("INV_REQ", NoData), e, q)
        [] e.dstate = "UNCACHED" ->
             RetrieveDataAndSend("EX_REP", c, data, Claim(e, c, "MODIFIED"), q)

\* Mutant: addSharer takes one sharer too many.
ShReqOverfills(e0, q, data, victim) ==
  LET e == Allocated(e0)
      c == Head(q).requester
  IN  CASE e.dstate \in {"EXCLUSIVE", "MODIFIED"} ->
             SendTo({e.owner}, Msg("WB_REQ", NoData), e, q)
        [] e.dstate = "SHARED" ->
             RetrieveDataAndSend("SH_REP", c, data, [e EXCEPT !.sharers = @ \cup {c}], q)
        [] e.dstate = "UNCACHED" ->
             RetrieveDataAndSend("EX_REP", c, data, Claim(e, c, "EXCLUSIVE"), q)

\* victim is the sharer that getOneSharer draws when the entry is full.
ProcessShReq(e0, q, data, victim) ==
  LET e == Allocated(e0)
      c == Head(q).requester
  IN  CASE e.dstate \in {"EXCLUSIVE", "MODIFIED"} ->
             SendTo({e.owner}, Msg("WB_REQ", NoData), e, q)
        [] e.dstate = "SHARED" /\ c \in e.sharers ->
             RetrieveDataAndSend("SH_REP", c, data, e, q)
        [] e.dstate = "SHARED" /\ c \notin e.sharers ->
             IF Cardinality(e.sharers) >= MaxHwSharers
             THEN SendTo({victim}, Msg("INV_REQ", NoData), e, q)
             ELSE RetrieveDataAndSend("SH_REP", c, data,
                                      [e EXCEPT !.sharers = @ \cup {c}], q)
        [] e.dstate = "UNCACHED" ->
             IF Protocol = "MSI"
             THEN RetrieveDataAndSend("SH_REP", c, data, Claim(e, c, "SHARED"), q)
             ELSE RetrieveDataAndSend("EX_REP", c, data, Claim(e, c, "EXCLUSIVE"), q)

\* Mutant: an upgrade is granted while other sharers keep their copies.
UpgradeWithoutInv(e0, q, data, first) ==
  LET e == Allocated(e0)
      c == Head(q).requester
  IN  CASE c \in e.sharers ->
             ReplyNow("UPGRADE_REP", c, NoData, Claim(e, c, "MODIFIED"), q)
        [] c \notin e.sharers /\ e.dstate # "UNCACHED" ->
             SendTo(e.sharers, Msg("FLUSH_REQ", NoData), e, q)
        [] e.dstate = "UNCACHED" ->
             RetrieveDataAndSend("EX_REP", c, data, Claim(e, c, "MODIFIED"), q)

\* first is the sharer at the head of getSharersList: it is flushed rather
\* than invalidated when the requester has lost its copy.
ProcessUpgradeReq(e0, q, data, first) ==
  LET e == Allocated(e0)
      c == Head(q).requester
      granted == ReplyNow("UPGRADE_REP", c, NoData, Claim(e, c, "MODIFIED"), q)
      others  == [d \in Caches |->
                    IF d \notin e.sharers \ {c} THEN <<>>
                    ELSE IF c \notin e.sharers /\ d = first
                         THEN <<Msg("FLUSH_REQ", NoData)>>
                         ELSE <<Msg("INV_REQ", NoData)>>]
  IN  CASE e.dstate \in {"EXCLUSIVE", "MODIFIED"} ->
             IF c \in e.sharers THEN granted
             ELSE SendTo({e.owner}, Msg("FLUSH_REQ", NoData), e, q)
        [] e.dstate = "SHARED" ->
             IF e.sharers = {c} THEN granted
             ELSE [Quiet(e, q) EXCEPT !.out = others]
        [] e.dstate = "UNCACHED" ->
             RetrieveDataAndSend("EX_REP", c, IF data = NoData THEN Head(q).data ELSE data,
                                 Claim(e, c, "MODIFIED"), q)

ProcessNullifyReq(e, q) ==
  CASE e.dstate \in {"EXCLUSIVE", "MODIFIED"} ->
         SendTo({e.owner}, Msg("FLUSH_REQ", NoData), e, q)
    [] e.dstate = "SHARED" ->
         SendTo(e.sharers, Msg("INV_REQ", NoData), e, q)
    [] e.dstate = "UNCACHED" ->
         [Quiet(NoEntry, q) EXCEPT !.next = TRUE]

\* Process the request at the head of the queue, with the data a cache gave
\* back for it, if any.  pick resolves the choice of a sharer.
ProcessHead(e, q, data, pick) ==
  CASE Head(q).type = "EX_REQ"      -> ProcessExReq(e, q, data)
    [] Head(q).type = "SH_REQ"      -> ProcessShReq(e, q, data, pick)
    [] Head(q).type = "UPGRADE_REQ" -> ProcessUpgradeReq(e, q, data, pick)
    [] Head(q).type = "NULLIFY_REQ" -> ProcessNullifyReq(e, q)

\* The sharers getOneSharer and getSharersList may put first.
Picks(e) == IF e.sharers = {} THEN {NoCache} ELSE e.sharers

\* Carry out a reply record.  The directory never waits for DRAM in the
\* code; the bound only keeps the channel finite.
Perform(r) ==
  /\ Len(toDram) + Len(r.mem) <= MaxDramMsgs
  /\ entry' = r.entry
  /\ queue' = r.queue
  /\ next' = r.next
  /\ toCache' = [c \in Caches |-> toCache[c] \o r.out[c]]
  /\ toDram' = toDram \o r.mem

WriteDramFirst(data, r) == [r EXCEPT !.mem = <<Msg("WRITE", data)>> \o @]

Receive(c) == toDir' = [toDir EXCEPT ![c] = Tail(@)]
DirGets(c, type) == ~next /\ toDir[c] # <<>> /\ Head(toDir[c]).type = type

-----------------------------------------------------------------------------
\* handleMsgFromL2Cache, requests: queue the request, and process it unless
\* an earlier one is still being served.
DirHandleReq(c) ==
  \E type \in CoreReqs :
    /\ DirGets(c, type)
    /\ Receive(c)
    /\ LET req == [type |-> type, requester |-> c, wait |-> FALSE,
                   from |-> NoCache, data |-> NoData]
           q == Append(queue, req)
       IN  IF Len(q) = 1
           THEN \E pick \in Picks(entry) : Perform(ProcessHead(entry, q, NoData, pick))
           ELSE Perform(Quiet(entry, q))
    /\ UNCHANGED <<cacheVars, fromDram, dram, latest>>

\* processNextReqFromL2Cache: the directory's thread is still inside the
\* handler that completed a request and does nothing else before this.
DirNext ==
  /\ next
  /\ LET q == Tail(queue)
     IN  IF q = <<>> THEN Perform(Quiet(entry, q))
         ELSE \E pick \in Picks(entry) : Perform(ProcessHead(entry, q, NoData, pick))
  /\ UNCHANGED <<cacheVars, toDir, fromDram, dram, latest>>

\* Mutant: a voluntary invalidate wakes a request that waits for its data.
WokenByAnyInv(e, sender) ==
  CASE Head(queue).type \in {"EX_REQ", "NULLIFY_REQ"} -> e.dstate = "UNCACHED"
    [] Head(queue).type = "UPGRADE_REQ" -> e.sharers \subseteq {Head(queue).requester}
    [] Head(queue).type = "SH_REQ" -> TRUE

\* Whether the request at the head of the queue goes on when a sharer of
\* entry e has given up its copy without data.
WokenByInv(e, sender) ==
  LET req == Head(queue)
  IN  CASE req.type = "EX_REQ"      -> e.dstate = "UNCACHED"
        [] req.type = "NULLIFY_REQ" -> e.dstate = "UNCACHED"
        [] req.type = "UPGRADE_REQ" -> e.sharers \subseteq {req.requester}
        [] req.type = "SH_REQ"      -> /\ ~req.wait
                                       /\ req.from \in {NoCache, sender}

\* Mutant: a cache that gave up its copy stays the forwarder.
InvRepKeepsForwarder(c) ==
  /\ DirGets(c, "INV_REP")
  /\ Receive(c)
  /\ LET rest == entry.sharers \ {c}
         e == [entry EXCEPT !.sharers = rest,
                            !.dstate = IF rest = {} THEN "UNCACHED" ELSE @]
     IN  IF queue # <<>> /\ WokenByInv(e, c)
         THEN \E pick \in Picks(e) : Perform(ProcessHead(e, queue, NoData, pick))
         ELSE Perform(Quiet(e, queue))
  /\ UNCHANGED <<cacheVars, fromDram, dram, latest>>

DirHandleInvRep(c) ==
  /\ DirGets(c, "INV_REP")
  /\ Receive(c)
  /\ LET rest == entry.sharers \ {c}
         e == [entry EXCEPT !.sharers = rest,
                            !.forwarder = IF @ = c THEN NoCache ELSE @,
                            !.dstate = IF rest = {} THEN "UNCACHED" ELSE @]
     IN  IF queue # <<>> /\ WokenByInv(e, c)
         THEN \E pick \in Picks(e) : Perform(ProcessHead(e, queue, NoData, pick))
         ELSE Perform(Quiet(e, queue))
  /\ UNCHANGED <<cacheVars, fromDram, dram, latest>>

DirHandleFlushRep(c) ==
  /\ DirGets(c, "FLUSH_REP")
  /\ Receive(c)
  /\ LET data == Head(toDir[c]).data
         rest == entry.sharers \ {c}
         e == [entry EXCEPT !.sharers = rest, !.forwarder = NoCache, !.owner = NoCache,
                            !.dstate = IF rest = {} THEN "UNCACHED" ELSE @]
         \* The request keeps a pointer to the message's buffer, which is
         \* deleted when this handler returns.
         kept == <<[Head(queue) EXCEPT !.data = Garbage]>> \o Tail(queue)
     IN  IF queue = <<>>
         THEN Perform(WriteDramFirst(data, Quiet(e, queue)))
         ELSE \E pick \in Picks(e) :
                CASE Head(queue).type = "EX_REQ" ->
                       Perform(ProcessHead(e, queue, data, pick))
                  [] Head(queue).type \in {"SH_REQ", "NULLIFY_REQ"} ->
                       Perform(WriteDramFirst(data, ProcessHead(e, queue, data, pick)))
                  [] Head(queue).type = "UPGRADE_REQ" ->
                       IF rest = {} THEN Perform(ProcessHead(e, queue, data, pick))
                                    ELSE Perform(Quiet(e, kept))
  /\ UNCHANGED <<cacheVars, fromDram, dram, latest>>

\* The written-back data goes to the requester only.
DirHandleWbRep(c) ==
  /\ DirGets(c, "WB_REP")
  /\ Receive(c)
  /\ queue # <<>>
  /\ LET e == [entry EXCEPT !.owner = NoCache, !.dstate = "SHARED"]
     IN  \E pick \in Picks(e) :
           Perform(ProcessHead(e, queue, Head(toDir[c]).data, pick))
  /\ UNCHANGED <<cacheVars, fromDram, dram, latest>>

\* Mutant: the reply is sent without the data that DRAM returned.
DramReplyWithoutData ==
  /\ ~next
  /\ fromDram # <<>>
  /\ fromDram' = Tail(fromDram)
  /\ Perform(ReplyNow("EX_REP", Head(queue).requester, NoData, entry, queue))
  /\ UNCHANGED <<cacheVars, toDir, dram, latest>>

DirHandleDramReply ==
  /\ ~next
  /\ fromDram # <<>>
  /\ fromDram' = Tail(fromDram)
  /\ LET type == IF Head(queue).type = "SH_REQ" /\ entry.dstate = "SHARED"
                 THEN "SH_REP" ELSE "EX_REP"
     IN  Perform(ReplyNow(type, Head(queue).requester, Head(fromDram), entry, queue))
  /\ UNCHANGED <<cacheVars, toDir, dram, latest>>

\* An allocation for another line of the set takes this line's entry, which
\* must have no request outstanding.
DirReplaceEntry ==
  /\ ~next
  /\ entry.where = "set"
  /\ queue = <<>>
  /\ LET req == [type |-> "NULLIFY_REQ", requester |-> NoCache, wait |-> FALSE,
                 from |-> NoCache, data |-> NoData]
     IN  Perform(ProcessNullifyReq([entry EXCEPT !.where = "replaced"], <<req>>))
  /\ UNCHANGED <<cacheVars, toDir, fromDram, dram, latest>>

-----------------------------------------------------------------------------
(* The DRAM controller. *)

DramHandle ==
  /\ toDram # <<>>
  /\ toDram' = Tail(toDram)
  /\ LET m == Head(toDram)
     IN  IF m.type = "READ"
         THEN fromDram' = Append(fromDram, dram) /\ UNCHANGED dram
         ELSE dram' = m.data /\ UNCHANGED fromDram
  /\ UNCHANGED <<cacheVars, dirVars, toDir, toCache, latest>>

-----------------------------------------------------------------------------
(* A last-level cache. *)

Readable(s) == s \in {"S", "E", "M"}
Writable(s) == s = "M"

Send(c, m) == toDir' = [toDir EXCEPT ![c] = Append(@, m)]

\* A store that hits: MODIFIED, or EXCLUSIVE, which is upgraded silently.
WriteHit(c) ==
  /\ cstate[c] \in {"E", "M"}
  /\ cstate' = [cstate EXCEPT ![c] = "M"]
  /\ \E v \in Values : cdata' = [cdata EXCEPT ![c] = v] /\ latest' = v
  /\ UNCHANGED <<waiters, serving, dirVars, memVars, toDir, toCache>>

\* The message the first waiter sends: UPGRADE_REQ needs a SHARED line.
MissRequest(c, a) == IF a = "R" THEN "SH_REQ"
                     ELSE IF cstate[c] = "S" THEN "UPGRADE_REQ" ELSE "EX_REQ"

NumWaiters == Cardinality(UNION {{c} \X DOMAIN waiters[c] : c \in Caches})

\* initiateDirectoryAccess: only the first waiter sends a request.
Miss(c, a) ==
  /\ IF a = "R" THEN ~Readable(cstate[c]) ELSE cstate[c] \notin {"E", "M"}
  /\ Len(waiters[c]) < MaxQueued /\ NumWaiters < MaxWaiters
  /\ waiters' = [waiters EXCEPT ![c] = Append(@, a)]
  /\ IF waiters[c] = <<>>
     THEN /\ Send(c, Msg(MissRequest(c, a), NoData))
          /\ cstate' = [cstate EXCEPT ![c] = IF MissRequest(c, a) = "UPGRADE_REQ"
                                             THEN "SU" ELSE @]
     ELSE UNCHANGED <<toDir, cstate>>
  /\ UNCHANGED <<cdata, serving, dirVars, memVars, toCache, latest>>

\* The loop over m_directory_waiters, entered with the line in state s with
\* contents d: upgrade on behalf of the first waiter, or pass the stack lock
\* to its user thread, which completes the access.
ServeFirst(c, ws, s, d) ==
  /\ waiters' = [waiters EXCEPT ![c] = ws]
  /\ \/ /\ ws = <<>>
        /\ serving' = [serving EXCEPT ![c] = FALSE]
        /\ cstate' = [cstate EXCEPT ![c] = s]
        /\ cdata' = [cdata EXCEPT ![c] = d]
        /\ UNCHANGED <<toDir, latest>>
     \/ /\ ws # <<>> /\ Head(ws) = "W" /\ s = "S"
        /\ Send(c, Msg("UPGRADE_REQ", NoData))
        /\ serving' = [serving EXCEPT ![c] = FALSE]
        /\ cstate' = [cstate EXCEPT ![c] = "SU"]
        /\ cdata' = [cdata EXCEPT ![c] = d]
        /\ UNCHANGED latest
     \/ /\ ws # <<>> /\ Head(ws) = "R"
        /\ serving' = [serving EXCEPT ![c] = TRUE]
        /\ cstate' = [cstate EXCEPT ![c] = s]
        /\ cdata' = [cdata EXCEPT ![c] = d]
        /\ UNCHANGED <<toDir, latest>>
     \/ /\ ws # <<>> /\ Head(ws) = "W" /\ s # "S"
        /\ serving' = [serving EXCEPT ![c] = TRUE]
        /\ cstate' = [cstate EXCEPT ![c] = "M"]
        /\ \E v \in Values : cdata' = [cdata EXCEPT ![c] = v] /\ latest' = v
        /\ UNCHANGED toDir

CacheGets(c, types) == /\ ~serving[c]
                       /\ toCache[c] # <<>>
                       /\ Head(toCache[c]).type \in types
CacheReceive(c) == toCache' = [toCache EXCEPT ![c] = Tail(@)]

\* processExRep, processShRep, processUpgradeRep and the waiters loop.
CacheHandleReply(c) ==
  /\ CacheGets(c, {"EX_REP", "SH_REP", "UPGRADE_REP"})
  /\ CacheReceive(c)
  /\ LET m == Head(toCache[c])
         s == CASE m.type = "EX_REP" -> "E"
                [] m.type = "SH_REP" -> "S"
                [] m.type = "UPGRADE_REP" -> "M"
     IN  ServeFirst(c, waiters[c], s, IF m.type = "UPGRADE_REP" THEN cdata[c] ELSE m.data)
  /\ UNCHANGED <<dirVars, memVars>>

\* Mutant: the waiter that was served stays in the queue.
ServeSameWaiter(c) ==
  /\ serving[c]
  /\ ServeFirst(c, waiters[c], cstate[c], cdata[c])
  /\ UNCHANGED <<dirVars, memVars, toCache>>

\* The user thread is done and the network thread has the stack lock back.
CacheServeNext(c) ==
  /\ serving[c]
  /\ ServeFirst(c, Tail(waiters[c]), cstate[c], cdata[c])
  /\ UNCHANGED <<dirVars, memVars, toCache>>

\* A request for a line that is gone is ignored: the eviction message that
\* answers it is on its way.
CacheHandleInvReq(c) ==
  /\ CacheGets(c, {"INV_REQ"})
  /\ CacheReceive(c)
  /\ IF cstate[c] = "I" THEN UNCHANGED <<cstate, toDir>>
     ELSE /\ cstate' = [cstate EXCEPT ![c] = "I"]
          /\ Send(c, Msg("INV_REP", NoData))
  /\ UNCHANGED <<cdata, waiters, serving, dirVars, memVars, latest>>

CacheHandleFlushReq(c) ==
  /\ CacheGets(c, {"FLUSH_REQ"})
  /\ CacheReceive(c)
  /\ IF cstate[c] = "I" THEN UNCHANGED <<cstate, toDir>>
     ELSE /\ cstate' = [cstate EXCEPT ![c] = "I"]
          /\ Send(c, Msg("FLUSH_REP", cdata[c]))
  /\ UNCHANGED <<cdata, waiters, serving, dirVars, memVars, latest>>

\* Mutant: the line is written back but not downgraded.
WbReqKeepsState(c) ==
  /\ CacheGets(c, {"WB_REQ"})
  /\ CacheReceive(c)
  /\ IF cstate[c] = "I" THEN UNCHANGED toDir
     ELSE Send(c, Msg("WB_REP", cdata[c]))
  /\ UNCHANGED <<cacheVars, dirVars, memVars, latest>>

\* A line that is being upgraded keeps its state, and its data is not
\* copied into the reply.
CacheHandleWbReq(c) ==
  /\ CacheGets(c, {"WB_REQ"})
  /\ CacheReceive(c)
  /\ IF cstate[c] = "I" THEN UNCHANGED <<cstate, toDir>>
     ELSE /\ cstate' = [cstate EXCEPT ![c] = IF @ = "SU" THEN @ ELSE "S"]
          /\ Send(c, Msg("WB_REP", IF cstate[c] = "SU" THEN Garbage ELSE cdata[c]))
  /\ UNCHANGED <<cdata, waiters, serving, dirVars, memVars, latest>>

\* Mutant: a line that is being upgraded may be chosen as the victim.
EvictUpgrading(c) ==
  /\ ~serving[c]
  /\ cstate[c] # "I"
  /\ cstate' = [cstate EXCEPT ![c] = "I"]
  /\ Send(c, IF cstate[c] = "M" THEN Msg("FLUSH_REP", cdata[c]) ELSE Msg("INV_REP", NoData))
  /\ UNCHANGED <<cdata, waiters, serving, dirVars, memVars, toCache, latest>>

\* Mutant: a dirty line is evicted without its data.
EvictWithoutData(c) ==
  /\ ~serving[c]
  /\ cstate[c] \in {"S", "E", "M"}
  /\ cstate' = [cstate EXCEPT ![c] = "I"]
  /\ Send(c, Msg("INV_REP", NoData))
  /\ UNCHANGED <<cdata, waiters, serving, dirVars, memVars, toCache, latest>>

\* The network thread fills another line of the set and evicts this one.
CacheEvict(c) ==
  /\ ~serving[c]
  /\ cstate[c] \in {"S", "E", "M"}
  /\ cstate' = [cstate EXCEPT ![c] = "I"]
  /\ Send(c, IF cstate[c] = "M" THEN Msg("FLUSH_REP", cdata[c]) ELSE Msg("INV_REP", NoData))
  /\ UNCHANGED <<cdata, waiters, serving, dirVars, memVars, toCache, latest>>

-----------------------------------------------------------------------------
DirFrom(c) == \/ DirHandleReq(c) \/ DirHandleInvRep(c)
              \/ DirHandleFlushRep(c) \/ DirHandleWbRep(c)

CacheStep(c) == \/ CacheHandleReply(c) \/ CacheServeNext(c)
                \/ CacheHandleInvReq(c) \/ CacheHandleFlushReq(c) \/ CacheHandleWbReq(c)

Environment == \/ DirReplaceEntry
               \/ \E c \in Caches : WriteHit(c) \/ CacheEvict(c)
               \/ \E c \in Caches, a \in Accesses : Miss(c, a)

Next == \/ \E c \in Caches : DirFrom(c) \/ CacheStep(c)
        \/ DirNext \/ DirHandleDramReply
        \/ DramHandle
        \/ Environment

\* A node's network thread takes the messages of all senders from one FIFO
\* inbox, so each message gets its turn however many others arrive: strong
\* fairness for each channel into the directory.  Nothing makes a core access
\* memory, a line be evicted or an entry be replaced.
Fairness == /\ WF_vars(DirNext)
            /\ SF_vars(DirHandleDramReply)
            /\ WF_vars(DramHandle)
            /\ \A c \in Caches : SF_vars(DirFrom(c)) /\ WF_vars(CacheStep(c))

Spec == Init /\ [][Next]_vars
FairSpec == Spec /\ Fairness
-----------------------------------------------------------------------------
(* Correctness. *)

\* A cache that may write is the only one with a copy, whatever is in flight.
SingleWriter ==
  \A c, d \in Caches : c # d /\ cstate[c] \in {"E", "M"} => cstate[d] = "I"

\* The directory knows of every copy, and of every cache that may have
\* modified its copy.  It may list caches whose copy is gone.
DirectoryKnowsCopies ==
  \A c \in Caches :
    /\ cstate[c] # "I" => c \in entry.sharers
    /\ cstate[c] \in {"E", "M"} => /\ entry.dstate \in {"EXCLUSIVE", "MODIFIED"}
                                  /\ entry.owner = c

\* The directory entry is consistent with itself: what addSharer, setOwner,
\* getOwner and the assertions on DState rely on.
EntryConsistent ==
  /\ entry.sharers = {} <=> entry.dstate = "UNCACHED"
  /\ entry.dstate \in {"EXCLUSIVE", "MODIFIED"} => entry.sharers = {entry.owner}
  /\ Cardinality(entry.sharers) <= MaxHwSharers
  /\ entry.where = "none" => entry.dstate = "UNCACHED" /\ (queue = <<>> \/ next)
  /\ entry.where = "replaced" => queue # <<>> /\ Head(queue).type = "NULLIFY_REQ"

\* The assertions of dram_directory_cntlr.cc on the message it handles next.
\* That an UPGRADE_REQ waits for DRAM in MODIFIED is not asserted there: it is
\* the state its own handler has set, and nothing may change it meanwhile.
DirectoryAssertions ==
  /\ \A c \in Caches : ~next /\ toDir[c] # <<>> =>
       LET m == Head(toDir[c])
           rest == entry.sharers \ {c}
       IN  /\ m.type \in {"INV_REP", "FLUSH_REP", "WB_REP"} => c \in entry.sharers
           /\ m.type = "INV_REP" => entry.dstate \in {"SHARED", "EXCLUSIVE"}
           /\ m.type = "FLUSH_REP" /\ rest # {} =>
                /\ entry.dstate = "SHARED"
                /\ queue # <<>> => Head(queue).type = "UPGRADE_REQ"
           /\ m.type = "WB_REP" => queue # <<>> /\ Head(queue).type = "SH_REQ"
  /\ fromDram # <<>> =>
       /\ queue # <<>> /\ Head(queue).wait
       /\ Head(queue).type = "SH_REQ" => entry.dstate \in {"SHARED", "EXCLUSIVE"}
       /\ Head(queue).type \in {"EX_REQ", "UPGRADE_REQ"} => entry.dstate = "MODIFIED"
  /\ ~next /\ queue # <<>> /\ Head(queue).type = "SH_REQ" /\ ~Head(queue).wait
       /\ entry.dstate = "EXCLUSIVE" => Head(queue).requester # entry.owner

\* The assertions of cache_cntlr.cc on the message it handles next, and on
\* the line when a woken user thread comes back for it.
CacheAssertions ==
  \A c \in Caches :
    /\ ~serving[c] /\ toCache[c] # <<>> =>
         LET type == Head(toCache[c]).type
         IN  /\ type \in {"EX_REP", "SH_REP"} => cstate[c] = "I"
             /\ type = "UPGRADE_REP" => cstate[c] = "SU"
             /\ type \in {"EX_REP", "SH_REP", "UPGRADE_REP"} => waiters[c] # <<>>
             /\ type = "INV_REQ" => cstate[c] # "M"
    /\ cstate[c] = "SU" => waiters[c] # <<>> /\ Head(waiters[c]) = "W"
    /\ serving[c] => IF Head(waiters[c]) = "R" THEN Readable(cstate[c])
                                               ELSE Writable(cstate[c])

\* MESIF reads the forwarder of a SHARED line, which the constructor of
\* DirectoryEntry leaves unset; a request to a cache that is no sharer would
\* never be answered.
ForwarderUsable ==
  Protocol = "MESIF" /\ entry.dstate = "SHARED" /\ ~next =>
    entry.forwarder \in entry.sharers \cup {NoCache}

\* An access that missed is completed: the wake-ups of INV_REP, FLUSH_REP,
\* WB_REP and DRAM replies never leave a request behind.
MissesComplete == \A c \in Caches : waiters[c] # <<>> ~> waiters[c] = <<>>

\* "send a FLUSH (dirty data) rather than an INV (data clean)": when the last
\* copy is given up without data, memory has the data.
DroppedDataIsClean ==
  \A c \in Caches :
     toDir[c] # <<>> /\ Head(toDir[c]).type = "INV_REP" /\ entry.sharers = {c}
     /\ toDram = <<>> => dram = latest

\* "Trying to upgrade a block that is now INV and no data in the shmem_msg":
\* when the permission to write arrives, the line is still there or comes
\* with it.
UpgradeFindsLine ==
  \A c \in Caches :
     ~serving[c] /\ toCache[c] # <<>> /\ Head(toCache[c]).type = "UPGRADE_REP"
       => cstate[c] = "SU" \/ Head(toCache[c]).data # NoData

\* The assertions of both controllers hold on whatever message they handle
\* next, in every order in which requests, evictions and invalidations can
\* cross, and the forwarder MESIF asks for a line is one that will answer.
ControllerAssertions ==
    DirectoryAssertions /\ CacheAssertions /\ ForwarderUsable

\* The variables have their types and the directory entry agrees with itself,
\* also when a limited entry is full, replaced or being nullified.
EntryCorrect == TypeOK /\ EntryConsistent
=============================================================================
