------------------------------ MODULE Network ------------------------------
(***************************************************************************)
(* The on-chip network: Network::netSend walks a packet through the        *)
(* network models of the cores on its way and hands it to the transport    *)
(* node of its destination; netPullFromTransport of that core receives it, *)
(* and runs the callback of its type or queues it for netRecv.             *)
(*                                                                         *)
(* Delays of the queue models are chosen freely; a hop, and the time to    *)
(* move a packet over a link, take one unit.  The requester of a packet is *)
(* its sender.  The broadcast tree of the mesh is left out.                *)
(***************************************************************************)
EXTENDS Integers, Sequences, FiniteSets, SequencesExt, FiniteSetsExt, Functions

CONSTANTS NetModels,     \* configurations: kind of model, shape of the mesh,
                         \* ignore_local_traffic, and the bounds: packets sent,
                         \* delays of queues, whether packets are broadcast
          NetReceivers   \* cores whose thread calls netRecv

VARIABLES net_cfg, net_enabled,
          net_sent,      \* the packets given to netSend
          net_walk,      \* core -> hops its netSend has still to follow
          net_link,      \* core -> queue of its transport node
          net_got,       \* packet -> core -> how often it was received
          net_queue,     \* core -> _netQueue
          net_wake,      \* core -> whether the puller has still to broadcast
          net_recv       \* core -> state of the thread in netRecv

netVars == <<net_cfg, net_enabled, net_sent, net_walk, net_link, net_got,
             net_queue, net_wake, net_recv>>

Broadcast == 0 - 1
(* Every core is an application core: getApplicationCores().               *)
Nodes == 0 .. net_cfg.w * net_cfg.h * net_cfg.conc - 1
Diff(a, b) == IF a < b THEN b - a ELSE a - b
NotIn == [at |-> "out", from |-> Broadcast, timed |-> FALSE]

-----------------------------------------------------------------------------
(* The mesh with concentration and, perhaps, wrap-around links.            *)
FakeNode(n) == n % net_cfg.conc # 0
X(n) == (n \div net_cfg.conc) % net_cfg.w
Y(n) == (n \div net_cfg.conc) \div net_cfg.w

(* Mutant: links do not wrap around.                                       *)
CoreIdNoWrap(x, y) == (y * net_cfg.w + x) * net_cfg.conc

ComputeCoreId(x, y) ==
  (((y + net_cfg.h) % net_cfg.h) * net_cfg.w + ((x + net_cfg.w) % net_cfg.w))
    * net_cfg.conc

Around(a, b, size) ==
  IF net_cfg.wrap /\ size - Diff(a, b) < Diff(a, b) THEN size - Diff(a, b)
                                                     ELSE Diff(a, b)
ComputeDistance(a, b) ==
  Around(X(a), X(b), net_cfg.w) + Around(Y(a), Y(b), net_cfg.h)

(* Mutant: with wrap-around links packets always go the other way.         *)
BackIfWrap(a, b, size) == (a > b) # net_cfg.wrap

(* Whether a packet at a goes towards smaller coordinates to reach b.      *)
Back(a, b, size) == (a > b) # (net_cfg.wrap /\ Diff(a, b) > (size + 1) \div 2)

(* Mutant: one step on the way to the destination is the whole way.        *)
NextDestDirect(n, dest) == [next |-> dest, link |-> TRUE]

(* getNextDest: dimension order, first X.  The other cores of the same     *)
(* concentrated node are reached directly.                                 *)
NextDest(n, dest) ==
  LET to(x, y) == [next |-> ComputeCoreId(x, y), link |-> TRUE]
  IN IF n \div net_cfg.conc = dest \div net_cfg.conc
       THEN [next |-> dest, link |-> FALSE]
     ELSE IF Back(X(n), X(dest), net_cfg.w) THEN to(X(n) - 1, Y(n))
     ELSE IF X(n) # X(dest) THEN to(X(n) + 1, Y(n))
     ELSE IF Back(Y(n), Y(dest), net_cfg.h) THEN to(X(n), Y(n) - 1)
     ELSE to(X(n), Y(n) + 1)

(* routePacket of core n for one destination: the next hop.  A packet that *)
(* enters at a node that is not the first of its concentrated node goes    *)
(* straight to its destination; inject and wait are delays of queues.      *)
HopByHop(n, p, inject, wait) ==
  IF FakeNode(n)
    THEN [p EXCEPT !.next = p.final, !.warped = TRUE]
    ELSE LET d == NextDest(n, p.final)
             i == IF p.sender = n /\ p.final # n THEN inject ELSE 0
             l == IF d.link /\ net_enabled THEN 1 + wait ELSE 0
         IN [p EXCEPT !.next = d.next, !.time = @ + i + l, !.hops = @ + 1,
                      !.whole = @ /\ net_enabled]

(* Width of the mesh that the hop counter makes of all cores.              *)
CounterWidth == Max({w \in 1 .. Cardinality(Nodes) : w * w <= Cardinality(Nodes)})
CounterDistance(a, b) ==
  Diff(a % CounterWidth, b % CounterWidth)
    + Diff(a \div CounterWidth, b \div CounterWidth)

(* The k-th packet of a broadcast is k transfers late.                     *)
HopCounter(n, p, k) ==
  [p EXCEPT !.next = p.final,
            !.time = @ + CounterDistance(n, p.final) + k
                       + (IF p.final # n THEN 1 ELSE 0)]

(* accountPacket, useBus.                                                  *)
Bus(n, p, wait) ==
  [p EXCEPT !.next = p.final,
            !.time = IF net_enabled /\ ~(net_cfg.local /\ p.final = n)
                       THEN @ + wait + 1 ELSE @]

Magic(p) == [p EXCEPT !.next = p.final, !.time = @ + 1]

Route(n, p, k, inject, wait) ==
  CASE net_cfg.kind = "hop_by_hop" -> HopByHop(n, p, inject, wait)
    [] net_cfg.kind = "hop_counter" -> HopCounter(n, p, k)
    [] net_cfg.kind = "bus" -> Bus(n, p, wait)
    [] OTHER -> Magic(p)

-----------------------------------------------------------------------------
(* netSend: the model of the sender gives the first hops ...               *)
NetSend(c, to, type) ==
  /\ net_walk[c] = <<>> /\ Len(net_sent) < net_cfg.packets
  /\ \E inject, wait \in net_cfg.delays :
       LET dests == IF to = Broadcast THEN [i \in 1 .. Cardinality(Nodes) |-> i - 1]
                                      ELSE <<to>>
           p(d) == [id |-> Len(net_sent) + 1, sender |-> c, final |-> d,
                    next |-> c, time |-> 0, hops |-> 0, type |-> type,
                    whole |-> net_enabled, warped |-> FALSE]
       IN net_walk' = [net_walk EXCEPT ![c] =
            [i \in DOMAIN dests |-> Route(c, p(dests[i]), i - 1, inject, wait)]]
  /\ net_sent' = Append(net_sent, [from |-> c, to |-> to])
  /\ UNCHANGED <<net_cfg, net_enabled, net_link, net_got, net_queue, net_wake,
                 net_recv>>

(* ... which it follows, one packet after the other, through the models of *)
(* the cores in between, until the packet is handed to the transport.      *)
Follow(c) ==
  /\ net_walk[c] # <<>>
  /\ LET p == Head(net_walk[c])
     IN IF p.next # p.final
          THEN /\ \E inject, wait \in net_cfg.delays :
                    net_walk' = [net_walk EXCEPT ![c][1] =
                                   Route(p.next, p, 0, inject, wait)]
               /\ UNCHANGED net_link
          ELSE /\ net_link' = [net_link EXCEPT ![p.next] = Append(@, p)]
               /\ net_walk' = [net_walk EXCEPT ![c] = Tail(@)]
  /\ UNCHANGED <<net_cfg, net_enabled, net_sent, net_got, net_queue, net_wake,
                 net_recv>>

(* processReceivedPacket: the mesh adds the ejection port.                 *)
Received(c, p, wait) ==
  IF net_cfg.kind = "hop_by_hop" /\ net_enabled /\ p.sender # c /\ ~FakeNode(c)
    THEN [p EXCEPT !.time = @ + wait + 1] ELSE p

(* Mutant: a packet is received without being taken from the transport.    *)
PullKeeps(c) == net_link

(* recv() of the transport node.                                           *)
Pulled(c) == [net_link EXCEPT ![c] = Tail(@)]

(* netPullFromTransport.  Shared-memory packets have a callback.           *)
Pull(c) ==
  /\ net_link[c] # <<>> /\ ~net_wake[c]
  /\ LET p == Head(net_link[c])
     IN /\ net_link' = Pulled(c)
        /\ net_got' = [net_got EXCEPT ![p.id][c] = @ + 1]
        /\ IF p.type = "shmem"
             THEN UNCHANGED <<net_queue, net_wake>>
             ELSE /\ \E wait \in net_cfg.delays :
                       net_queue' = [net_queue EXCEPT ![c] =
                                       Append(@, Received(c, p, wait))]
                  /\ net_wake' = [net_wake EXCEPT ![c] = TRUE]
  /\ UNCHANGED <<net_cfg, net_enabled, net_sent, net_walk, net_recv>>

(* The broadcast of _netQueueCond comes after the lock is released.        *)
WakeReceiver(c) ==
  /\ net_wake[c]
  /\ net_wake' = [net_wake EXCEPT ![c] = FALSE]
  /\ net_recv' = [net_recv EXCEPT ![c].at = IF @ = "asleep" THEN "awake" ELSE @]
  /\ UNCHANGED <<net_cfg, net_enabled, net_sent, net_walk, net_link, net_got,
                 net_queue>>

-----------------------------------------------------------------------------
(* netRecv: the earliest of the packets that match, or a wait for the next *)
(* one.  With a timeout, the thread looks once more after the wait.        *)
Matching(c, from) ==
  {i \in DOMAIN net_queue[c] : from \in {Broadcast, net_queue[c][i].sender}}

Earliest(c, set) ==
  CHOOSE i \in set : \A j \in set :
    \/ net_queue[c][i].time < net_queue[c][j].time
    \/ net_queue[c][i].time = net_queue[c][j].time /\ i <= j

(* Mutant: the thread sleeps again although a packet has come.             *)
SearchOnce(c, from, timed, asked) ==
  IF asked \/ Matching(c, from) = {}
    THEN /\ net_recv' = [net_recv EXCEPT ![c] =
                           [at |-> "asleep", from |-> from, timed |-> timed]]
         /\ UNCHANGED net_queue
    ELSE /\ net_queue' = [net_queue EXCEPT ![c] =
                            RemoveAt(@, Earliest(c, Matching(c, from)))]
         /\ net_recv' = [net_recv EXCEPT ![c] = NotIn]

Search(c, from, timed, asked) ==
  IF Matching(c, from) # {}
    THEN /\ net_queue' = [net_queue EXCEPT ![c] =
                            RemoveAt(@, Earliest(c, Matching(c, from)))]
         /\ net_recv' = [net_recv EXCEPT ![c] = NotIn]
    ELSE /\ net_recv' = [net_recv EXCEPT ![c] =
              IF asked /\ timed THEN NotIn
              ELSE [at |-> "asleep", from |-> from, timed |-> timed]]
         /\ UNCHANGED net_queue

NetRecv(c, from, timed) ==
  /\ net_recv[c].at = "out" /\ Search(c, from, timed, FALSE)
  /\ UNCHANGED <<net_cfg, net_enabled, net_sent, net_walk, net_link, net_got,
                 net_wake>>

Retry(c) ==
  /\ net_recv[c].at = "awake"
  /\ Search(c, net_recv[c].from, net_recv[c].timed, TRUE)
  /\ UNCHANGED <<net_cfg, net_enabled, net_sent, net_walk, net_link, net_got,
                 net_wake>>

TimeOut(c) ==
  /\ net_recv[c].at = "asleep" /\ net_recv[c].timed
  /\ net_recv' = [net_recv EXCEPT ![c].at = "awake"]
  /\ UNCHANGED <<net_cfg, net_enabled, net_sent, net_walk, net_link, net_got,
                 net_queue, net_wake>>

(* enableModels, disableModels: packets may be under way.                  *)
EnableModels ==
  /\ net_enabled' = ~net_enabled
  /\ UNCHANGED <<net_cfg, net_sent, net_walk, net_link, net_got, net_queue,
                 net_wake, net_recv>>

NetInit ==
  /\ net_cfg \in NetModels
  /\ net_enabled \in BOOLEAN
  /\ net_sent = <<>>
  /\ net_got = [id \in 1 .. net_cfg.packets |-> [n \in Nodes |-> 0]]
  /\ net_walk = [n \in Nodes |-> <<>>] /\ net_link = [n \in Nodes |-> <<>>]
  /\ net_queue = [n \in Nodes |-> <<>>]
  /\ net_wake = [n \in Nodes |-> FALSE]
  /\ net_recv = [n \in Nodes |-> NotIn]

NetNext ==
  \/ \E c \in Nodes :
       \/ \E to \in IF net_cfg.bcast THEN {0, 1, Broadcast} ELSE Nodes, t \in {"user", "shmem"} : NetSend(c, to, t)
       \/ Follow(c) \/ Pull(c) \/ WakeReceiver(c)
  \/ \E c \in NetReceivers \cap Nodes :
       \/ \E from \in {Broadcast, 1}, timed \in BOOLEAN : NetRecv(c, from, timed)
       \/ Retry(c) \/ TimeOut(c)
  \/ EnableModels

-----------------------------------------------------------------------------
NetTypeOK ==
  /\ net_cfg \in NetModels
  /\ \A c \in Nodes :
       /\ \A i \in DOMAIN net_walk[c] : net_walk[c][i].next \in Nodes
       /\ \A i \in DOMAIN net_link[c] : net_link[c][i].final = c
       /\ net_recv[c].at \in {"out", "asleep", "awake"}

(* Every packet given to netSend reaches each core it is for exactly once, *)
(* and no other core, whatever the model routes it through.                *)
ArrivesOnce ==
  \A id \in DOMAIN net_sent :
    LET dests == IF net_sent[id].to = Broadcast THEN Nodes ELSE {net_sent[id].to}
        pending == {c \in Nodes : \/ \E n \in Nodes : \E i \in DOMAIN net_walk[n] :
                                       net_walk[n][i].id = id /\ net_walk[n][i].final = c
                                  \/ \E i \in DOMAIN net_link[c] : net_link[c][i].id = id}
    IN \A c \in Nodes :
         net_got[id][c] = IF c \in dests \ pending THEN 1 ELSE 0

(* Dimension-order routing ends: the walk of a packet through the mesh, or *)
(* round the torus, never takes more hops than the mesh is wide and high.  *)
PathsEnd ==
  \A c \in Nodes : \A i \in DOMAIN net_walk[c] :
    net_walk[c][i].hops <= net_cfg.w + net_cfg.h + 1

(* A packet that went through the mesh with the models enabled has taken   *)
(* at least the time of its hops, so that what processReceivedPacket books *)
(* as contention, an unsigned difference, is not negative.                 *)
LatencyCoversDistance ==
  \A c \in Nodes : \A i \in DOMAIN net_link[c] :
    LET p == net_link[c][i]
    IN net_cfg.kind = "hop_by_hop" /\ p.whole /\ ~p.warped
         => p.time >= ComputeDistance(p.sender, c)

(* A thread that sleeps in netRecv while a packet for it is queued will be *)
(* woken: the puller has still to broadcast.                               *)
ReceiverNotStranded ==
  \A c \in Nodes :
    net_recv[c].at = "asleep" /\ Matching(c, net_recv[c].from) # {} => net_wake[c]

(* Packets on every network model: each reaches every core it is for        *)
(* exactly once, the walk through the mesh or torus ends within its width   *)
(* and height, the time taken covers the hops, and no thread sleeps in      *)
(* netRecv with its packet queued and nobody about to wake it.              *)
NetworkCorrect ==
    NetTypeOK /\ ArrivesOnce /\ PathsEnd /\ LatencyCoversDistance /\ ReceiverNotStranded
=============================================================================
