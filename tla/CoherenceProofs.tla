-------------------------- MODULE CoherenceProofs ---------------------------
(***************************************************************************)
(* The directory, the DRAM controller and the caches keep the invariant of *)
(* the protocol, when a directory entry can name all caches, and what      *)
(* follows from it for every number of caches, contents and variant: one   *)
(* writer at a time, a directory that knows every copy, and controllers    *)
(* whose assertions hold.                                                  *)
(*                                                                         *)
(* First how each part of the invariant changes: the channels, what fits,  *)
(* the queue, the directory's view of a cache.  Then the processing of the *)
(* request at the head of the queue (processExReqFromL2Cache and its       *)
(* siblings), which every handler of the directory may end with.  Then     *)
(* each handler, the steps of a cache, and the theorems.                   *)
(***************************************************************************)
EXTENDS CoherenceInvariant, SequenceTheorems, FiniteSetTheorems, TLAPS

-----------------------------------------------------------------------------
(* The channels. *)

\* Head, tail and elements of a channel or queue.
LEMMA SequenceFacts ==
  ASSUME NEW S, NEW ch \in Seq(S)
  PROVE  /\ Len(ch) \in Nat /\ DOMAIN ch = 1..Len(ch)
         /\ \A i \in 1..Len(ch) : ch[i] \in S
         /\ ch # <<>> <=> Len(ch) >= 1
         /\ ch # <<>> => /\ Head(ch) = ch[1] /\ Tail(ch) \in Seq(S)
                        /\ Len(Tail(ch)) = Len(ch) - 1
                        /\ \A i \in 1..(Len(ch) - 1) : Tail(ch)[i] = ch[i + 1]
<1>1. Len(ch) \in Nat /\ DOMAIN ch = 1..Len(ch)
  BY LenProperties
<1>2. \A i \in 1..Len(ch) : ch[i] \in S
  BY ElementOfSeq
<1>3. ch # <<>> <=> Len(ch) >= 1
  BY <1>1, EmptySeq
<1>4. ASSUME ch # <<>>
      PROVE  /\ Head(ch) = ch[1] /\ Tail(ch) \in Seq(S)
             /\ Len(Tail(ch)) = Len(ch) - 1
             /\ \A i \in 1..(Len(ch) - 1) : Tail(ch)[i] = ch[i + 1]
  <2>1. /\ Tail(ch) \in Seq(S) /\ Len(Tail(ch)) = Len(ch) - 1
        /\ \A i \in 1..Len(Tail(ch)) : Tail(ch)[i] = ch[i + 1]
    BY <1>4, HeadTailProperties
  <2>2. Head(ch) = ch[1]
    OBVIOUS
  <2>3. QED
    BY <2>1, <2>2
<1>5. QED
  BY <1>1, <1>2, <1>3, <1>4

\* The lengths an inbox can have.
LEMMA UpToThree == \A n \in Nat : n <= 3 => n = 0 \/ n = 1 \/ n = 2 \/ n = 3
OBVIOUS

\* A message of the directory is a reply or a demand, and not both.
LEMMA MessageTypes ==
  /\ \A m \in DirMsgs : m.type \in Replies \cup Demands
  /\ \A T : ~(T \in Replies /\ T \in Demands)
  /\ "none" \notin Replies /\ "none" \notin Demands
BY DEF DirMsgs, Replies, Demands

\* A message that may follow all those on their way keeps a channel in sequence.
LEMMA AppendTypes ==
  ASSUME NEW S, NEW ch \in Seq(S), NEW m, InSequence(ch),
         \A T \in Types(ch) : m.type \in Followers(T)
  PROVE  /\ Types(Append(ch, m)) = Types(ch) \cup {m.type}
         /\ InSequence(Append(ch, m))
<1> DEFINE new == Append(ch, m)
<1>1. /\ DOMAIN ch = 1..Len(ch) /\ Len(ch) \in Nat
      /\ DOMAIN new = 1..(Len(ch) + 1)
      /\ \A i \in DOMAIN ch : new[i] = ch[i]
      /\ new[Len(ch) + 1] = m
  <2>1. Len(new) = Len(ch) + 1 /\ DOMAIN new = 1..Len(new)
    OBVIOUS
  <2>2. QED
    BY <2>1
<1> HIDE DEF new
<1>2. \A T : T \in Types(new) <=> T \in Types(ch) \/ T = m.type
  <2> SUFFICES ASSUME NEW T
               PROVE  (\E i \in DOMAIN new : new[i].type = T)
                        <=> (\E i \in DOMAIN ch : ch[i].type = T) \/ T = m.type
    BY DEF Types
  <2>1. ASSUME NEW i \in DOMAIN new, new[i].type = T
        PROVE  (\E k \in DOMAIN ch : ch[k].type = T) \/ T = m.type
    <3>1. i \in DOMAIN ch \/ i = Len(ch) + 1
      BY <1>1
    <3>2. QED
      BY <1>1, <2>1, <3>1
  <2>2. ASSUME NEW i \in DOMAIN ch, ch[i].type = T
        PROVE  \E k \in DOMAIN new : new[k].type = T
    <3>1. i \in DOMAIN new /\ new[i] = ch[i]
      BY <1>1
    <3>2. QED
      BY <2>2, <3>1
  <2>3. ASSUME T = m.type PROVE \E k \in DOMAIN new : new[k].type = T
    <3>1. Len(ch) + 1 \in DOMAIN new
      BY <1>1
    <3>2. QED
      BY <1>1, <2>3, <3>1
  <2>4. QED
    BY <2>1, <2>2, <2>3
<1>3. ASSUME NEW i \in DOMAIN new, NEW j \in DOMAIN new, i < j
      PROVE  new[j].type \in Followers(new[i].type)
  <2>1. i \in DOMAIN ch /\ new[i] = ch[i]
    BY <1>1, <1>3
  <2>2. CASE j \in DOMAIN ch
    BY <1>1, <1>3, <2>1, <2>2 DEF InSequence
  <2>3. CASE j \notin DOMAIN ch
    <3>1. new[j] = m
      BY <1>1, <2>3
    <3>2. ch[i].type \in Types(ch)
      BY <2>1 DEF Types
    <3>3. QED
      BY <2>1, <3>1, <3>2
  <2>4. QED
    BY <2>2, <2>3
<1>4. QED
  BY <1>2, <1>3 DEF InSequence, new

\* No channel ever holds two messages of one type.
LEMMA FollowersDiffer == \A t : t \notin Followers(t)
BY DEF Followers, GiveUps

\* What is left of a channel in sequence when its first message is taken.
LEMMA TailTypes ==
  ASSUME NEW S, NEW ch \in Seq(S), ch # <<>>, InSequence(ch)
  PROVE  /\ Head(ch).type \in Types(ch)
         /\ Types(Tail(ch)) = Types(ch) \ {Head(ch).type}
         /\ InSequence(Tail(ch))
         /\ \A T \in Types(Tail(ch)) : T \in Followers(Head(ch).type)
<1> DEFINE new == Tail(ch)
<1>1. /\ DOMAIN ch = 1..Len(ch) /\ Len(ch) \in Nat \ {0} /\ Head(ch) = ch[1]
      /\ DOMAIN new = 1..(Len(ch) - 1)
      /\ \A i \in DOMAIN new : new[i] = ch[i + 1]
  <2>1. /\ Len(new) = Len(ch) - 1 /\ new \in Seq(S)
        /\ \A i \in 1..Len(new) : new[i] = ch[i + 1]
    BY HeadTailProperties
  <2>2. DOMAIN ch = 1..Len(ch) /\ Len(ch) \in Nat \ {0} /\ Head(ch) = ch[1]
    BY EmptySeq
  <2>3. DOMAIN new = 1..Len(new)
    BY <2>1, LenProperties
  <2>4. QED
    BY <2>1, <2>2, <2>3
<1> HIDE DEF new
<1>2. /\ 1 \in DOMAIN ch
      /\ \A i \in DOMAIN new : /\ i + 1 \in DOMAIN ch /\ i \in Int
                               /\ i + 1 \in Int /\ 1 < i + 1
  BY <1>1
<1>3. \A i \in DOMAIN new : new[i].type \in Followers(Head(ch).type)
  BY <1>1, <1>2 DEF InSequence
<1>4. \A T : T \in Types(new) <=> T \in Types(ch) /\ T # Head(ch).type
  <2> SUFFICES ASSUME NEW T
               PROVE  (\E i \in DOMAIN new : new[i].type = T)
                        <=> (\E i \in DOMAIN ch : ch[i].type = T) /\ T # Head(ch).type
    BY DEF Types
  <2>1. ASSUME NEW i \in DOMAIN new, new[i].type = T
        PROVE  (\E k \in DOMAIN ch : ch[k].type = T) /\ T # Head(ch).type
    <3>1. i + 1 \in DOMAIN ch /\ ch[i + 1].type = T
      BY <1>1, <1>2, <2>1
    <3>2. T \in Followers(Head(ch).type)
      BY <1>3, <2>1
    <3>3. QED
      BY <3>1, <3>2, FollowersDiffer
  <2>2. ASSUME NEW i \in DOMAIN ch, ch[i].type = T, T # Head(ch).type
        PROVE  \E k \in DOMAIN new : new[k].type = T
    <3>1. i # 1
      BY <1>1, <2>2
    <3>2. i - 1 \in DOMAIN new /\ new[i - 1] = ch[i]
      BY <1>1, <3>1
    <3>3. QED
      BY <2>2, <3>2
  <2>3. QED
    BY <2>1, <2>2
<1>5. ASSUME NEW i \in DOMAIN new, NEW j \in DOMAIN new, i < j
      PROVE  new[j].type \in Followers(new[i].type)
  <2>1. i + 1 < j + 1
    BY <1>2, <1>5
  <2>2. QED
    BY <1>1, <1>2, <2>1 DEF InSequence
<1>6. QED
  BY <1>1, <1>2, <1>3, <1>4, <1>5 DEF InSequence, Types, new

\* The cases of an inbox.
LEMMA InboxCases ==
  ASSUME NEW ch \in Seq(DirMsgs), Inbox(ch)
  PROVE  /\ \A i \in 1..Len(ch) : /\ ch[i].type \in Replies \cup Demands
                                  /\ ch[i].type # "none"
         /\ ch = <<>> <=> Len(ch) = 0
         /\ \/ /\ Len(ch) = 0
               /\ Ahead(ch) = "none" /\ Reply(ch) = "none" /\ Behind(ch) = "none"
            \/ /\ Len(ch) = 1 /\ ch[1].type \in Demands
               /\ Ahead(ch) = ch[1].type /\ Reply(ch) = "none" /\ Behind(ch) = "none"
            \/ /\ Len(ch) = 1 /\ ch[1].type \in Replies
               /\ Ahead(ch) = "none" /\ Reply(ch) = ch[1].type /\ Behind(ch) = "none"
            \/ /\ Len(ch) = 2 /\ ch[1].type \in Demands /\ ch[2].type \in Replies
               /\ Ahead(ch) = ch[1].type /\ Reply(ch) = ch[2].type /\ Behind(ch) = "none"
            \/ /\ Len(ch) = 2 /\ ch[1].type \in Replies /\ ch[2].type \in Demands
               /\ Ahead(ch) = "none" /\ Reply(ch) = ch[1].type /\ Behind(ch) = ch[2].type
            \/ /\ Len(ch) = 3 /\ ch[1].type \in Demands /\ ch[2].type \in Replies
               /\ ch[3].type \in Demands
               /\ Ahead(ch) = ch[1].type /\ Reply(ch) = ch[2].type /\ Behind(ch) = ch[3].type
<1>1. \A i \in 1..Len(ch) : ch[i].type \in Replies \cup Demands /\ ch[i].type # "none"
  BY SequenceFacts, MessageTypes
<1>2. Len(ch) \in Nat /\ (ch = <<>> <=> Len(ch) = 0) /\ (ch # <<>> <=> Len(ch) >= 1)
  BY SequenceFacts
<1>3. Len(ch) <= 3
  BY DEF Inbox
<1>4. CASE Len(ch) = 0
  BY <1>1, <1>2, <1>4 DEF Ahead, Reply, Behind
<1>5. CASE Len(ch) = 1
  <2>1. ch[1].type \in Replies \cup Demands
    BY <1>1, <1>5
  <2>2. QED
    BY <1>1, <1>2, <1>5, <2>1, MessageTypes DEF Ahead, Reply, Behind
<1>6. CASE Len(ch) = 2
  <2>1. ch[1].type \in Replies \cup Demands /\ ch[2].type \in Replies \cup Demands
    BY <1>1, <1>6
  <2>2. QED
    BY <1>1, <1>2, <1>6, <2>1, MessageTypes DEF Inbox, Ahead, Reply, Behind
<1>7. CASE Len(ch) = 3
  BY <1>1, <1>2, <1>7, MessageTypes DEF Inbox, Ahead, Reply, Behind
<1>8. Len(ch) = 0 \/ Len(ch) = 1 \/ Len(ch) = 2 \/ Len(ch) = 3
  BY <1>2, <1>3, UpToThree
<1>9. QED
  BY <1>1, <1>2, <1>4, <1>5, <1>6, <1>7, <1>8

\* The three places of an inbox hold what they are meant for.
LEMMA InboxFacts ==
  ASSUME NEW ch \in Seq(DirMsgs), Inbox(ch)
  PROVE  /\ Ahead(ch) \in Demands \cup {"none"}
         /\ Reply(ch) \in Replies \cup {"none"}
         /\ Behind(ch) \in Demands \cup {"none"}
         /\ Behind(ch) # "none" => Reply(ch) # "none"
BY InboxCases, MessageTypes

\* Where a reply or a demand goes in an inbox that has room for it.
LEMMA AppendInbox ==
  ASSUME NEW ch \in Seq(DirMsgs), Inbox(ch), NEW m \in DirMsgs
  PROVE  /\ m.type \in Replies /\ Reply(ch) = "none" =>
              /\ Inbox(Append(ch, m)) /\ Ahead(Append(ch, m)) = Ahead(ch)
              /\ Reply(Append(ch, m)) = m.type /\ Behind(Append(ch, m)) = "none"
         /\ m.type \in Demands /\ Reply(ch) = "none" /\ Ahead(ch) = "none" =>
              /\ Inbox(Append(ch, m)) /\ Ahead(Append(ch, m)) = m.type
              /\ Reply(Append(ch, m)) = "none" /\ Behind(Append(ch, m)) = "none"
         /\ m.type \in Demands /\ Reply(ch) # "none" /\ Behind(ch) = "none" =>
              /\ Inbox(Append(ch, m)) /\ Ahead(Append(ch, m)) = Ahead(ch)
              /\ Reply(Append(ch, m)) = Reply(ch) /\ Behind(Append(ch, m)) = m.type
<1> DEFINE new == Append(ch, m)
<1>1. /\ \A i \in 1..Len(ch) : ch[i].type \in Replies \cup Demands
      /\ \A i \in 1..Len(ch) : ch[i].type # "none"
  BY InboxCases
<1>2. Len(ch) \in Nat /\ (ch # <<>> <=> Len(ch) >= 1)
  BY SequenceFacts
<1>3. /\ Len(new) = Len(ch) + 1 /\ new # <<>>
      /\ \A i \in 1..Len(ch) : new[i] = ch[i]
      /\ new[Len(ch) + 1] = m
  OBVIOUS
<1> HIDE DEF new
<1>5. CASE Len(ch) = 0
  <2>1. new[1] = m /\ Len(new) = 1 /\ new # <<>>
    BY <1>3, <1>5
  <2>2. Ahead(ch) = "none" /\ Reply(ch) = "none" /\ Behind(ch) = "none"
    BY <1>2, <1>5 DEF Ahead, Reply, Behind
  <2>3. m.type \in Replies => /\ Inbox(new) /\ Ahead(new) = "none" /\ Reply(new) = m.type
                              /\ Behind(new) = "none"
    BY <2>1, MessageTypes DEF Inbox, Ahead, Reply, Behind
  <2>4. m.type \in Demands => /\ Inbox(new) /\ Ahead(new) = m.type /\ Reply(new) = "none"
                              /\ Behind(new) = "none"
    BY <2>1, MessageTypes DEF Inbox, Ahead, Reply, Behind
  <2>5. QED
    BY <2>2, <2>3, <2>4 DEF new
<1>6. CASE Len(ch) = 1
  <2>1. new[1] = ch[1] /\ new[2] = m /\ Len(new) = 2 /\ new # <<>>
        /\ ch[1].type \in Replies \cup Demands /\ ch[1].type # "none"
    BY <1>1, <1>3, <1>6
  <2>2. CASE ch[1].type \in Demands
    <3>1. Ahead(ch) = ch[1].type /\ Reply(ch) = "none" /\ Behind(ch) = "none"
      BY <1>6, <2>2, InboxCases, MessageTypes
    <3>2. m.type \in Replies => /\ Inbox(new) /\ Ahead(new) = ch[1].type
                                /\ Reply(new) = m.type /\ Behind(new) = "none"
      BY <2>1, <2>2, MessageTypes DEF Inbox, Ahead, Reply, Behind
    <3>3. QED
      BY <2>1, <3>1, <3>2 DEF new
  <2>3. CASE ch[1].type \in Replies
    <3>1. Ahead(ch) = "none" /\ Reply(ch) = ch[1].type /\ Behind(ch) = "none"
      BY <1>6, <2>3, InboxCases, MessageTypes
    <3>2. m.type \in Demands => /\ Inbox(new) /\ Ahead(new) = "none"
                                /\ Reply(new) = ch[1].type /\ Behind(new) = m.type
      BY <2>1, <2>3, MessageTypes DEF Inbox, Ahead, Reply, Behind
    <3>3. QED
      BY <2>1, <3>1, <3>2 DEF new
  <2>4. QED
    BY <2>1, <2>2, <2>3
<1>7. CASE Len(ch) = 2
  <2>1. new[1] = ch[1] /\ new[2] = ch[2] /\ new[3] = m /\ Len(new) = 3
        /\ ch[1].type # "none" /\ ch[2].type # "none"
    BY <1>1, <1>3, <1>7
  <2>2. CASE ch[1].type \in Demands
    <3>1. /\ Ahead(ch) = ch[1].type /\ Reply(ch) = ch[2].type /\ Behind(ch) = "none"
          /\ ch[2].type \in Replies
      BY <1>7, <2>2, InboxCases, MessageTypes
    <3>2. m.type \in Demands => /\ Inbox(new) /\ Ahead(new) = ch[1].type
                                /\ Reply(new) = ch[2].type /\ Behind(new) = m.type
      BY <1>3, <2>1, <2>2, <3>1, MessageTypes DEF Inbox, Ahead, Reply, Behind
    <3>3. QED
      BY <2>1, <3>1, <3>2 DEF new
  <2>3. CASE ch[1].type \in Replies
    <3>1. Reply(ch) = ch[1].type /\ Behind(ch) = ch[2].type
      BY <1>7, <2>3, InboxCases, MessageTypes
    <3>2. QED
      BY <2>1, <3>1
  <2>4. QED
    BY <1>7, <2>2, <2>3, InboxCases
<1>8. CASE Len(ch) = 3
  <2>1. Reply(ch) # "none" /\ Behind(ch) # "none"
    <3>1. ch[2].type # "none" /\ ch[3].type # "none"
      BY <1>1, <1>8
    <3>2. QED
      BY <1>8, <3>1, InboxCases
  <2>2. QED
    BY <2>1
<1>9. Len(ch) = 0 \/ Len(ch) = 1 \/ Len(ch) = 2 \/ Len(ch) = 3
  <2>1. Len(ch) <= 3
    BY DEF Inbox
  <2>2. QED
    BY <1>2, <2>1, UpToThree
<1>10. QED
  BY <1>5, <1>6, <1>7, <1>8, <1>9

\* What is left of an inbox when its first message is taken.
LEMMA TailInbox ==
  ASSUME NEW ch \in Seq(DirMsgs), Inbox(ch), ch # <<>>
  PROVE  /\ Inbox(Tail(ch))
         /\ Head(ch).type \in Replies \cup Demands
         /\ Head(ch).type \in Demands =>
              /\ Ahead(ch) = Head(ch).type /\ Ahead(Tail(ch)) = "none"
              /\ Reply(Tail(ch)) = Reply(ch) /\ Behind(Tail(ch)) = Behind(ch)
         /\ Head(ch).type \in Replies =>
              /\ Ahead(ch) = "none" /\ Reply(ch) = Head(ch).type
              /\ Ahead(Tail(ch)) = Behind(ch)
              /\ Reply(Tail(ch)) = "none" /\ Behind(Tail(ch)) = "none"
<1> DEFINE new == Tail(ch)
<1>1. \A i \in 1..Len(ch) : ch[i].type \in Replies \cup Demands /\ ch[i].type # "none"
  BY InboxCases
<1>2. /\ Len(ch) \in Nat /\ Len(ch) >= 1 /\ Head(ch) = ch[1]
      /\ new \in Seq(DirMsgs) /\ Len(new) = Len(ch) - 1
      /\ \A i \in 1..(Len(ch) - 1) : new[i] = ch[i + 1]
  BY SequenceFacts
<1>3. new # <<>> <=> Len(new) >= 1
  BY <1>2, SequenceFacts
<1> HIDE DEF new
<1>4. CASE Len(ch) = 1
  <2>1. Len(new) = 0 /\ new = <<>>
    BY <1>2, <1>3, <1>4
  <2>2. Inbox(new) /\ Ahead(new) = "none" /\ Reply(new) = "none" /\ Behind(new) = "none"
    BY <2>1 DEF Inbox, Ahead, Reply, Behind
  <2>3. QED
    BY <1>2, <1>4, <2>2, InboxCases, MessageTypes DEF new
<1>5. CASE Len(ch) = 2
  <2>1. new[1] = ch[2] /\ Len(new) = 1 /\ new # <<>>
    BY <1>2, <1>3, <1>5
  <2>2. ch[2].type \in Replies => /\ Inbox(new) /\ Ahead(new) = "none"
                                  /\ Reply(new) = ch[2].type /\ Behind(new) = "none"
    BY <2>1, MessageTypes DEF Inbox, Ahead, Reply, Behind
  <2>3. ch[2].type \in Demands => /\ Inbox(new) /\ Ahead(new) = ch[2].type
                                  /\ Reply(new) = "none" /\ Behind(new) = "none"
    BY <2>1, MessageTypes DEF Inbox, Ahead, Reply, Behind
  <2>4. QED
    BY <1>2, <1>5, <2>2, <2>3, InboxCases, MessageTypes DEF new
<1>6. CASE Len(ch) = 3
  <2>1. new[1] = ch[2] /\ new[2] = ch[3] /\ Len(new) = 2 /\ new # <<>>
    BY <1>2, <1>3, <1>6
  <2>2. /\ ch[1].type \in Demands /\ ch[2].type \in Replies /\ ch[3].type \in Demands
        /\ Ahead(ch) = ch[1].type /\ Reply(ch) = ch[2].type /\ Behind(ch) = ch[3].type
    BY SMTT(30), <1>6, InboxCases
  <2>3. /\ Inbox(new) /\ Ahead(new) = "none"
        /\ Reply(new) = ch[2].type /\ Behind(new) = ch[3].type
    BY <2>1, <2>2, MessageTypes DEF Inbox, Ahead, Reply, Behind
  <2>4. QED
    BY <1>2, <2>2, <2>3, MessageTypes DEF new
<1>7. Len(ch) = 1 \/ Len(ch) = 2 \/ Len(ch) = 3
  <2>1. Len(ch) <= 3
    BY DEF Inbox
  <2>2. QED
    BY <1>2, <2>1, UpToThree
<1>8. QED
  BY <1>4, <1>5, <1>6, <1>7

-----------------------------------------------------------------------------
(* What a cache does by itself keeps it fitting. *)

\* The arguments of Fits have their types.
Typed(s, w, sv, X, a, r, z, ds, held, dem) ==
  /\ s \in CStates /\ w \in Accesses \cup {"none"} /\ sv \in BOOLEAN
  /\ X \subseteq ToDirs
  /\ a \in Demands \cup {"none"} /\ r \in Replies \cup {"none"}
  /\ z \in Demands \cup {"none"} /\ (z # "none" => r # "none")
  /\ ds \in DStates /\ held \in {"yes", "no"}
  /\ dem \subseteq Demands
  /\ "INV_REQ" \in dem => ds = "SHARED"
  /\ "WB_REQ" \in dem => dem = {"WB_REQ"}
  /\ dem # {} => held = "yes"

\* May a message of type t follow those of types X ?
MayAppend(X, t) == \A T \in X : t \in Followers(T)

\* The first access that misses sends its request.
LEMMA MissFits ==
  ASSUME NEW s, NEW sv, NEW X, NEW a, NEW r, NEW z, NEW Y, NEW ds, NEW held,
         NEW dem, NEW prom, NEW w \in Accesses,
         Typed(s, "none", sv, X, a, r, z, ds, held, dem),
         Fits(s, "none", sv, X, a, r, z, Y, ds, held, dem, prom)
  PROVE  /\ w = "R" /\ ~Readable(s) =>
              /\ MayAppend(X, "SH_REQ")
              /\ Fits(s, w, sv, X \cup {"SH_REQ"}, a, r, z, Y, ds, held, dem, prom)
         /\ w = "W" /\ s = "S" =>
              /\ MayAppend(X, "UPGRADE_REQ")
              /\ Fits("SU", w, sv, X \cup {"UPGRADE_REQ"}, a, r, z, Y, ds, held, dem, prom)
         /\ w = "W" /\ s \notin {"S", "E", "M"} =>
              /\ MayAppend(X, "EX_REQ")
              /\ Fits(s, w, sv, X \cup {"EX_REQ"}, a, r, z, Y, ds, held, dem, prom)
<1> USE DEF Typed, Fits, Accesses, CStates, DStates, ToDirs, Demands, Replies, CoreReqs,
            GiveUps, Readable
<1>1. X \cap CoreReqs = {} /\ Y = {} /\ r = "none" /\ ~sv /\ s # "SU"
  OBVIOUS
<1>2. ASSUME w = "R", ~Readable(s)
      PROVE  /\ MayAppend(X, "SH_REQ")
             /\ Fits(s, w, sv, X \cup {"SH_REQ"}, a, r, z, Y, ds, held, dem, prom)
  <2>1. s = "I"
    BY <1>1, <1>2
  <2>2. MayAppend(X, "SH_REQ")
    BY <1>1 DEF MayAppend, Followers
  <2>3. Fits(s, w, sv, X \cup {"SH_REQ"}, a, r, z, Y, ds, held, dem, prom)
    BY <1>1, <1>2, <2>1
  <2>4. QED
    BY <2>2, <2>3
<1>3. ASSUME w = "W", s = "S"
      PROVE  /\ MayAppend(X, "UPGRADE_REQ")
             /\ Fits("SU", w, sv, X \cup {"UPGRADE_REQ"}, a, r, z, Y, ds, held, dem, prom)
  <2>1. MayAppend(X, "UPGRADE_REQ")
    BY <1>1, <1>3 DEF MayAppend, Followers
  <2>2. Fits("SU", w, sv, X \cup {"UPGRADE_REQ"}, a, r, z, Y, ds, held, dem, prom)
    BY <1>1, <1>3
  <2>3. QED
    BY <2>1, <2>2
<1>4. ASSUME w = "W", s \notin {"S", "E", "M"}
      PROVE  /\ MayAppend(X, "EX_REQ")
             /\ Fits(s, w, sv, X \cup {"EX_REQ"}, a, r, z, Y, ds, held, dem, prom)
  <2>1. s = "I"
    BY <1>1, <1>4
  <2>2. MayAppend(X, "EX_REQ")
    BY <1>1 DEF MayAppend, Followers
  <2>3. Fits(s, w, sv, X \cup {"EX_REQ"}, a, r, z, Y, ds, held, dem, prom)
    BY <1>1, <1>4, <2>1
  <2>4. QED
    BY <2>2, <2>3
<1>5. QED
  BY <1>2, <1>3, <1>4

\* A store that hits.
LEMMA WriteHitFits ==
  ASSUME NEW s, NEW w, NEW sv, NEW X, NEW a, NEW r, NEW z, NEW Y, NEW ds, NEW held,
         NEW dem, NEW prom,
         Typed(s, w, sv, X, a, r, z, ds, held, dem),
         Fits(s, w, sv, X, a, r, z, Y, ds, held, dem, prom), s \in {"E", "M"}
  PROVE  Fits("M", w, sv, X, a, r, z, Y, ds, held, dem, prom)
BY DEF Typed, Fits, Demands, CoreReqs, GiveUps

\* A cache that goes on with the waiter w: it has the line in state s, its
\* inbox holds at most the demand a, and nobody else stands between.
LEMMA ServeFits ==
  ASSUME NEW s \in {"S", "E", "M"}, NEW w \in Accesses \cup {"none"}, NEW X, NEW a, NEW ds,
         NEW held, NEW dem,
         Typed(s, w, FALSE, X, a, "none", "none", ds, held, dem),
         Fits(s, "none", FALSE, X, a, "none", "none", {}, ds, held, dem, "no")
  PROVE  /\ w = "none" => Fits(s, w, FALSE, X, a, "none", "none", {}, ds, held, dem, "no")
         /\ w = "W" /\ s = "S" =>
              /\ MayAppend(X, "UPGRADE_REQ")
              /\ Fits("SU", w, FALSE, X \cup {"UPGRADE_REQ"}, a, "none", "none", {}, ds,
                      held, dem, "no")
         /\ w = "R" => Fits(s, w, TRUE, X, a, "none", "none", {}, ds, held, dem, "no")
         /\ w = "W" /\ s # "S" =>
              Fits("M", w, TRUE, X, a, "none", "none", {}, ds, held, dem, "no")
<1> USE DEF Typed, Fits, Accesses, CStates, DStates, ToDirs, Demands, Replies, CoreReqs,
            GiveUps
<1>1. MayAppend(X, "UPGRADE_REQ")
  BY DEF MayAppend, Followers
<1>2. w = "W" /\ s = "S" =>
        Fits("SU", w, FALSE, X \cup {"UPGRADE_REQ"}, a, "none", "none", {}, ds, held, dem, "no")
  OBVIOUS
<1>3. w = "R" => Fits(s, w, TRUE, X, a, "none", "none", {}, ds, held, dem, "no")
  OBVIOUS
<1>4. w = "W" /\ s # "S" =>
        Fits("M", w, TRUE, X, a, "none", "none", {}, ds, held, dem, "no")
  OBVIOUS
<1>5. QED
  BY <1>1, <1>2, <1>3, <1>4

\* A reply arrives: the line is there, as writable as the first waiter needs.
LEMMA ReplyFits ==
  ASSUME NEW s, NEW w, NEW sv, NEW X, NEW r, NEW z, NEW Y, NEW ds, NEW held,
         NEW dem, NEW prom,
         Typed(s, w, sv, X, "none", r, z, ds, held, dem),
         Fits(s, w, sv, X, "none", r, z, Y, ds, held, dem, prom), r \in Replies
  PROVE  /\ Y = {} /\ prom = "no" /\ ~sv /\ w \in Accesses
         /\ r \in {"EX_REP", "SH_REP"} => s = "I"
         /\ r = "UPGRADE_REP" =>
              s = "SU" /\ Fits("M", "none", FALSE, X, z, "none", "none", {}, ds, held, dem, "no")
         /\ r = "SH_REP" =>
              Fits("S", "none", FALSE, X, z, "none", "none", {}, ds, held, dem, "no")
         /\ r = "EX_REP" /\ w = "W" =>
              Fits("M", "none", FALSE, X, z, "none", "none", {}, ds, held, dem, "no")
         /\ r = "EX_REP" /\ w = "R" =>
              Fits("E", "none", FALSE, X, z, "none", "none", {}, ds, held, dem, "no")
<1> USE DEF Typed, Fits, Accesses, CStates, DStates, ToDirs, Demands, Replies, CoreReqs,
            GiveUps
<1>1. Y = {} /\ ~sv /\ w \in Accesses /\ X \cap CoreReqs = {}
  OBVIOUS
<1>2. prom = "no"
  OBVIOUS
<1>3. r \in {"EX_REP", "SH_REP"} => s = "I"
  OBVIOUS
<1>4. r = "UPGRADE_REP" =>
        s = "SU" /\ Fits("M", "none", FALSE, X, z, "none", "none", {}, ds, held, dem, "no")
  BY <1>1
<1>5. r = "SH_REP" =>
        Fits("S", "none", FALSE, X, z, "none", "none", {}, ds, held, dem, "no")
  BY <1>1
<1>6. r = "EX_REP" /\ w = "W" =>
        Fits("M", "none", FALSE, X, z, "none", "none", {}, ds, held, dem, "no")
  BY <1>1
<1>7. r = "EX_REP" /\ w = "R" =>
        Fits("E", "none", FALSE, X, z, "none", "none", {}, ds, held, dem, "no")
  BY <1>1
<1>8. QED
  BY <1>1, <1>2, <1>3, <1>4, <1>5, <1>6, <1>7

\* A waiter has been served.
LEMMA ServedFits ==
  ASSUME NEW s, NEW w, NEW X, NEW a, NEW r, NEW z, NEW Y, NEW ds, NEW held,
         NEW dem, NEW prom,
         Typed(s, w, TRUE, X, a, r, z, ds, held, dem),
         Fits(s, w, TRUE, X, a, r, z, Y, ds, held, dem, prom)
  PROVE  /\ Y = {} /\ prom = "no" /\ r = "none" /\ z = "none"
         /\ w # "none" /\ s \in {"S", "E", "M"}
         /\ Fits(s, "none", FALSE, X, a, "none", "none", {}, ds, held, dem, "no")
<1> USE DEF Typed, Fits, Accesses, CStates, DStates, ToDirs, Demands, Replies, CoreReqs,
            GiveUps
<1>1. Y = {} /\ r = "none" /\ z = "none" /\ X \cap CoreReqs = {}
  OBVIOUS
<1>2. s \in {"S", "E", "M"} /\ prom = "no" /\ w # "none"
  OBVIOUS
<1>3. QED
  BY <1>1, <1>2

\* A demand finds the line gone.
LEMMA LateFits ==
  ASSUME NEW w, NEW sv, NEW X, NEW a, NEW r, NEW z, NEW Y, NEW ds, NEW held,
         NEW dem, NEW prom,
         Typed("I", w, sv, X, a, r, z, ds, held, dem),
         Fits("I", w, sv, X, a, r, z, Y, ds, held, dem, prom)
  PROVE  Fits("I", w, sv, X, "none", r, z, Y, ds, held, dem, prom)
BY DEF Typed, Fits, Demands

\* A demand is obeyed.
LEMMA GiveUpFits ==
  ASSUME NEW s, NEW w, NEW X, NEW a, NEW r, NEW z, NEW Y, NEW ds, NEW held,
         NEW dem, NEW prom,
         Typed(s, w, FALSE, X, a, r, z, ds, held, dem),
         Fits(s, w, FALSE, X, a, r, z, Y, ds, held, dem, prom), s # "I"
  PROVE  /\ a = "INV_REQ" =>
              /\ MayAppend(X, "INV_REP")
              /\ Fits("I", w, FALSE, X \cup {"INV_REP"}, "none", r, z, Y, ds, held, dem, prom)
         /\ a = "FLUSH_REQ" =>
              /\ MayAppend(X, "FLUSH_REP")
              /\ Fits("I", w, FALSE, X \cup {"FLUSH_REP"}, "none", r, z, Y, ds, held, dem, prom)
         /\ a = "WB_REQ" =>
              /\ MayAppend(X, "WB_REP")
              /\ Fits(IF s = "SU" THEN s ELSE "S", w, FALSE, X \cup {"WB_REP"}, "none", r, z, Y,
                      ds, held, dem, prom)
<1> USE DEF Typed, Fits, Accesses, CStates, DStates, ToDirs, Demands, Replies, CoreReqs,
            GiveUps
<1>1. a \in Demands => r = "none" /\ z = "none" /\ "WB_REP" \notin X /\ a \in dem
  OBVIOUS
<1>2. X \cap GiveUps = {} /\ "SH_REQ" \notin X /\ "EX_REQ" \notin X
  OBVIOUS
<1>3. a \in Demands => X \subseteq {"UPGRADE_REQ"}
  BY <1>1, <1>2
<1>4. a \in Demands => /\ MayAppend(X, "INV_REP") /\ MayAppend(X, "FLUSH_REP")
                       /\ MayAppend(X, "WB_REP")
  BY <1>3 DEF MayAppend, Followers
<1>5. a = "INV_REQ" =>
        Fits("I", w, FALSE, X \cup {"INV_REP"}, "none", r, z, Y, ds, held, dem, prom)
  BY <1>1, <1>2
<1>6. a = "FLUSH_REQ" =>
        Fits("I", w, FALSE, X \cup {"FLUSH_REP"}, "none", r, z, Y, ds, held, dem, prom)
  BY <1>1, <1>2
<1>7. a = "WB_REQ" =>
        Fits(IF s = "SU" THEN s ELSE "S", w, FALSE, X \cup {"WB_REP"}, "none", r, z, Y,
             ds, held, dem, prom)
  BY <1>1, <1>2
<1>8. QED
  BY <1>4, <1>5, <1>6, <1>7

\* The line is evicted: with its data if it is MODIFIED.
LEMMA EvictFits ==
  ASSUME NEW s \in {"S", "E", "M"}, NEW w, NEW X, NEW a, NEW r, NEW z, NEW Y, NEW ds, NEW held,
         NEW dem, NEW prom,
         Typed(s, w, FALSE, X, a, r, z, ds, held, dem),
         Fits(s, w, FALSE, X, a, r, z, Y, ds, held, dem, prom)
  PROVE  /\ s # "M" =>
              /\ MayAppend(X, "INV_REP")
              /\ Fits("I", w, FALSE, X \cup {"INV_REP"}, a, r, z, Y, ds, held, dem, prom)
         /\ s = "M" =>
              /\ MayAppend(X, "FLUSH_REP")
              /\ Fits("I", w, FALSE, X \cup {"FLUSH_REP"}, a, r, z, Y, ds, held, dem, prom)
<1> USE DEF Typed, Fits, Accesses, CStates, DStates, ToDirs, Demands, Replies, CoreReqs,
            GiveUps
<1>1. X \subseteq {"WB_REP"} /\ (s = "M" => X = {})
  OBVIOUS
<1>2. MayAppend(X, "INV_REP") /\ (s = "M" => MayAppend(X, "FLUSH_REP"))
  BY <1>1 DEF MayAppend, Followers
<1>3. s # "M" => Fits("I", w, FALSE, X \cup {"INV_REP"}, a, r, z, Y, ds, held, dem, prom)
  BY <1>1
<1>4. s = "M" => Fits("I", w, FALSE, X \cup {"FLUSH_REP"}, a, r, z, Y, ds, held, dem, prom)
  BY <1>1
<1>5. QED
  BY <1>2, <1>3, <1>4

-----------------------------------------------------------------------------
(* What the directory does keeps a cache fitting. *)

\* The directory queues the request t that was first in the channel.
LEMMA QueuedFits ==
  ASSUME NEW s, NEW w, NEW sv, NEW X, NEW a, NEW r, NEW z, NEW Y, NEW ds, NEW held,
         NEW dem, NEW prom, NEW t \in CoreReqs,
         Typed(s, w, sv, X, a, r, z, ds, held, dem),
         Fits(s, w, sv, X, a, r, z, Y, ds, held, dem, prom),
         t \in X, \A T \in X \ {t} : T \in Followers(t)
  PROVE  /\ Y = {}
         /\ Fits(s, w, sv, X \ {t}, a, r, z, {t}, ds, held, dem, prom)
<1>1. Y = {}
  BY DEF Typed, Fits
<1>2. (X \ {t}) \cap CoreReqs = {} /\ (t # "UPGRADE_REQ" => X \ {t} = {})
  BY DEF Typed, CoreReqs, ToDirs, GiveUps, Followers
<1>3. Fits(s, w, sv, X \ {t}, a, r, z, {t}, ds, held, dem, prom)
  BY <1>1, <1>2 DEF Typed, Fits, CoreReqs, GiveUps, Demands, Replies, CStates
<1>4. QED
  BY <1>1, <1>3

\* The directory takes the message t by which the cache gave up its copy.
LEMMA GoneFits ==
  ASSUME NEW s, NEW w, NEW sv, NEW X, NEW a, NEW r, NEW z, NEW Y, NEW ds, NEW held,
         NEW dem, NEW prom, NEW t \in GiveUps,
         Typed(s, w, sv, X, a, r, z, ds, held, dem),
         Fits(s, w, sv, X, a, r, z, Y, ds, held, dem, prom),
         t \in X, \A T \in X \ {t} : T \in Followers(t)
  PROVE  /\ held = "yes" /\ prom = "no" /\ s = "I"
         /\ "UPGRADE_REQ" \in Y => dem # {}
         /\ \A ds2 : Fits(s, w, sv, X \ {t}, a, r, z, Y, ds2, "no", {}, prom)
<1>1. held = "yes" /\ prom = "no" /\ s = "I" /\ r = "none" /\ z = "none"
  BY DEF Typed, Fits, GiveUps, Replies, Demands
<1>2. X \ {t} \subseteq {"SH_REQ", "EX_REQ"}
  BY DEF Followers, GiveUps
<1>3. \A ds2 : Fits(s, w, sv, X \ {t}, a, r, z, Y, ds2, "no", {}, prom)
  BY <1>1, <1>2 DEF Typed, Fits, CoreReqs, GiveUps, Demands
<1>4. "UPGRADE_REQ" \in Y => dem # {}
  BY DEF Fits, GiveUps
<1>5. QED
  BY <1>1, <1>3, <1>4

\* A cache the directory does not list does not mind the state of the entry.
LEMMA UnlistedFits ==
  ASSUME NEW s, NEW w, NEW sv, NEW X, NEW a, NEW r, NEW z, NEW Y, NEW ds, NEW held,
         NEW dem, NEW prom,
         Typed(s, w, sv, X, a, r, z, ds, held, dem),
         Fits(s, w, sv, X, a, r, z, Y, ds, held, dem, prom), held = "no"
  PROVE  /\ s = "I" /\ prom = "no" /\ dem = {} /\ X \cap GiveUps = {} /\ r = "none"
         /\ "WB_REP" \notin X
         /\ \A ds2 : Fits(s, w, sv, X, a, r, z, Y, ds2, held, {}, prom)
<1>1. dem = {}
  BY DEF Typed
<1>2. s = "I" /\ prom = "no" /\ X \cap GiveUps = {} /\ r = "none" /\ z = "none"
      /\ "WB_REP" \notin X
  BY <1>1 DEF Typed, Fits, Replies
<1>3. \A ds2 : Fits(s, w, sv, X, a, r, z, Y, ds2, held, {}, prom)
  BY <1>1, <1>2 DEF Fits, CoreReqs, GiveUps, Demands
<1>4. QED
  BY <1>1, <1>2, <1>3

\* The directory takes the data that the cache wrote back.
LEMMA WrittenBackFits ==
  ASSUME NEW s, NEW w, NEW sv, NEW X, NEW a, NEW r, NEW z, NEW Y, NEW ds, NEW held,
         NEW dem, NEW prom,
         Typed(s, w, sv, X, a, r, z, ds, held, dem),
         Fits(s, w, sv, X, a, r, z, Y, ds, held, dem, prom), "WB_REP" \in X
  PROVE  /\ held = "yes" /\ "WB_REQ" \in dem
         /\ Fits(s, w, sv, X \ {"WB_REP"}, a, r, z, Y, "SHARED", held, {}, prom)
<1>1. "WB_REQ" \in dem /\ r = "none" /\ dem = {"WB_REQ"} /\ held = "yes"
  BY DEF Typed, Fits
<1>2. /\ \A T \in Demands : z # T
      /\ s # "I" \/ X \cap GiveUps # {} => \A T \in Demands : a # T
  BY DEF Fits
<1>3. Fits(s, w, sv, X \ {"WB_REP"}, a, r, z, Y, "SHARED", held, {}, prom)
  BY <1>1, <1>2 DEF Typed, Fits, CoreReqs, GiveUps, Demands, Replies
<1>4. QED
  BY <1>1, <1>3

\* The directory lists the requester of the head.
LEMMA ClaimFits ==
  ASSUME NEW s, NEW w, NEW sv, NEW X, NEW a, NEW r, NEW z, NEW Y, NEW ds, NEW held,
         NEW prom,
         Typed(s, w, sv, X, a, r, z, ds, held, {}),
         Fits(s, w, sv, X, a, r, z, Y, ds, held, {}, prom), held = "yes" => prom = "yes"
  PROVE  /\ s = "I" /\ r = "none" /\ X \cap GiveUps = {} /\ "WB_REP" \notin X
         /\ \A ds2 : Fits(s, w, sv, X, a, r, z, Y, ds2, "yes", {}, "yes")
<1>1. s = "I" /\ r = "none" /\ z = "none" /\ X \cap GiveUps = {} /\ "WB_REP" \notin X
  BY DEF Typed, Fits, GiveUps, Demands, Replies
<1>2. QED
  BY <1>1 DEF Typed, Fits, CoreReqs, GiveUps, Demands

\* The head starts to be served.
LEMMA AskedFits ==
  ASSUME NEW s, NEW w, NEW sv, NEW X, NEW a, NEW r, NEW z, NEW Y, NEW ds, NEW held,
         NEW dem, NEW prom,
         Typed(s, w, sv, X, a, r, z, ds, held, dem),
         Fits(s, w, sv, X, a, r, z, Y, ds, held, {}, prom)
  PROVE  Fits(s, w, sv, X, a, r, z, Y, ds, held, dem, prom)
<1>1. /\ z = "none" /\ "WB_REP" \notin X
      /\ s # "I" \/ X \cap GiveUps # {} => a = "none"
  BY DEF Typed, Fits
<1>2. QED
  BY <1>1 DEF Typed, Fits, CoreReqs, GiveUps, Demands

\* Something is asked of a cache to which no reply is on its way.
LEMMA AskedAheadFits ==
  ASSUME NEW s, NEW w, NEW sv, NEW X, NEW a, NEW r, NEW z, NEW Y, NEW ds, NEW held,
         NEW dem, NEW prom, NEW d,
         Typed(s, w, sv, X, a, r, z, ds, held, dem),
         Fits(s, w, sv, X, a, r, z, Y, ds, held, {}, prom), d \in dem, prom = "no", r = "none"
  PROVE  a = "none" /\ Fits(s, w, sv, X, d, r, z, Y, ds, held, dem, prom)
<1>1. /\ z = "none" /\ "WB_REP" \notin X
      /\ s # "I" \/ X \cap GiveUps # {} => a = "none"
  BY DEF Typed, Fits
<1>2. a = "none"
  BY <1>1 DEF Typed, Fits
<1>3. QED
  BY <1>1, <1>2 DEF Typed, Fits, CoreReqs, GiveUps, Demands

\* Something is asked of a cache to which a reply is on its way.
LEMMA AskedBehindFits ==
  ASSUME NEW s, NEW w, NEW sv, NEW X, NEW a, NEW r, NEW z, NEW Y, NEW ds, NEW held,
         NEW dem, NEW prom, NEW d,
         Typed(s, w, sv, X, a, r, z, ds, held, dem),
         Fits(s, w, sv, X, a, r, z, Y, ds, held, {}, prom), d \in dem, prom = "no", r # "none"
  PROVE  z = "none" /\ Fits(s, w, sv, X, a, r, d, Y, ds, held, dem, prom)
<1>1. /\ z = "none" /\ "WB_REP" \notin X
      /\ s # "I" \/ X \cap GiveUps # {} => a = "none"
  BY DEF Typed, Fits
<1>2. QED
  BY <1>1 DEF Typed, Fits, CoreReqs, GiveUps, Demands

\* The reply new answers a request of type t when the entry is in state ds.
GrantOK(new, ds, t) ==
  IF new = "SH_REP" THEN ds = "SHARED"
  ELSE ds = "EXCLUSIVE" \/ (ds = "MODIFIED" /\ t \in {"EX_REQ", "UPGRADE_REQ"})

\* The cache is sent the line it was promised.
LEMMA GrantFits ==
  ASSUME NEW s, NEW w, NEW sv, NEW X, NEW a, NEW r, NEW z, NEW ds, NEW held,
         NEW t \in CoreReqs, NEW new \in {"EX_REP", "SH_REP"},
         Typed(s, w, sv, X, a, r, z, ds, held, {}),
         Fits(s, w, sv, X, a, r, z, {t}, ds, held, {}, "yes"),
         GrantOK(new, ds, t)
  PROVE  /\ r = "none" /\ z = "none"
         /\ Fits(s, w, sv, X, a, new, z, {}, ds, held, {}, "no")
<1>1. /\ s = "I" /\ r = "none" /\ z = "none" /\ X \cap GiveUps = {} /\ "WB_REP" \notin X
      /\ X \cap CoreReqs = {} /\ w # "none" /\ ~sv /\ held = "yes"
  BY DEF Typed, Fits, GiveUps, Demands, Replies, CoreReqs
<1>2. new = "EX_REP" /\ ds = "MODIFIED" => w = "W"
  BY DEF Fits, CoreReqs, GrantOK
<1>3. QED
  BY <1>1, <1>2 DEF Typed, Fits, CoreReqs, GiveUps, Demands, GrantOK

\* The cache is allowed to write the copy it has.
LEMMA UpgradedFits ==
  ASSUME NEW s, NEW w, NEW sv, NEW X, NEW a, NEW r, NEW z, NEW t \in {"UPGRADE_REQ"}, NEW ds,
         NEW held,
         Typed(s, w, sv, X, a, r, z, ds, held, {}),
         Fits(s, w, sv, X, a, r, z, {t}, ds, held, {}, "no"), held = "yes"
  PROVE  /\ s = "SU" /\ r = "none" /\ z = "none" /\ a = "none"
         /\ ds = "SHARED"
         /\ Fits(s, w, sv, X, a, "UPGRADE_REP", z, {}, "MODIFIED", held, {}, "no")
<1>1. /\ s = "SU" /\ r = "none" /\ z = "none" /\ X \cap GiveUps = {} /\ "WB_REP" \notin X
      /\ X \cap CoreReqs = {} /\ w = "W" /\ ~sv /\ a = "none" /\ ds = "SHARED"
  BY DEF Typed, Fits, GiveUps, Demands, Replies, CoreReqs
<1>2. QED
  BY <1>1 DEF Typed, Fits, CoreReqs, GiveUps, Demands

-----------------------------------------------------------------------------
(* The queue of requests. *)

\* A cache has one request in the queue at most.
Unique(A) == \A i, j \in DOMAIN A : A[i].requester = A[j].requester => i = j

\* A request joins the queue: enqueue of m_dram_directory_req_queue_list.
LEMMA AskedAppend ==
  ASSUME NEW S, NEW A \in Seq(S), NEW req, NEW c
  PROVE  Asked(Append(A, req), c)
           = IF req.requester = c THEN Asked(A, c) \cup {req.type} ELSE Asked(A, c)
<1> DEFINE new == Append(A, req)
<1>1. /\ DOMAIN A = 1..Len(A) /\ Len(A) \in Nat
      /\ DOMAIN new = 1..(Len(A) + 1)
      /\ \A i \in DOMAIN A : new[i] = A[i]
      /\ new[Len(A) + 1] = req
  <2>1. Len(new) = Len(A) + 1 /\ DOMAIN new = 1..Len(new)
    OBVIOUS
  <2>2. QED
    BY <2>1
<1> HIDE DEF new
<1>2. ASSUME NEW T
      PROVE  (\E i \in DOMAIN new : new[i].requester = c /\ new[i].type = T)
               <=> \/ \E i \in DOMAIN A : A[i].requester = c /\ A[i].type = T
                   \/ req.requester = c /\ req.type = T
  <2>1. ASSUME NEW i \in DOMAIN new, new[i].requester = c, new[i].type = T
        PROVE  \/ \E k \in DOMAIN A : A[k].requester = c /\ A[k].type = T
               \/ req.requester = c /\ req.type = T
    <3>1. i \in DOMAIN A \/ i = Len(A) + 1
      BY <1>1
    <3>2. QED
      BY <1>1, <2>1, <3>1
  <2>2. ASSUME NEW i \in DOMAIN A, A[i].requester = c, A[i].type = T
        PROVE  \E k \in DOMAIN new : new[k].requester = c /\ new[k].type = T
    <3>1. i \in DOMAIN new /\ new[i] = A[i]
      BY <1>1
    <3>2. QED
      BY <2>2, <3>1
  <2>3. ASSUME req.requester = c, req.type = T
        PROVE  \E k \in DOMAIN new : new[k].requester = c /\ new[k].type = T
    <3>1. Len(A) + 1 \in DOMAIN new
      BY <1>1
    <3>2. QED
      BY <1>1, <2>3, <3>1
  <2>4. QED
    BY <2>1, <2>2, <2>3
<1>3. \A T : T \in Asked(new, c) <=> \/ T \in Asked(A, c)
                                     \/ req.requester = c /\ req.type = T
  <2> TAKE T
  <2>1. T \in Asked(new, c)
          <=> \E i \in DOMAIN new : new[i].requester = c /\ new[i].type = T
    BY DEF Asked
  <2>2. T \in Asked(A, c) <=> \E i \in DOMAIN A : A[i].requester = c /\ A[i].type = T
    BY DEF Asked
  <2>3. QED
    BY <1>2, <2>1, <2>2
<1>4. CASE req.requester = c
  <2>1. Asked(new, c) = Asked(A, c) \cup {req.type}
    BY <1>3, <1>4
  <2>2. QED
    BY <1>4, <2>1 DEF new
<1>5. CASE req.requester # c
  <2>1. Asked(new, c) = Asked(A, c)
    BY <1>3, <1>5
  <2>2. QED
    BY <1>5, <2>1 DEF new
<1>6. QED
  BY <1>4, <1>5

\* The request at the head leaves the queue.
LEMMA AskedTail ==
  ASSUME NEW S, NEW A \in Seq(S), A # <<>>, Unique(A), NEW c
  PROVE  /\ A[1].requester = c => Asked(A, c) = {A[1].type} /\ Asked(Tail(A), c) = {}
         /\ A[1].requester # c => Asked(Tail(A), c) = Asked(A, c)
<1> DEFINE new == Tail(A)
<1>1. /\ DOMAIN A = 1..Len(A) /\ Len(A) \in Nat /\ Len(A) >= 1
      /\ DOMAIN new = 1..(Len(A) - 1)
      /\ \A i \in DOMAIN new : new[i] = A[i + 1]
  <2>1. /\ Len(A) \in Nat /\ DOMAIN A = 1..Len(A) /\ Len(A) >= 1
        /\ new \in Seq(S) /\ Len(new) = Len(A) - 1
        /\ \A i \in 1..(Len(A) - 1) : new[i] = A[i + 1]
    BY SequenceFacts
  <2>2. DOMAIN new = 1..Len(new)
    BY <2>1, SequenceFacts
  <2>3. QED
    BY <2>1, <2>2
<1> HIDE DEF new
<1>2. 1 \in DOMAIN A /\ \A i \in DOMAIN new : i + 1 \in DOMAIN A /\ i + 1 # 1
  BY <1>1
<1>3. CASE A[1].requester = c
  <2>1. \A i \in DOMAIN A : A[i].requester = c => i = 1
    BY <1>2, <1>3 DEF Unique
  <2>2. \A T : T \in Asked(A, c) <=> T = A[1].type
    BY <1>2, <1>3, <2>1 DEF Asked
  <2>3. Asked(A, c) = {A[1].type}
    BY <2>2
  <2>4. \A i \in DOMAIN new : new[i].requester # c
    BY <1>1, <1>2, <2>1
  <2>5. Asked(new, c) = {}
    BY <2>4 DEF Asked
  <2>6. QED
    BY <1>3, <2>3, <2>5 DEF new
<1>4. CASE A[1].requester # c
  <2>1. ASSUME NEW T, NEW i \in DOMAIN new, new[i].requester = c, new[i].type = T
        PROVE  \E k \in DOMAIN A : A[k].requester = c /\ A[k].type = T
    BY <1>1, <1>2, <2>1
  <2>2. ASSUME NEW T, NEW i \in DOMAIN A, A[i].requester = c, A[i].type = T
        PROVE  \E k \in DOMAIN new : new[k].requester = c /\ new[k].type = T
    <3>1. i # 1
      BY <1>4, <2>2
    <3>2. i - 1 \in DOMAIN new /\ new[i - 1] = A[i]
      BY <1>1, <3>1
    <3>3. QED
      BY <2>2, <3>2
  <2>3. ASSUME NEW T PROVE T \in Asked(new, c) <=> T \in Asked(A, c)
    <3>1. T \in Asked(new, c)
            <=> \E i \in DOMAIN new : new[i].requester = c /\ new[i].type = T
      BY DEF Asked
    <3>2. T \in Asked(A, c) <=> \E i \in DOMAIN A : A[i].requester = c /\ A[i].type = T
      BY DEF Asked
    <3>3. QED
      BY <2>1, <2>2, <3>1, <3>2
  <2>4. Asked(new, c) = Asked(A, c)
    BY <2>3
  <2>5. QED
    BY <1>4, <2>4 DEF new
<1>5. QED
  BY <1>3, <1>4

\* The request at the head is marked.
LEMMA AskedMarked ==
  ASSUME NEW S, NEW A \in Seq(S), A # <<>>, NEW h \in S,
         h.requester = A[1].requester, h.type = A[1].type
  PROVE  /\ <<h>> \o Tail(A) \in Seq(S)
         /\ <<h>> \o Tail(A) # <<>> /\ (<<h>> \o Tail(A))[1] = h
         /\ Tail(<<h>> \o Tail(A)) = Tail(A)
         /\ DOMAIN (<<h>> \o Tail(A)) = DOMAIN A
         /\ \A i \in DOMAIN A : i # 1 => (<<h>> \o Tail(A))[i] = A[i]
         /\ Unique(A) => Unique(<<h>> \o Tail(A))
         /\ \A c : Asked(<<h>> \o Tail(A), c) = Asked(A, c)
<1> DEFINE new == <<h>> \o Tail(A)
<1>1. /\ Len(A) \in Nat /\ DOMAIN A = 1..Len(A) /\ Len(A) >= 1
      /\ Tail(A) \in Seq(S) /\ Len(Tail(A)) = Len(A) - 1
      /\ \A i \in 1..(Len(A) - 1) : Tail(A)[i] = A[i + 1]
  BY SequenceFacts
<1>2. <<h>> \in Seq(S) /\ Len(<<h>>) = 1 /\ <<h>>[1] = h
  OBVIOUS
<1>3. /\ new \in Seq(S) /\ Len(new) = 1 + Len(Tail(A))
      /\ \A i \in 1..(1 + Len(Tail(A))) : new[i] = IF i <= 1 THEN <<h>>[i] ELSE Tail(A)[i - 1]
  BY <1>1, <1>2, ConcatProperties
<1>4. DOMAIN new = 1..Len(new)
  BY <1>3, SequenceFacts
<1>5. Tail(new) = Tail(A)
  OBVIOUS
<1> HIDE DEF new
<1>6. /\ DOMAIN new = DOMAIN A /\ new # <<>> /\ new[1] = h
  <2>1. Len(new) = Len(A)
    BY <1>1, <1>3
  <2>2. new # <<>>
    BY <1>1, <1>3, <2>1, SequenceFacts
  <2>3. new[1] = h
    BY <1>1, <1>2, <1>3
  <2>4. QED
    BY <1>1, <1>4, <2>1, <2>2, <2>3
<1>7. ASSUME NEW i \in DOMAIN A, i # 1 PROVE new[i] = A[i]
  <2>1. i \in 1..(1 + Len(Tail(A))) /\ ~(i <= 1) /\ i - 1 \in 1..(Len(A) - 1) /\ (i - 1) + 1 = i
    BY <1>1, <1>7
  <2>2. QED
    BY <1>1, <1>3, <2>1
<1>8. \A i \in DOMAIN A : new[i].requester = A[i].requester /\ new[i].type = A[i].type
  BY <1>6, <1>7
<1>9. Unique(A) => Unique(new)
  BY <1>6, <1>8 DEF Unique
<1>10. \A c : Asked(new, c) = Asked(A, c)
  BY <1>6, <1>8 DEF Asked
<1>11. QED
  BY <1>3, <1>5, <1>6, <1>7, <1>9, <1>10 DEF new

\* When anything is asked of a cache at all.
LEMMA DemandedFacts ==
  ASSUME NEW e \in Entries, NEW A, NEW b \in BOOLEAN, NEW c
  PROVE  /\ Demanded(e, A, b, c) \subseteq Demands
         /\ "INV_REQ" \in Demanded(e, A, b, c) => e.dstate = "SHARED"
         /\ "WB_REQ" \in Demanded(e, A, b, c) => Demanded(e, A, b, c) = {"WB_REQ"}
         /\ Demanded(e, A, b, c) # {} => /\ b /\ A # <<>> /\ c \in e.sharers
                                         /\ ~A[1].wait /\ A[1].requester # c
<1>1. CASE ~b \/ A = <<>> \/ c \notin e.sharers \/ A[1].wait \/ A[1].requester = c
  BY <1>1 DEF Demanded
<1>2. CASE ~(~b \/ A = <<>> \/ c \notin e.sharers \/ A[1].wait \/ A[1].requester = c)
  BY <1>2 DEF Demanded, Demands
<1>3. QED
  BY <1>1, <1>2

\* Nothing is asked while the directory serves no request.
LEMMA NothingDemanded == \A e, A, c : Demanded(e, A, FALSE, c) = {}
BY DEF Demanded

\* The directory serves nothing, or the head of A.
IdleOK(cst, ws, sv, td, tc, e, A)    == CachesOK(cst, ws, sv, td, tc, e, A, FALSE)
ServingOK(cst, ws, sv, td, tc, e, A) == CachesOK(cst, ws, sv, td, tc, e, A, TRUE)

\* The types of the caches' variables and of the channels.
Frame(cst, ws, sv, td, tc) ==
  /\ cst \in [Caches -> CStates] /\ ws \in [Caches -> Seq(Accesses)]
  /\ sv \in [Caches -> BOOLEAN]
  /\ td \in [Caches -> Seq(CacheMsgs)] /\ tc \in [Caches -> Seq(DirMsgs)]

\* What the invariant says of one cache is about values of the right types.
LEMMA ViewTyped ==
  ASSUME NEW cst, NEW ws, NEW sv, NEW td, NEW tc, NEW e \in Entries, NEW A, NEW b \in BOOLEAN,
         Frame(cst, ws, sv, td, tc), NEW c \in Caches, Inbox(tc[c])
  PROVE  Typed(cst[c], First(ws[c]), sv[c], Types(td[c]), Ahead(tc[c]), Reply(tc[c]),
               Behind(tc[c]), e.dstate, Listed(e, c), Demanded(e, A, b, c))
<1>1. cst[c] \in CStates /\ sv[c] \in BOOLEAN /\ td[c] \in Seq(CacheMsgs)
      /\ tc[c] \in Seq(DirMsgs) /\ ws[c] \in Seq(Accesses)
  BY DEF Frame
<1>2. First(ws[c]) \in Accesses \cup {"none"}
  <2>1. ws[c] # <<>> => Head(ws[c]) \in Accesses
    BY <1>1
  <2>2. QED
    BY <2>1 DEF First
<1>3. Types(td[c]) \subseteq ToDirs
  <2>1. \A i \in DOMAIN td[c] : td[c][i] \in CacheMsgs
    BY <1>1, SequenceFacts
  <2>2. \A i \in DOMAIN td[c] : td[c][i].type \in ToDirs
    BY <2>1 DEF CacheMsgs, ToDirs, GiveUps
  <2>3. QED
    BY <2>2 DEF Types
<1>4. /\ Ahead(tc[c]) \in Demands \cup {"none"}
      /\ Reply(tc[c]) \in Replies \cup {"none"}
      /\ Behind(tc[c]) \in Demands \cup {"none"}
      /\ Behind(tc[c]) # "none" => Reply(tc[c]) # "none"
  BY <1>1, InboxFacts
<1>5. e.dstate \in DStates /\ Listed(e, c) \in {"yes", "no"}
  BY DEF Entries, Listed
<1>6. /\ Demanded(e, A, b, c) \subseteq Demands
      /\ "INV_REQ" \in Demanded(e, A, b, c) => e.dstate = "SHARED"
      /\ "WB_REQ" \in Demanded(e, A, b, c) => Demanded(e, A, b, c) = {"WB_REQ"}
      /\ Demanded(e, A, b, c) # {} => Listed(e, c) = "yes"
  BY DemandedFacts DEF Listed
<1>7. QED
  BY <1>1, <1>2, <1>3, <1>4, <1>5, <1>6 DEF Typed

-----------------------------------------------------------------------------
(* The steps of the directory, seen by all caches. *)

\* Nothing is asked of a cache any more, so that the head is served no longer.
LEMMA CallOff ==
  ASSUME NEW cst, NEW ws, NEW sv, NEW td, NEW tc, NEW e, NEW A,
         ServingOK(cst, ws, sv, td, tc, e, A),
         \A c \in Caches : Demanded(e, A, TRUE, c) = {}
  PROVE  IdleOK(cst, ws, sv, td, tc, e, A)
<1>1. \A c : Demanded(e, A, FALSE, c) = {}
  BY DEF Demanded
<1>2. QED
  BY <1>1 DEF CachesOK, IdleOK, ServingOK, CacheOK

\* A request is queued.
LEMMA Queueing ==
  ASSUME NEW cst, NEW ws, NEW sv, NEW td, NEW tc, NEW e \in Entries, NEW A \in Seq(Requests),
         NEW b \in BOOLEAN, NEW q \in Caches, NEW req,
         Frame(cst, ws, sv, td, tc), CachesOK(cst, ws, sv, td, tc, e, A, b),
         b => A # <<>>, td[q] # <<>>, Fresh(req), req.requester = q,
         Head(td[q]).type = req.type
  PROVE  /\ Asked(A, q) = {}
         /\ CachesOK(cst, ws, sv, [td EXCEPT ![q] = Tail(@)], tc, e, Append(A, req), b)
<1> DEFINE new == Append(A, req)
           td2 == [td EXCEPT ![q] = Tail(@)]
           t == req.type
<1>1. \A c \in Caches : Demanded(e, new, b, c) = Demanded(e, A, b, c)
  <2>1. CASE b
    <3>1. A # <<>> /\ new # <<>> /\ new[1] = A[1]
      BY <2>1
    <3>2. QED
      BY <3>1 DEF Demanded
  <2>2. CASE ~b
    BY <2>2 DEF Demanded
  <2>3. QED
    BY <2>1, <2>2
<1>2. \A c \in Caches : Due(new, c) = Due(A, c)
  <2>1. CASE A = <<>>
    <3>1. new[1] = req
      BY <2>1
    <3>2. QED
      BY <2>1, <3>1 DEF Due, Promised, Fresh
  <2>2. CASE A # <<>>
    <3>1. new # <<>> /\ new[1] = A[1]
      BY <2>2
    <3>2. QED
      BY <2>2, <3>1 DEF Due, Promised
  <2>3. QED
    BY <2>1, <2>2
<1>3. \A c \in Caches : Asked(new, c) = IF c = q THEN Asked(A, c) \cup {t} ELSE Asked(A, c)
  BY AskedAppend
<1>4. \A c \in Caches : td2[c] = IF c = q THEN Tail(td[c]) ELSE td[c]
  BY DEF Frame
<1>5. td[q] \in Seq(CacheMsgs) /\ t \in CoreReqs
  BY DEF Frame, Fresh
<1> HIDE DEF new, td2, t
<1>6. /\ Asked(A, q) = {}
      /\ CacheOK(q, cst, ws, sv, td2, tc, e, new, b)
  <2>1. /\ InSequence(td[q]) /\ Inbox(tc[q])
        /\ Fits(cst[q], First(ws[q]), sv[q], Types(td[q]), Ahead(tc[q]), Reply(tc[q]),
                Behind(tc[q]), Asked(A, q), e.dstate, Listed(e, q),
                Demanded(e, A, b, q), Due(A, q))
    BY DEF CachesOK, IdleOK, ServingOK, CacheOK
  <2>2. Typed(cst[q], First(ws[q]), sv[q], Types(td[q]), Ahead(tc[q]), Reply(tc[q]),
              Behind(tc[q]), e.dstate, Listed(e, q), Demanded(e, A, b, q))
    BY <2>1, ViewTyped
  <2>3. /\ t \in Types(td[q]) /\ Types(Tail(td[q])) = Types(td[q]) \ {t}
        /\ InSequence(Tail(td[q])) /\ \A T \in Types(Tail(td[q])) : T \in Followers(t)
    BY <1>5, <2>1, TailTypes DEF t
  <2>4. /\ Asked(A, q) = {}
        /\ Fits(cst[q], First(ws[q]), sv[q], Types(td[q]) \ {t}, Ahead(tc[q]), Reply(tc[q]),
                Behind(tc[q]), {t}, e.dstate, Listed(e, q),
                Demanded(e, A, b, q), Due(A, q))
    BY <1>5, <2>1, <2>2, <2>3, QueuedFits
  <2>5. Asked(new, q) = {t}
    BY <1>3, <2>4
  <2>6. td2[q] = Tail(td[q])
    BY <1>4
  <2>7. QED
    BY <1>1, <1>2, <2>1, <2>3, <2>4, <2>5, <2>6 DEF CacheOK
<1>7. ASSUME NEW c \in Caches, c # q PROVE CacheOK(c, cst, ws, sv, td2, tc, e, new, b)
  <2>1. /\ Asked(new, c) = Asked(A, c) /\ td2[c] = td[c]
        /\ Demanded(e, new, b, c) = Demanded(e, A, b, c) /\ Due(new, c) = Due(A, c)
    BY <1>1, <1>2, <1>3, <1>4, <1>7
  <2>2. QED
    BY <2>1 DEF CachesOK, IdleOK, ServingOK, CacheOK
<1>8. QED
  BY <1>6, <1>7 DEF CachesOK, IdleOK, ServingOK, new, td2

\* What CacheOK says and the types that go with it.
LEMMA Viewed ==
  ASSUME NEW cst, NEW ws, NEW sv, NEW td, NEW tc, NEW e \in Entries, NEW A, NEW b \in BOOLEAN,
         Frame(cst, ws, sv, td, tc), NEW c \in Caches, CacheOK(c, cst, ws, sv, td, tc, e, A, b)
  PROVE  /\ InSequence(td[c]) /\ Inbox(tc[c])
         /\ td[c] \in Seq(CacheMsgs) /\ tc[c] \in Seq(DirMsgs)
         /\ Fits(cst[c], First(ws[c]), sv[c], Types(td[c]), Ahead(tc[c]), Reply(tc[c]),
                 Behind(tc[c]), Asked(A, c), e.dstate, Listed(e, c),
                 Demanded(e, A, b, c), Due(A, c))
         /\ Typed(cst[c], First(ws[c]), sv[c], Types(td[c]), Ahead(tc[c]), Reply(tc[c]),
                  Behind(tc[c]), e.dstate, Listed(e, c), Demanded(e, A, b, c))
<1>1. /\ InSequence(td[c]) /\ Inbox(tc[c])
      /\ Fits(cst[c], First(ws[c]), sv[c], Types(td[c]), Ahead(tc[c]), Reply(tc[c]),
              Behind(tc[c]), Asked(A, c), e.dstate, Listed(e, c),
              Demanded(e, A, b, c), Due(A, c))
  BY DEF CacheOK
<1>2. td[c] \in Seq(CacheMsgs) /\ tc[c] \in Seq(DirMsgs)
  BY DEF Frame
<1>3. QED
  BY <1>1, <1>2, ViewTyped

\* The same when the directory serves no request.
LEMMA ViewedIdle ==
  ASSUME NEW cst, NEW ws, NEW sv, NEW td, NEW tc, NEW e \in Entries, NEW A,
         Frame(cst, ws, sv, td, tc), NEW c \in Caches,
         CacheOK(c, cst, ws, sv, td, tc, e, A, FALSE)
  PROVE  /\ InSequence(td[c]) /\ Inbox(tc[c])
         /\ td[c] \in Seq(CacheMsgs) /\ tc[c] \in Seq(DirMsgs)
         /\ Fits(cst[c], First(ws[c]), sv[c], Types(td[c]), Ahead(tc[c]), Reply(tc[c]),
                 Behind(tc[c]), Asked(A, c), e.dstate, Listed(e, c), {}, Due(A, c))
         /\ Typed(cst[c], First(ws[c]), sv[c], Types(td[c]), Ahead(tc[c]), Reply(tc[c]),
                  Behind(tc[c]), e.dstate, Listed(e, c), {})
<1>1. Demanded(e, A, FALSE, c) = {}
  BY NothingDemanded
<1>2. /\ InSequence(td[c]) /\ Inbox(tc[c])
      /\ Fits(cst[c], First(ws[c]), sv[c], Types(td[c]), Ahead(tc[c]), Reply(tc[c]),
              Behind(tc[c]), Asked(A, c), e.dstate, Listed(e, c), {}, Due(A, c))
  BY <1>1 DEF CacheOK
<1>3. td[c] \in Seq(CacheMsgs) /\ tc[c] \in Seq(DirMsgs)
  BY DEF Frame
<1>4. Typed(cst[c], First(ws[c]), sv[c], Types(td[c]), Ahead(tc[c]), Reply(tc[c]),
            Behind(tc[c]), e.dstate, Listed(e, c), {})
  <2>1. PICK b \in BOOLEAN : b = FALSE
    OBVIOUS
  <2>2. Demanded(e, A, b, c) = {}
    BY <2>1 DEF Demanded
  <2>3. Typed(cst[c], First(ws[c]), sv[c], Types(td[c]), Ahead(tc[c]), Reply(tc[c]),
              Behind(tc[c]), e.dstate, Listed(e, c), Demanded(e, A, b, c))
    BY <1>2, ViewTyped
  <2>4. QED
    BY <2>2, <2>3
<1>5. QED
  BY <1>2, <1>3, <1>4

\* The head is a request of its requester's.
LEMMA HeadAsked ==
  ASSUME NEW A \in Seq(Requests), A # <<>>, NEW c, A[1].requester = c
  PROVE  A[1].type \in Asked(A, c)
<1>1. 1 \in DOMAIN A
  BY SequenceFacts
<1>2. QED
  BY <1>1 DEF Asked

\* e2 is the entry e without the sharer q.
LeavesEntry(e, A, b, q, e2) ==
  /\ b => A # <<>> /\ HeadOK(e, A[1]) /\ A[1].type \in CoreReqs \cup {"NULLIFY_REQ"}
  /\ e.dstate \in {"EXCLUSIVE", "MODIFIED"} => e.sharers = {e.owner}
  /\ e.sharers = {} <=> e.dstate = "UNCACHED"
  /\ e2.sharers = e.sharers \ {q}
  /\ e2.dstate = IF e2.sharers = {} THEN "UNCACHED" ELSE e.dstate

\* The directory takes the message by which q gave up its copy.
LEMMA Leaving ==
  ASSUME NEW cst, NEW ws, NEW sv, NEW td, NEW tc, NEW e \in Entries, NEW A \in Seq(Requests),
         NEW b \in BOOLEAN, NEW q \in Caches, NEW e2 \in Entries,
         Frame(cst, ws, sv, td, tc), CachesOK(cst, ws, sv, td, tc, e, A, b),
         LeavesEntry(e, A, b, q, e2),
         td[q] # <<>>, Head(td[q]).type \in GiveUps
  PROVE  /\ q \in e.sharers /\ ~Promised(A, q) /\ ~(b /\ A[1].requester = q)
         /\ CachesOK(cst, ws, sv, [td EXCEPT ![q] = Tail(@)], tc, e2, A, b)
<1> USE DEF LeavesEntry
<1> DEFINE td2 == [td EXCEPT ![q] = Tail(@)]
           t == Head(td[q]).type
<1>1. \A c \in Caches : td2[c] = IF c = q THEN Tail(td[c]) ELSE td[c]
  BY DEF Frame
<1>2. td[q] \in Seq(CacheMsgs) /\ t \in GiveUps
  BY DEF Frame
<1> HIDE DEF td2, t
<1>3. /\ InSequence(td[q]) /\ Inbox(tc[q])
      /\ Fits(cst[q], First(ws[q]), sv[q], Types(td[q]), Ahead(tc[q]), Reply(tc[q]),
              Behind(tc[q]), Asked(A, q), e.dstate, Listed(e, q),
              Demanded(e, A, b, q), Due(A, q))
      /\ Typed(cst[q], First(ws[q]), sv[q], Types(td[q]), Ahead(tc[q]), Reply(tc[q]),
               Behind(tc[q]), e.dstate, Listed(e, q), Demanded(e, A, b, q))
  <2>1. CacheOK(q, cst, ws, sv, td, tc, e, A, b)
    BY DEF CachesOK, IdleOK, ServingOK
  <2>2. QED
    BY <2>1, Viewed
<1>4. /\ t \in Types(td[q]) /\ Types(Tail(td[q])) = Types(td[q]) \ {t}
      /\ InSequence(Tail(td[q])) /\ \A T \in Types(Tail(td[q])) : T \in Followers(t)
  BY <1>2, <1>3, TailTypes DEF t
<1>5. /\ Listed(e, q) = "yes" /\ Due(A, q) = "no" /\ cst[q] = "I"
      /\ "UPGRADE_REQ" \in Asked(A, q) => Demanded(e, A, b, q) # {}
      /\ Fits(cst[q], First(ws[q]), sv[q], Types(td[q]) \ {t}, Ahead(tc[q]), Reply(tc[q]),
              Behind(tc[q]), Asked(A, q), e2.dstate, "no", {}, Due(A, q))
  <2>1. /\ t \in Types(td[q]) /\ \A T \in Types(td[q]) \ {t} : T \in Followers(t)
    BY <1>4
  <2>2. /\ Listed(e, q) = "yes" /\ Due(A, q) = "no" /\ cst[q] = "I"
        /\ "UPGRADE_REQ" \in Asked(A, q) => Demanded(e, A, b, q) # {}
        /\ \A ds2 : Fits(cst[q], First(ws[q]), sv[q], Types(td[q]) \ {t}, Ahead(tc[q]),
                         Reply(tc[q]), Behind(tc[q]), Asked(A, q), ds2, "no", {}, Due(A, q))
    BY <1>2, <1>3, <2>1, GoneFits
  <2>3. QED
    BY <2>2
<1>6. ASSUME b, A[1].requester = q PROVE FALSE
  <2>1. A[1].type \in Asked(A, q)
    BY <1>6, HeadAsked
  <2>2. Demanded(e, A, b, q) = {}
    BY <1>6 DEF Demanded
  <2>3. A[1].type # "NULLIFY_REQ"
    BY <1>6, CoherenceAssumption DEF HeadOK
  <2>4. A[1].type # "UPGRADE_REQ"
    BY <1>5, <2>1, <2>2
  <2>5. "SH_REQ" \notin Asked(A, q) /\ "EX_REQ" \notin Asked(A, q)
    BY <1>2, <1>3, <1>4 DEF Fits
  <2>6. QED
    BY <1>6, <2>1, <2>3, <2>4, <2>5 DEF CoreReqs
<1>7. CacheOK(q, cst, ws, sv, td2, tc, e2, A, b)
  <2>1. Demanded(e2, A, b, q) = {} /\ Listed(e2, q) = "no"
    BY DEF Demanded, Listed
  <2>2. td2[q] = Tail(td[q])
    BY <1>1
  <2>3. QED
    BY <1>3, <1>4, <1>5, <2>1, <2>2 DEF CacheOK
<1>8. ASSUME NEW c \in Caches, c # q PROVE CacheOK(c, cst, ws, sv, td2, tc, e2, A, b)
  <2>1. td2[c] = td[c] /\ Listed(e2, c) = Listed(e, c)
    BY <1>1, <1>8 DEF Listed
  <2>2. CacheOK(c, cst, ws, sv, td, tc, e, A, b)
    BY DEF CachesOK, IdleOK, ServingOK
  <2>3. CASE c \in e2.sharers
    <3>1. e2.dstate = e.dstate /\ e.dstate = "SHARED"
      <4>1. e.dstate \notin {"EXCLUSIVE", "MODIFIED"}
        BY <1>5, <1>8, <2>3 DEF Listed
      <4>2. e.dstate \in DStates
        BY DEF Entries
      <4>3. QED
        BY <2>1, <2>3, <4>1, <4>2 DEF DStates
    <3>2. Demanded(e2, A, b, c) = Demanded(e, A, b, c)
      <4>1. CASE ~b
        BY <4>1, NothingDemanded
      <4>2. CASE b
        <5>1. A[1].requester # q
          BY <1>6, <4>2
        <5>2. A[1].requester \in e2.sharers <=> A[1].requester \in e.sharers
          BY <5>1
        <5>3. c \in e.sharers
          BY <2>3
        <5>4. QED
          BY <2>3, <3>1, <4>2, <5>2, <5>3 DEF Demanded
      <4>3. QED
        BY <4>1, <4>2
    <3>3. QED
      BY <2>1, <2>2, <3>1, <3>2 DEF CacheOK
  <2>4. CASE c \notin e2.sharers
    <3>1. /\ InSequence(td[c]) /\ Inbox(tc[c])
          /\ Fits(cst[c], First(ws[c]), sv[c], Types(td[c]), Ahead(tc[c]), Reply(tc[c]),
                  Behind(tc[c]), Asked(A, c), e.dstate, Listed(e, c),
                  Demanded(e, A, b, c), Due(A, c))
          /\ Typed(cst[c], First(ws[c]), sv[c], Types(td[c]), Ahead(tc[c]), Reply(tc[c]),
                   Behind(tc[c]), e.dstate, Listed(e, c), Demanded(e, A, b, c))
      BY <2>2, Viewed
    <3>2. Fits(cst[c], First(ws[c]), sv[c], Types(td[c]), Ahead(tc[c]), Reply(tc[c]),
               Behind(tc[c]), Asked(A, c), e2.dstate, Listed(e, c), {}, Due(A, c))
      <4>1. Listed(e, c) = "no"
        BY <2>1, <2>4 DEF Listed
      <4>2. QED
        BY <3>1, <4>1, UnlistedFits
    <3>3. Demanded(e2, A, b, c) = {}
      BY <2>4 DEF Demanded
    <3>4. QED
      BY <2>1, <3>1, <3>2, <3>3 DEF CacheOK
  <2>5. QED
    BY <2>3, <2>4
<1>9. QED
  BY <1>5, <1>6, <1>7, <1>8 DEF CachesOK, IdleOK, ServingOK, Listed, Due, td2

\* A cache that is not listed does not notice the directory's step.
LEMMA Unlisted ==
  ASSUME NEW cst, NEW ws, NEW sv, NEW td, NEW tc, NEW e \in Entries, NEW A, NEW b \in BOOLEAN,
         NEW e2, NEW A2, NEW b2, NEW c \in Caches,
         Frame(cst, ws, sv, td, tc), CacheOK(c, cst, ws, sv, td, tc, e, A, b),
         c \notin e.sharers, c \notin e2.sharers, Asked(A2, c) = Asked(A, c),
         Due(A2, c) = Due(A, c)
  PROVE  CacheOK(c, cst, ws, sv, td, tc, e2, A2, b2)
<1>1. /\ InSequence(td[c]) /\ Inbox(tc[c])
      /\ Fits(cst[c], First(ws[c]), sv[c], Types(td[c]), Ahead(tc[c]), Reply(tc[c]),
              Behind(tc[c]), Asked(A, c), e.dstate, Listed(e, c),
              Demanded(e, A, b, c), Due(A, c))
      /\ Typed(cst[c], First(ws[c]), sv[c], Types(td[c]), Ahead(tc[c]), Reply(tc[c]),
               Behind(tc[c]), e.dstate, Listed(e, c), Demanded(e, A, b, c))
  BY Viewed
<1>2. Listed(e, c) = "no" /\ Listed(e2, c) = "no"
  BY DEF Listed
<1>3. \A ds2 : Fits(cst[c], First(ws[c]), sv[c], Types(td[c]), Ahead(tc[c]), Reply(tc[c]),
                    Behind(tc[c]), Asked(A, c), ds2, Listed(e, c), {}, Due(A, c))
  BY <1>1, <1>2, UnlistedFits
<1>4. Demanded(e2, A2, b2, c) = {}
  BY DEF Demanded
<1>5. QED
  BY <1>1, <1>2, <1>3, <1>4 DEF CacheOK

\* The directory takes the data that q wrote back.
LEMMA WritingBack ==
  ASSUME NEW cst, NEW ws, NEW sv, NEW td, NEW tc, NEW e \in Entries, NEW A \in Seq(Requests),
         NEW b \in BOOLEAN, NEW q \in Caches, NEW e2 \in Entries,
         Frame(cst, ws, sv, td, tc), CachesOK(cst, ws, sv, td, tc, e, A, b),
         e.dstate \in {"EXCLUSIVE", "MODIFIED"} => e.sharers = {e.owner},
         e.sharers = {} <=> e.dstate = "UNCACHED",
         td[q] # <<>>, Head(td[q]).type = "WB_REP",
         e2.sharers = e.sharers, e2.dstate = "SHARED"
  PROVE  IdleOK(cst, ws, sv, [td EXCEPT ![q] = Tail(@)], tc, e2, A)
<1> DEFINE td2 == [td EXCEPT ![q] = Tail(@)]
<1>1. \A c \in Caches : td2[c] = IF c = q THEN Tail(td[c]) ELSE td[c]
  BY DEF Frame
<1>2. td[q] \in Seq(CacheMsgs)
  BY DEF Frame
<1> HIDE DEF td2
<1>3. /\ InSequence(td[q]) /\ Inbox(tc[q])
      /\ Fits(cst[q], First(ws[q]), sv[q], Types(td[q]), Ahead(tc[q]), Reply(tc[q]),
              Behind(tc[q]), Asked(A, q), e.dstate, Listed(e, q),
              Demanded(e, A, b, q), Due(A, q))
      /\ Typed(cst[q], First(ws[q]), sv[q], Types(td[q]), Ahead(tc[q]), Reply(tc[q]),
               Behind(tc[q]), e.dstate, Listed(e, q), Demanded(e, A, b, q))
  <2>1. CacheOK(q, cst, ws, sv, td, tc, e, A, b)
    BY DEF CachesOK, IdleOK, ServingOK
  <2>2. QED
    BY <2>1, Viewed
<1>4. /\ "WB_REP" \in Types(td[q]) /\ Types(Tail(td[q])) = Types(td[q]) \ {"WB_REP"}
      /\ InSequence(Tail(td[q]))
  BY <1>2, <1>3, TailTypes
<1>5. /\ Listed(e, q) = "yes" /\ "WB_REQ" \in Demanded(e, A, b, q)
      /\ Fits(cst[q], First(ws[q]), sv[q], Types(td[q]) \ {"WB_REP"}, Ahead(tc[q]),
              Reply(tc[q]), Behind(tc[q]), Asked(A, q), "SHARED", Listed(e, q), {}, Due(A, q))
  BY <1>3, <1>4, WrittenBackFits
<1>6. /\ b /\ A # <<>> /\ A[1].type = "SH_REQ" /\ q \in e.sharers
      /\ ~A[1].wait /\ A[1].requester # q
      /\ e.dstate # "SHARED" \/ A[1].from = q
  BY <1>5 DEF Demanded
<1>7. CacheOK(q, cst, ws, sv, td2, tc, e2, A, FALSE)
  <2>1. Demanded(e2, A, FALSE, q) = {} /\ Listed(e2, q) = Listed(e, q)
    BY DEF Demanded, Listed
  <2>2. td2[q] = Tail(td[q])
    BY <1>1
  <2>3. QED
    BY <1>3, <1>4, <1>5, <2>1, <2>2 DEF CacheOK
<1>8. ASSUME NEW c \in Caches, c # q PROVE CacheOK(c, cst, ws, sv, td2, tc, e2, A, FALSE)
  <2>1. td2[c] = td[c] /\ Listed(e2, c) = Listed(e, c)
    BY <1>1, <1>8 DEF Listed
  <2>2. CacheOK(c, cst, ws, sv, td, tc, e, A, b)
    BY DEF CachesOK, IdleOK, ServingOK
  <2>3. CASE c \in e.sharers
    <3>1. e.dstate = "SHARED"
      <4>1. e.dstate \notin {"EXCLUSIVE", "MODIFIED"}
        BY <1>6, <1>8, <2>3
      <4>2. e.dstate \in DStates
        BY DEF Entries
      <4>3. QED
        BY <2>3, <4>1, <4>2 DEF DStates
    <3>2. Demanded(e, A, b, c) = {} /\ Demanded(e2, A, FALSE, c) = {}
      BY <1>6, <1>8, <3>1 DEF Demanded
    <3>3. QED
      BY <2>1, <2>2, <3>1, <3>2 DEF CacheOK
  <2>4. CASE c \notin e.sharers
    <3>1. CacheOK(c, cst, ws, sv, td, tc, e2, A, FALSE)
      BY <2>2, <2>4, Unlisted
    <3>2. QED
      BY <2>1, <3>1 DEF CacheOK
  <2>5. QED
    BY <2>3, <2>4
<1>9. QED
  BY <1>6, <1>7, <1>8 DEF CachesOK, IdleOK, ServingOK, td2

\* The directory lists q, whose request is at the head, and marks it.
LEMMA Claiming ==
  ASSUME NEW cst, NEW ws, NEW sv, NEW td, NEW tc, NEW e \in Entries, NEW A \in Seq(Requests),
         NEW q \in Caches, NEW e2 \in Entries, NEW h \in Requests,
         Frame(cst, ws, sv, td, tc), IdleOK(cst, ws, sv, td, tc, e, A),
         A # <<>>, A[1].requester = q, h.requester = q, h.type = A[1].type,
         h.wait \/ h.from # NoCache,
         q \in e.sharers => Promised(A, q),
         e2.sharers = e.sharers \cup {q}, e2.dstate = e.dstate \/ e.sharers = {}
  PROVE  /\ IdleOK(cst, ws, sv, td, tc, e2, <<h>> \o Tail(A))
         /\ Promised(<<h>> \o Tail(A), q)
<1> DEFINE new == <<h>> \o Tail(A)
<1>1. new # <<>> /\ new[1] = h /\ \A c : Asked(new, c) = Asked(A, c)
  BY AskedMarked
<1> HIDE DEF new
<1>2. Promised(new, q) /\ Due(new, q) = "yes"
  BY <1>1 DEF Promised, Due
<1>3. \A c \in Caches : c # q => Due(new, c) = "no" /\ Due(A, c) = "no"
  BY <1>1 DEF Promised, Due
<1>4. CacheOK(q, cst, ws, sv, td, tc, e2, new, FALSE)
  <2>1. CacheOK(q, cst, ws, sv, td, tc, e, A, FALSE)
    BY DEF CachesOK, IdleOK, ServingOK
  <2>2. Demanded(e, A, FALSE, q) = {} /\ Demanded(e2, new, FALSE, q) = {}
    BY NothingDemanded
  <2>3. /\ InSequence(td[q]) /\ Inbox(tc[q])
        /\ Fits(cst[q], First(ws[q]), sv[q], Types(td[q]), Ahead(tc[q]), Reply(tc[q]),
                Behind(tc[q]), Asked(A, q), e.dstate, Listed(e, q), {}, Due(A, q))
        /\ Typed(cst[q], First(ws[q]), sv[q], Types(td[q]), Ahead(tc[q]), Reply(tc[q]),
                 Behind(tc[q]), e.dstate, Listed(e, q), {})
    BY <2>1, ViewedIdle
  <2>4. Listed(e, q) = "yes" => Due(A, q) = "yes"
    BY DEF Listed, Due
  <2>5. \A ds2 : Fits(cst[q], First(ws[q]), sv[q], Types(td[q]), Ahead(tc[q]), Reply(tc[q]),
                      Behind(tc[q]), Asked(A, q), ds2, "yes", {}, "yes")
    BY <2>3, <2>4, ClaimFits
  <2>6. Listed(e2, q) = "yes"
    BY DEF Listed
  <2>7. QED
    BY <1>1, <1>2, <2>2, <2>3, <2>5, <2>6 DEF CacheOK
<1>5. ASSUME NEW c \in Caches, c # q PROVE CacheOK(c, cst, ws, sv, td, tc, e2, new, FALSE)
  <2>1. CacheOK(c, cst, ws, sv, td, tc, e, A, FALSE)
    BY DEF CachesOK, IdleOK, ServingOK
  <2>2. CASE c \in e.sharers
    <3>1. e2.dstate = e.dstate /\ Listed(e2, c) = Listed(e, c)
      BY <2>2 DEF Listed
    <3>2. Demanded(e, A, FALSE, c) = {} /\ Demanded(e2, new, FALSE, c) = {}
      BY NothingDemanded
    <3>3. QED
      BY <1>1, <1>3, <1>5, <2>1, <3>1, <3>2 DEF CacheOK
  <2>3. CASE c \notin e.sharers
    <3>1. c \notin e2.sharers /\ Asked(new, c) = Asked(A, c) /\ Due(new, c) = Due(A, c)
      BY <1>1, <1>3, <1>5, <2>3
    <3>2. QED
      BY <2>1, <2>3, <3>1, Unlisted
  <2>4. QED
    BY <2>2, <2>3
<1>6. QED
  BY <1>2, <1>4, <1>5 DEF CachesOK, IdleOK, ServingOK, new

\* Sending one message is appending it.
LEMMA ConcatOne ==
  ASSUME NEW S, NEW ch \in Seq(S), NEW m \in S
  PROVE  ch \o <<m>> = Append(ch, m)
OBVIOUS

\* Sending none changes nothing.
LEMMA ConcatNone ==
  ASSUME NEW S, NEW ch \in Seq(S)
  PROVE  ch \o <<>> = ch
OBVIOUS

\* The directory sends out[c] to each cache c.
Sent(tc, out) == [c \in Caches |-> tc[c] \o out[c]]

\* Each cache is asked for one thing, if at all.
AsksOnly(e, A, out) ==
  \A c \in Caches : \/ out[c] = <<>>
                    \/ \E m \in DirMsgs : /\ out[c] = <<m>>
                                          /\ m.type \in Demanded(e, A, TRUE, c)

\* The head begins to be served: out is what is asked of the caches.
LEMMA Beginning ==
  ASSUME NEW cst, NEW ws, NEW sv, NEW td, NEW tc, NEW e \in Entries, NEW A \in Seq(Requests),
         NEW out \in [Caches -> Seq(DirMsgs)],
         Frame(cst, ws, sv, td, tc), IdleOK(cst, ws, sv, td, tc, e, A),
         AsksOnly(e, A, out)
  PROVE  ServingOK(cst, ws, sv, td, Sent(tc, out), e, A)
<1> DEFINE tc2 == Sent(tc, out)
<1> SUFFICES ASSUME NEW c \in Caches PROVE CacheOK(c, cst, ws, sv, td, tc2, e, A, TRUE)
  BY DEF CachesOK, IdleOK, ServingOK
<1>1. tc2[c] = tc[c] \o out[c]
  BY DEF Sent
<1> HIDE DEF tc2
<1>2. /\ InSequence(td[c]) /\ Inbox(tc[c])
      /\ td[c] \in Seq(CacheMsgs) /\ tc[c] \in Seq(DirMsgs)
      /\ Fits(cst[c], First(ws[c]), sv[c], Types(td[c]), Ahead(tc[c]), Reply(tc[c]),
              Behind(tc[c]), Asked(A, c), e.dstate, Listed(e, c), {}, Due(A, c))
      /\ Typed(cst[c], First(ws[c]), sv[c], Types(td[c]), Ahead(tc[c]), Reply(tc[c]),
               Behind(tc[c]), e.dstate, Listed(e, c), {})
  <2>1. CacheOK(c, cst, ws, sv, td, tc, e, A, FALSE)
    BY DEF CachesOK, IdleOK, ServingOK
  <2>2. QED
    BY <2>1, ViewedIdle
<1>3. PICK dem : dem = Demanded(e, A, TRUE, c)
  OBVIOUS
<1>4. Typed(cst[c], First(ws[c]), sv[c], Types(td[c]), Ahead(tc[c]), Reply(tc[c]),
            Behind(tc[c]), e.dstate, Listed(e, c), dem)
  <2>1. PICK b \in BOOLEAN : b = TRUE
    OBVIOUS
  <2>2. Demanded(e, A, b, c) = dem
    BY <1>3, <2>1
  <2>3. Typed(cst[c], First(ws[c]), sv[c], Types(td[c]), Ahead(tc[c]), Reply(tc[c]),
              Behind(tc[c]), e.dstate, Listed(e, c), Demanded(e, A, b, c))
    BY <1>2, ViewTyped
  <2>4. QED
    BY <2>2, <2>3
<1>5. Fits(cst[c], First(ws[c]), sv[c], Types(td[c]), Ahead(tc[c]), Reply(tc[c]),
           Behind(tc[c]), Asked(A, c), e.dstate, Listed(e, c), {}, Due(A, c))
  BY <1>2
<1>6. CASE out[c] = <<>>
  <2>1. tc2[c] = tc[c]
    BY <1>1, <1>2, <1>6, ConcatNone
  <2>2. Fits(cst[c], First(ws[c]), sv[c], Types(td[c]), Ahead(tc[c]), Reply(tc[c]),
             Behind(tc[c]), Asked(A, c), e.dstate, Listed(e, c), dem, Due(A, c))
    BY <1>4, <1>5, AskedFits
  <2>3. QED
    BY <1>2, <1>3, <2>1, <2>2 DEF CacheOK
<1>7. ASSUME NEW m \in DirMsgs, out[c] = <<m>>, m.type \in dem
      PROVE  CacheOK(c, cst, ws, sv, td, tc2, e, A, TRUE)
  <2>1. tc2[c] = Append(tc[c], m)
    BY <1>1, <1>2, <1>7, ConcatOne
  <2>2. Due(A, c) = "no"
    BY <1>3, <1>7 DEF Due, Promised, Demanded
  <2>3. m.type \in Demands
    BY <1>4, <1>7 DEF Typed
  <2>4. CASE Reply(tc[c]) = "none"
    <3>1. /\ Ahead(tc[c]) = "none"
          /\ Fits(cst[c], First(ws[c]), sv[c], Types(td[c]), m.type, Reply(tc[c]),
                  Behind(tc[c]), Asked(A, c), e.dstate, Listed(e, c), dem, Due(A, c))
      BY <1>4, <1>5, <1>7, <2>2, <2>4, AskedAheadFits
    <3>2. /\ Inbox(Append(tc[c], m)) /\ Ahead(Append(tc[c], m)) = m.type
          /\ Reply(Append(tc[c], m)) = "none" /\ Behind(Append(tc[c], m)) = "none"
      BY <1>2, <1>7, <2>3, <2>4, <3>1, AppendInbox
    <3>3. Behind(tc[c]) = "none"
      BY <1>2, <2>4, InboxFacts
    <3>4. QED
      BY <1>2, <1>3, <2>1, <2>4, <3>1, <3>2, <3>3 DEF CacheOK
  <2>5. CASE Reply(tc[c]) # "none"
    <3>1. /\ Behind(tc[c]) = "none"
          /\ Fits(cst[c], First(ws[c]), sv[c], Types(td[c]), Ahead(tc[c]), Reply(tc[c]),
                  m.type, Asked(A, c), e.dstate, Listed(e, c), dem, Due(A, c))
      BY <1>4, <1>5, <1>7, <2>2, <2>5, AskedBehindFits
    <3>2. /\ Inbox(Append(tc[c], m)) /\ Ahead(Append(tc[c], m)) = Ahead(tc[c])
          /\ Reply(Append(tc[c], m)) = Reply(tc[c]) /\ Behind(Append(tc[c], m)) = m.type
      BY <1>2, <1>7, <2>3, <2>5, <3>1, AppendInbox
    <3>3. QED
      BY <1>2, <1>3, <2>1, <3>1, <3>2 DEF CacheOK
  <2>6. QED
    BY <2>4, <2>5
<1>8. QED
  BY <1>3, <1>6, <1>7 DEF AsksOnly

\* The request at the head has been answered: nothing is due to anybody.
LEMMA NothingDue ==
  ASSUME NEW A \in Seq(Requests), A # <<>>, \A i \in DOMAIN A : i # 1 => Fresh(A[i]),
         NEW c
  PROVE  Due(Tail(A), c) = "no"
<1>1. /\ Len(A) \in Nat /\ DOMAIN A = 1..Len(A) /\ Len(A) >= 1
      /\ Tail(A) \in Seq(Requests) /\ Len(Tail(A)) = Len(A) - 1
      /\ \A i \in 1..(Len(A) - 1) : Tail(A)[i] = A[i + 1]
  BY SequenceFacts
<1>2. CASE Tail(A) = <<>>
  BY <1>2 DEF Due, Promised
<1>3. CASE Tail(A) # <<>>
  <2>1. Len(Tail(A)) >= 1
    BY <1>1, <1>3, SequenceFacts
  <2>2. Tail(A)[1] = A[2] /\ 2 \in DOMAIN A
    BY <1>1, <2>1
  <2>3. Fresh(Tail(A)[1])
    BY <2>2
  <2>4. QED
    BY <2>3 DEF Due, Promised, Fresh
<1>4. QED
  BY <1>2, <1>3

\* The reply m goes to q, whose request was at the head and to which the line
\* was promised.
LEMMA Granting ==
  ASSUME NEW cst, NEW ws, NEW sv, NEW td, NEW tc, NEW e \in Entries, NEW A \in Seq(Requests),
         NEW q \in Caches, NEW out \in [Caches -> Seq(DirMsgs)], NEW m \in DirMsgs,
         Frame(cst, ws, sv, td, tc), IdleOK(cst, ws, sv, td, tc, e, A),
         A # <<>>, Unique(A), Promised(A, q), A[1].type \in CoreReqs,
         \A i \in DOMAIN A : i # 1 => Fresh(A[i]),
         m.type \in {"EX_REP", "SH_REP"},
         GrantOK(m.type, e.dstate, A[1].type),
         out = [c \in Caches |-> IF c = q THEN <<m>> ELSE <<>>]
  PROVE  IdleOK(cst, ws, sv, td, Sent(tc, out), e, Tail(A))
<1> DEFINE tc2 == Sent(tc, out)
<1>1. \A c \in Caches : tc2[c] = tc[c] \o out[c]
  BY DEF Sent
<1> HIDE DEF tc2
<1>2. A[1].requester = q /\ Due(A, q) = "yes"
  BY DEF Promised, Due
<1>3. \A c : Due(Tail(A), c) = "no"
  BY NothingDue
<1>4. CacheOK(q, cst, ws, sv, td, tc2, e, Tail(A), FALSE)
  <2>1. /\ InSequence(td[q]) /\ Inbox(tc[q])
        /\ td[q] \in Seq(CacheMsgs) /\ tc[q] \in Seq(DirMsgs)
        /\ Fits(cst[q], First(ws[q]), sv[q], Types(td[q]), Ahead(tc[q]), Reply(tc[q]),
                Behind(tc[q]), Asked(A, q), e.dstate, Listed(e, q), {}, Due(A, q))
        /\ Typed(cst[q], First(ws[q]), sv[q], Types(td[q]), Ahead(tc[q]), Reply(tc[q]),
                 Behind(tc[q]), e.dstate, Listed(e, q), {})
    <3>1. CacheOK(q, cst, ws, sv, td, tc, e, A, FALSE)
      BY DEF CachesOK, IdleOK, ServingOK
    <3>2. QED
      BY <3>1, ViewedIdle
  <2>2. Asked(A, q) = {A[1].type} /\ Asked(Tail(A), q) = {}
    BY <1>2, AskedTail
  <2>3. /\ Reply(tc[q]) = "none" /\ Behind(tc[q]) = "none"
        /\ Fits(cst[q], First(ws[q]), sv[q], Types(td[q]), Ahead(tc[q]), m.type,
                Behind(tc[q]), {}, e.dstate, Listed(e, q), {}, "no")
    <3>1. Fits(cst[q], First(ws[q]), sv[q], Types(td[q]), Ahead(tc[q]), Reply(tc[q]),
               Behind(tc[q]), {A[1].type}, e.dstate, Listed(e, q), {}, Due(A, q))
      BY <2>1, <2>2
    <3>2. PICK t \in CoreReqs, new \in {"EX_REP", "SH_REP"} : t = A[1].type /\ new = m.type
      OBVIOUS
    <3>3. GrantOK(new, e.dstate, t)
      BY <3>2
    <3>4. Fits(cst[q], First(ws[q]), sv[q], Types(td[q]), Ahead(tc[q]), Reply(tc[q]),
               Behind(tc[q]), {t}, e.dstate, Listed(e, q), {}, "yes")
      BY <1>2, <3>1, <3>2
    <3>5. QED
      <4>1. /\ Reply(tc[q]) = "none" /\ Behind(tc[q]) = "none"
            /\ Fits(cst[q], First(ws[q]), sv[q], Types(td[q]), Ahead(tc[q]), new,
                    Behind(tc[q]), {}, e.dstate, Listed(e, q), {}, "no")
        BY <2>1, <3>3, <3>4, GrantFits
      <4>2. QED
        BY <3>2, <4>1
  <2>4. tc2[q] = Append(tc[q], m)
    BY ZenonT(60), <1>1, <2>1, ConcatOne
  <2>5. /\ Inbox(Append(tc[q], m)) /\ Ahead(Append(tc[q], m)) = Ahead(tc[q])
        /\ Reply(Append(tc[q], m)) = m.type /\ Behind(Append(tc[q], m)) = "none"
    BY <2>1, <2>3, AppendInbox DEF Replies
  <2>6. Demanded(e, Tail(A), FALSE, q) = {}
    BY NothingDemanded
  <2>7. QED
    BY <1>3, <2>1, <2>2, <2>3, <2>4, <2>5, <2>6 DEF CacheOK
<1>5. ASSUME NEW c \in Caches, c # q PROVE CacheOK(c, cst, ws, sv, td, tc2, e, Tail(A), FALSE)
  <2>1. CacheOK(c, cst, ws, sv, td, tc, e, A, FALSE)
    BY DEF CachesOK, IdleOK, ServingOK
  <2>2. tc2[c] = tc[c]
    <3>1. out[c] = <<>> /\ tc[c] \in Seq(DirMsgs)
      BY <1>5 DEF Frame
    <3>2. QED
      BY <1>1, <3>1, ConcatNone
  <2>3. Asked(Tail(A), c) = Asked(A, c)
    BY <1>2, <1>5, AskedTail
  <2>4. Due(A, c) = "no" /\ Due(Tail(A), c) = "no"
    BY <1>2, <1>3, <1>5 DEF Due, Promised
  <2>5. Demanded(e, Tail(A), FALSE, c) = {} /\ Demanded(e, A, FALSE, c) = {}
    BY NothingDemanded
  <2>6. QED
    BY <2>1, <2>2, <2>3, <2>4, <2>5 DEF CacheOK
<1>6. QED
  BY <1>4, <1>5 DEF CachesOK, IdleOK, ServingOK, tc2

\* Nothing is due to the requester of a fresh request.
LEMMA FreshNotDue ==
  ASSUME NEW A, NEW c, Fresh(A[1])
  PROVE  Due(A, c) = "no"
BY DEF Fresh, Due, Promised

\* The directory does not list the requester of a fresh SH_REQ or EX_REQ.
LEMMA FreshUnlisted ==
  ASSUME NEW cst, NEW ws, NEW sv, NEW td, NEW tc, NEW e \in Entries, NEW A \in Seq(Requests),
         NEW q \in Caches,
         Frame(cst, ws, sv, td, tc), IdleOK(cst, ws, sv, td, tc, e, A),
         A # <<>>, Unique(A), A[1].requester = q, Fresh(A[1]),
         A[1].type \in {"SH_REQ", "EX_REQ"}
  PROVE  q \notin e.sharers
<1>1. /\ Fits(cst[q], First(ws[q]), sv[q], Types(td[q]), Ahead(tc[q]), Reply(tc[q]),
              Behind(tc[q]), Asked(A, q), e.dstate, Listed(e, q), {}, Due(A, q))
      /\ Typed(cst[q], First(ws[q]), sv[q], Types(td[q]), Ahead(tc[q]), Reply(tc[q]),
               Behind(tc[q]), e.dstate, Listed(e, q), {})
  <2>1. CacheOK(q, cst, ws, sv, td, tc, e, A, FALSE)
    BY DEF CachesOK, IdleOK
  <2>2. QED
    BY <2>1, ViewedIdle
<1>2. Asked(A, q) = {A[1].type} /\ Due(A, q) = "no"
  BY AskedTail, FreshNotDue
<1>3. Listed(e, q) = "no"
  BY <1>1, <1>2 DEF Fits, Typed, Replies
<1>4. QED
  BY <1>3 DEF Listed

\* Cache q waits for the permission to write the copy it has.
Upgrading(cst, ws, sv, td, tc, e, q) ==
  /\ e.dstate = "SHARED"
  /\ Ahead(tc[q]) = "none" /\ Reply(tc[q]) = "none" /\ Behind(tc[q]) = "none"
  /\ Fits(cst[q], First(ws[q]), sv[q], Types(td[q]), Ahead(tc[q]), "UPGRADE_REP",
          Behind(tc[q]), {}, "MODIFIED", Listed(e, q), {}, "no")

\* The directory lists the requester of an UPGRADE_REQ only while the line is
\* SHARED.
LEMMA UpgradeView ==
  ASSUME NEW cst, NEW ws, NEW sv, NEW td, NEW tc, NEW e \in Entries, NEW A \in Seq(Requests),
         NEW q \in Caches,
         Frame(cst, ws, sv, td, tc), IdleOK(cst, ws, sv, td, tc, e, A),
         A # <<>>, Unique(A), A[1].requester = q, Fresh(A[1]), A[1].type = "UPGRADE_REQ",
         q \in e.sharers
  PROVE  Upgrading(cst, ws, sv, td, tc, e, q)
<1>1. /\ Fits(cst[q], First(ws[q]), sv[q], Types(td[q]), Ahead(tc[q]), Reply(tc[q]),
              Behind(tc[q]), Asked(A, q), e.dstate, Listed(e, q), {}, Due(A, q))
      /\ Typed(cst[q], First(ws[q]), sv[q], Types(td[q]), Ahead(tc[q]), Reply(tc[q]),
               Behind(tc[q]), e.dstate, Listed(e, q), {})
  <2>1. CacheOK(q, cst, ws, sv, td, tc, e, A, FALSE)
    BY DEF CachesOK, IdleOK
  <2>2. QED
    BY <2>1, ViewedIdle
<1>2. Asked(A, q) = {A[1].type} /\ Due(A, q) = "no"
  BY AskedTail, FreshNotDue
<1>3. PICK t \in {"UPGRADE_REQ"} : Asked(A, q) = {t}
  BY <1>2
<1>4. Fits(cst[q], First(ws[q]), sv[q], Types(td[q]), Ahead(tc[q]), Reply(tc[q]),
           Behind(tc[q]), {t}, e.dstate, Listed(e, q), {}, "no")
  BY <1>1, <1>2, <1>3
<1>5. Listed(e, q) = "yes"
  BY DEF Listed
<1>6. QED
  BY <1>1, <1>4, <1>5, UpgradedFits DEF Upgrading

\* The permission to write goes to q, the only sharer, whose UPGRADE_REQ was
\* at the head.
LEMMA Upgraded ==
  ASSUME NEW cst, NEW ws, NEW sv, NEW td, NEW tc, NEW e \in Entries, NEW A \in Seq(Requests),
         NEW q \in Caches, NEW out \in [Caches -> Seq(DirMsgs)], NEW m \in DirMsgs,
         NEW e2 \in Entries,
         Frame(cst, ws, sv, td, tc), IdleOK(cst, ws, sv, td, tc, e, A),
         A # <<>>, Unique(A), A[1].requester = q, A[1].type = "UPGRADE_REQ", Fresh(A[1]),
         q \in e.sharers, \A c \in Caches : c # q => c \notin e.sharers,
         e2.sharers = e.sharers, e2.dstate = "MODIFIED",
         \A i \in DOMAIN A : i # 1 => Fresh(A[i]),
         m.type = "UPGRADE_REP",
         out = [c \in Caches |-> IF c = q THEN <<m>> ELSE <<>>]
  PROVE  IdleOK(cst, ws, sv, td, Sent(tc, out), e2, Tail(A))
<1> DEFINE tc2 == Sent(tc, out)
<1>1. \A c \in Caches : tc2[c] = tc[c] \o out[c]
  BY DEF Sent
<1> HIDE DEF tc2
<1>3. \A c : Due(Tail(A), c) = "no"
  BY NothingDue
<1>4. CacheOK(q, cst, ws, sv, td, tc2, e2, Tail(A), FALSE)
  <2>1. /\ InSequence(td[q]) /\ Inbox(tc[q])
        /\ td[q] \in Seq(CacheMsgs) /\ tc[q] \in Seq(DirMsgs)
        /\ Fits(cst[q], First(ws[q]), sv[q], Types(td[q]), Ahead(tc[q]), Reply(tc[q]),
                Behind(tc[q]), Asked(A, q), e.dstate, Listed(e, q), {}, Due(A, q))
        /\ Typed(cst[q], First(ws[q]), sv[q], Types(td[q]), Ahead(tc[q]), Reply(tc[q]),
                 Behind(tc[q]), e.dstate, Listed(e, q), {})
    <3>1. CacheOK(q, cst, ws, sv, td, tc, e, A, FALSE)
      BY DEF CachesOK, IdleOK, ServingOK
    <3>2. QED
      BY <3>1, ViewedIdle
  <2>2. Asked(A, q) = {"UPGRADE_REQ"} /\ Asked(Tail(A), q) = {}
    <3>1. Asked(A, q) = {A[1].type} /\ Asked(Tail(A), q) = {}
      BY AskedTail
    <3>2. QED
      BY <3>1
  <2>3. /\ Ahead(tc[q]) = "none" /\ Reply(tc[q]) = "none" /\ Behind(tc[q]) = "none"
        /\ Fits(cst[q], First(ws[q]), sv[q], Types(td[q]), Ahead(tc[q]), "UPGRADE_REP",
                Behind(tc[q]), {}, "MODIFIED", Listed(e, q), {}, "no")
    <3>1. Upgrading(cst, ws, sv, td, tc, e, q)
      BY UpgradeView
    <3>2. QED
      BY <3>1 DEF Upgrading
  <2>4. tc2[q] = Append(tc[q], m)
    <3>1. out[q] = <<m>>
      OBVIOUS
    <3>2. tc2[q] = tc[q] \o <<m>>
      BY <1>1, <3>1
    <3>3. tc[q] \o <<m>> = Append(tc[q], m)
      BY <2>1, ConcatOne
    <3>4. QED
      BY <3>2, <3>3
  <2>5. /\ Inbox(Append(tc[q], m)) /\ Ahead(Append(tc[q], m)) = Ahead(tc[q])
        /\ Reply(Append(tc[q], m)) = "UPGRADE_REP" /\ Behind(Append(tc[q], m)) = "none"
    BY <2>1, <2>3, AppendInbox DEF Replies
  <2>6. Demanded(e2, Tail(A), FALSE, q) = {} /\ Listed(e2, q) = Listed(e, q)
    BY NothingDemanded DEF Listed
  <2>7. QED
    BY <1>3, <2>1, <2>2, <2>3, <2>4, <2>5, <2>6 DEF CacheOK
<1>5. ASSUME NEW c \in Caches, c # q PROVE CacheOK(c, cst, ws, sv, td, tc2, e2, Tail(A), FALSE)
  <2>1. CacheOK(c, cst, ws, sv, td, tc, e, A, FALSE)
    BY DEF CachesOK, IdleOK, ServingOK
  <2>2. tc2[c] = tc[c]
    <3>1. out[c] = <<>> /\ tc[c] \in Seq(DirMsgs)
      BY <1>5 DEF Frame
    <3>2. QED
      BY <1>1, <3>1, ConcatNone
  <2>3. Asked(Tail(A), c) = Asked(A, c)
    BY <1>5, AskedTail
  <2>4. Due(A, c) = Due(Tail(A), c)
    BY <1>3, FreshNotDue
  <2>5. CacheOK(c, cst, ws, sv, td, tc, e2, Tail(A), FALSE)
    BY <1>5, <2>1, <2>3, <2>4, Unlisted
  <2>6. QED
    BY <2>2, <2>5 DEF CacheOK
<1>6. QED
  BY <1>4, <1>5 DEF CachesOK, IdleOK, ServingOK, tc2

\* The head is dropped; it asked for nothing for a cache.
LEMMA Dropping ==
  ASSUME NEW cst, NEW ws, NEW sv, NEW td, NEW tc, NEW e \in Entries, NEW A \in Seq(Requests),
         NEW e2 \in Entries,
         IdleOK(cst, ws, sv, td, tc, e, A),
         A # <<>>, Unique(A), A[1].requester = NoCache,
         \A i \in DOMAIN A : i # 1 => Fresh(A[i]),
         e2.sharers = e.sharers, e2.dstate = e.dstate
  PROVE  IdleOK(cst, ws, sv, td, tc, e2, Tail(A))
<1> SUFFICES ASSUME NEW c \in Caches
             PROVE  CacheOK(c, cst, ws, sv, td, tc, e2, Tail(A), FALSE)
  BY DEF CachesOK, IdleOK, ServingOK
<1>1. CacheOK(c, cst, ws, sv, td, tc, e, A, FALSE)
  BY DEF CachesOK, IdleOK, ServingOK
<1>2. c # NoCache
  BY CoherenceAssumption
<1>3. Asked(Tail(A), c) = Asked(A, c)
  BY <1>2, AskedTail
<1>4. Due(Tail(A), c) = Due(A, c)
  <2>1. Due(Tail(A), c) = "no"
    BY NothingDue
  <2>2. QED
    BY <1>2, <2>1 DEF Due, Promised
<1>5. Listed(e2, c) = Listed(e, c) /\ Demanded(e, A, FALSE, c) = {}
      /\ Demanded(e2, Tail(A), FALSE, c) = {}
  BY NothingDemanded DEF Listed
<1>6. QED
  BY <1>1, <1>3, <1>4, <1>5 DEF CacheOK

\* Where the entry is and who forwards does not matter to the caches.
LEMMA SameEntry ==
  ASSUME NEW cst, NEW ws, NEW sv, NEW td, NEW tc, NEW e, NEW A, NEW e2,
         IdleOK(cst, ws, sv, td, tc, e, A),
         e2.sharers = e.sharers, e2.dstate = e.dstate
  PROVE  IdleOK(cst, ws, sv, td, tc, e2, A)
<1>1. \A c : Demanded(e, A, FALSE, c) = {} /\ Demanded(e2, A, FALSE, c) = {}
  BY NothingDemanded
<1>2. \A c : Listed(e2, c) = Listed(e, c)
  BY DEF Listed
<1>3. QED
  BY <1>1, <1>2 DEF CachesOK, IdleOK, ServingOK, CacheOK

-----------------------------------------------------------------------------
(* The request at the head is processed. *)

\* The entry agrees with itself.
EntryBase(e) ==
  /\ e.sharers = {} <=> e.dstate = "UNCACHED"
  /\ e.dstate \in {"EXCLUSIVE", "MODIFIED"} => e.sharers = {e.owner}
  /\ Protocol = "MESIF" /\ e.dstate = "SHARED" => e.forwarder \in e.sharers \cup {NoCache}

\* A request that ProcessHead may find at the head: a fresh one, a SH_REQ
\* whose data did not come from the forwarder, or the NULLIFY_REQ of an entry
\* on the list of replaced ones.
ReadyHead(e, h) ==
  \/ Fresh(h)
  \/ /\ h.type = "SH_REQ" /\ ~h.wait /\ h.from # NoCache
     /\ h.requester \in e.sharers /\ e.dstate = "SHARED"
  \/ h.type = "NULLIFY_REQ" /\ h.requester = NoCache /\ ~h.wait /\ h.from = NoCache

\* Only the request at the head has been looked at.
Rest(A) == Unique(A) /\ \A i \in DOMAIN A : i # 1 => Fresh(A[i])

\* ProcessHead may be called for the head of A with entry e.
Ready(e, A) ==
  /\ A # <<>> /\ Rest(A) /\ ReadyHead(e, A[1]) /\ EntryBase(e)
  /\ e.where = "none" => e.dstate = "UNCACHED"
  /\ e.where = "replaced" => A[1].type = "NULLIFY_REQ"

\* A reply record has its type, sends the line where it must and reads DRAM
\* only for a request that then waits.
GoodRecord(r) ==
  /\ r.entry \in Entries /\ r.queue \in Seq(Requests) /\ r.queue # <<>> /\ r.next \in BOOLEAN
  /\ r.out \in [Caches -> Seq(DirMsgs)]
  /\ r.mem = <<>> \/ (r.mem = <<Msg("READ", NoData)>> /\ ~r.next /\ r.queue[1].wait)
  /\ \A c \in Caches : \A i \in DOMAIN r.out[c] :
       r.out[c][i].type \in {"EX_REP", "SH_REP"} => r.out[c][i].data \in Data

\* With what record r sends, the caches fit the entry and queue it leaves.
Started(cst, ws, sv, td, tc, r) ==
  /\ GoodRecord(r)
  /\ r.next => /\ EntryOK(r.entry, Tail(r.queue), FALSE) /\ QueueOK(r.entry, Tail(r.queue), FALSE)
               /\ IdleOK(cst, ws, sv, td, Sent(tc, r.out), r.entry, Tail(r.queue))
  /\ ~r.next => /\ EntryOK(r.entry, r.queue, TRUE) /\ QueueOK(r.entry, r.queue, TRUE)
                /\ ServingOK(cst, ws, sv, td, Sent(tc, r.out), r.entry, r.queue)

\* The requests behind the head.
LEMMA TailQueue ==
  ASSUME NEW A \in Seq(Requests), A # <<>>, Rest(A), NEW e
  PROVE  QueueOK(e, Tail(A), FALSE)
<1>1. /\ Len(A) \in Nat /\ DOMAIN A = 1..Len(A)
      /\ Tail(A) \in Seq(Requests) /\ Len(Tail(A)) = Len(A) - 1
      /\ \A i \in 1..(Len(A) - 1) : Tail(A)[i] = A[i + 1]
  BY SequenceFacts
<1>2. DOMAIN Tail(A) = 1..(Len(A) - 1)
  BY <1>1, SequenceFacts
<1>3. ASSUME NEW i \in DOMAIN Tail(A)
      PROVE  i + 1 \in DOMAIN A /\ i + 1 # 1 /\ Tail(A)[i] = A[i + 1]
  BY <1>1, <1>2
<1>4. \A i \in DOMAIN Tail(A) : Fresh(Tail(A)[i])
  BY <1>3 DEF Rest
<1>5. ASSUME NEW i \in DOMAIN Tail(A), NEW j \in DOMAIN Tail(A),
             Tail(A)[i].requester = Tail(A)[j].requester
      PROVE  i = j
  <2>1. i + 1 = j + 1
    BY <1>3, <1>5 DEF Rest, Unique
  <2>2. QED
    BY <1>2, <2>1
<1>6. QED
  BY <1>1, <1>4, <1>5 DEF QueueOK

\* The caches are asked, and the head is being served.
LEMMA Asking ==
  ASSUME NEW cst, NEW ws, NEW sv, NEW td, NEW tc, NEW e \in Entries, NEW A \in Seq(Requests),
         NEW r, Frame(cst, ws, sv, td, tc), IdleOK(cst, ws, sv, td, tc, e, A),
         A # <<>>, Rest(A), EntryBase(e), e.where # "none",
         e.where = "replaced" => A[1].type = "NULLIFY_REQ", HeadOK(e, A[1]),
         GoodRecord(r), r.entry = e, r.queue = A, ~r.next,
         AsksOnly(e, A, r.out)
  PROVE  Started(cst, ws, sv, td, tc, r)
<1>1. PICK out \in [Caches -> Seq(DirMsgs)] : out = r.out
  BY DEF GoodRecord
<1>2. AsksOnly(e, A, out)
  BY <1>1
<1>3. ServingOK(cst, ws, sv, td, Sent(tc, out), e, A)
  BY <1>2, Beginning
<1>4. EntryOK(e, A, TRUE)
  BY DEF EntryOK, EntryBase
<1>5. QueueOK(e, A, TRUE)
  BY DEF QueueOK, Rest, Unique
<1>6. QED
  BY <1>1, <1>3, <1>4, <1>5 DEF Started

\* q, whose request is at the head, is to be sent the line: e1 is the entry e
\* with q listed.
Retrievable(e, A, q, e1, type) ==
  /\ A # <<>> /\ Rest(A)
  /\ A[1].requester = q /\ A[1].type \in CoreReqs /\ ~A[1].wait
  /\ A[1].from = NoCache => q \notin e.sharers
  /\ A[1].from # NoCache => A[1].type = "SH_REQ"
  /\ e1.where = "set" /\ e1.sharers = e.sharers \cup {q}
  /\ e1.dstate = e.dstate \/ e.sharers = {}
  /\ e1.dstate \in {"EXCLUSIVE", "MODIFIED"} => e1.sharers = {q} /\ e1.owner = q
  /\ Protocol = "MESIF" /\ e1.dstate = "SHARED" => e1.forwarder \in e.sharers \cup {NoCache}
  /\ IF A[1].type = "SH_REQ" THEN e1.dstate \in {"SHARED", "EXCLUSIVE"}
                             ELSE e1.dstate = "MODIFIED"
  /\ type \in {"EX_REP", "SH_REP"} /\ GrantOK(type, e1.dstate, A[1].type)

\* q is listed and its request marked: h.
LEMMA Marking ==
  ASSUME NEW cst, NEW ws, NEW sv, NEW td, NEW tc, NEW e \in Entries, NEW A \in Seq(Requests),
         NEW q \in Caches, NEW e1 \in Entries, NEW type, NEW h \in Requests, NEW e2 \in Entries,
         Frame(cst, ws, sv, td, tc), IdleOK(cst, ws, sv, td, tc, e, A),
         Retrievable(e, A, q, e1, type), h.requester = q, h.type = A[1].type,
         h.wait \/ h.from # NoCache, e2.sharers = e1.sharers, e2.dstate = e1.dstate
  PROVE  /\ IdleOK(cst, ws, sv, td, tc, e2, <<h>> \o Tail(A))
         /\ Promised(<<h>> \o Tail(A), q)
         /\ <<h>> \o Tail(A) \in Seq(Requests) /\ <<h>> \o Tail(A) # <<>>
         /\ (<<h>> \o Tail(A))[1] = h /\ Tail(<<h>> \o Tail(A)) = Tail(A)
         /\ Rest(<<h>> \o Tail(A))
<1>1. /\ A # <<>> /\ Rest(A) /\ A[1].requester = q
      /\ q \in e.sharers => A[1].from # NoCache
      /\ e2.sharers = e.sharers \cup {q} /\ (e2.dstate = e.dstate \/ e.sharers = {})
  BY DEF Retrievable
<1>2. q \in e.sharers => Promised(A, q)
  BY <1>1 DEF Promised
<1>3. /\ IdleOK(cst, ws, sv, td, tc, e2, <<h>> \o Tail(A))
      /\ Promised(<<h>> \o Tail(A), q)
  BY <1>1, <1>2, Claiming
<1>4. /\ <<h>> \o Tail(A) \in Seq(Requests) /\ <<h>> \o Tail(A) # <<>>
      /\ (<<h>> \o Tail(A))[1] = h /\ Tail(<<h>> \o Tail(A)) = Tail(A)
      /\ DOMAIN (<<h>> \o Tail(A)) = DOMAIN A
      /\ \A i \in DOMAIN A : i # 1 => (<<h>> \o Tail(A))[i] = A[i]
      /\ Unique(A) => Unique(<<h>> \o Tail(A))
  BY <1>1, AskedMarked
<1>5. Rest(<<h>> \o Tail(A))
  BY <1>1, <1>4 DEF Rest
<1>6. QED
  BY <1>3, <1>4, <1>5

\* The data are at hand.
LEMMA RetrieveNow ==
  ASSUME NEW cst, NEW ws, NEW sv, NEW td, NEW tc, NEW e \in Entries, NEW A \in Seq(Requests),
         NEW q \in Caches, NEW e1 \in Entries, NEW type, NEW data \in Data,
         Frame(cst, ws, sv, td, tc), IdleOK(cst, ws, sv, td, tc, e, A),
         Retrievable(e, A, q, e1, type)
  PROVE  Started(cst, ws, sv, td, tc, ReplyNow(type, q, data, [e1 EXCEPT !.forwarder = q], A))
<1> DEFINE e2 == [e1 EXCEPT !.forwarder = q]
           m == Msg(type, data)
           out == [d \in Caches |-> IF d \in {q} THEN <<m>> ELSE <<>>]
           r == ReplyNow(type, q, data, e2, A)
<1>1. /\ e2 \in Entries /\ e2.sharers = e1.sharers /\ e2.dstate = e1.dstate
      /\ e2.where = e1.where /\ e2.owner = e1.owner /\ e2.forwarder = q
  BY DEF Entries
<1>2. /\ m \in DirMsgs /\ m.type = type /\ m.data = data
  BY DEF Retrievable, DirMsgs, Msg
<1>3. out \in [Caches -> Seq(DirMsgs)]
  BY <1>2
<1>4. /\ r.entry = e2 /\ r.queue = A /\ r.out = out /\ r.mem = <<>> /\ r.next = TRUE
  <2>1. r.entry = e2 /\ r.queue = A
    BY DEF ReplyNow, SendTo, Quiet
  <2>2. r.out = out
    BY DEF ReplyNow, SendTo, Quiet
  <2>3. r.mem = <<>> /\ r.next = TRUE
    BY DEF ReplyNow, SendTo, Quiet
  <2>4. QED
    BY <2>1, <2>2, <2>3
<1>5. \A c \in Caches : out[c] = IF c = q THEN <<m>> ELSE <<>>
  OBVIOUS
<1>6. out = [c \in Caches |-> IF c = q THEN <<m>> ELSE <<>>]
  OBVIOUS
<1> HIDE DEF e2, m, out, r
<1>7. /\ A # <<>> /\ Rest(A) /\ A[1].requester = q /\ A[1].type \in CoreReqs
      /\ type \in {"EX_REP", "SH_REP"} /\ GrantOK(type, e2.dstate, A[1].type)
  BY <1>1 DEF Retrievable
<1>8. A[1] \in Requests
  BY <1>7, SequenceFacts
<1>9. PICK h \in Requests : h = [A[1] EXCEPT !.wait = TRUE]
  BY <1>8 DEF Requests
<1>10. h.requester = q /\ h.type = A[1].type /\ h.wait
  BY <1>7, <1>8, <1>9 DEF Requests
<1>11. PICK A1 : A1 = <<h>> \o Tail(A)
  OBVIOUS
<1>12. /\ IdleOK(cst, ws, sv, td, tc, e2, A1) /\ Promised(A1, q)
       /\ A1 \in Seq(Requests) /\ A1 # <<>> /\ A1[1] = h /\ Tail(A1) = Tail(A)
       /\ Rest(A1)
  BY <1>1, <1>10, <1>11, Marking
<1>13. IdleOK(cst, ws, sv, td, Sent(tc, out), e2, Tail(A1))
  BY <1>1, <1>2, <1>3, <1>6, <1>7, <1>10, <1>12, Granting DEF Rest
<1>14. GoodRecord(r)
  <2>1. ASSUME NEW c \in Caches, NEW i \in DOMAIN out[c]
        PROVE  out[c][i].data \in Data
    BY <1>2, <1>5
  <2>2. QED
    BY <1>1, <1>3, <1>4, <1>7, <2>1 DEF GoodRecord
<1>15. EntryOK(e2, Tail(A), FALSE)
  BY <1>1 DEF EntryOK, Retrievable
<1>16. QueueOK(e2, Tail(A), FALSE)
  BY <1>7, TailQueue
<1>17. QED
  BY <1>4, <1>12, <1>13, <1>14, <1>15, <1>16 DEF Started, e2, r

\* The forwarder is asked for the data.
LEMMA RetrieveForward ==
  ASSUME NEW cst, NEW ws, NEW sv, NEW td, NEW tc, NEW e \in Entries, NEW A \in Seq(Requests),
         NEW q \in Caches, NEW e1 \in Entries, NEW type,
         Frame(cst, ws, sv, td, tc), IdleOK(cst, ws, sv, td, tc, e, A),
         Retrievable(e, A, q, e1, type), MayForward(e1, A[1])
  PROVE  Started(cst, ws, sv, td, tc,
                 SendTo({e1.forwarder}, Msg("WB_REQ", NoData), e1,
                        <<[A[1] EXCEPT !.from = e1.forwarder]>> \o Tail(A)))
<1> DEFINE f == e1.forwarder
           m == Msg("WB_REQ", NoData)
           A1 == <<[A[1] EXCEPT !.from = e1.forwarder]>> \o Tail(A)
           r == SendTo({e1.forwarder}, m, e1, A1)
<1>1. /\ A # <<>> /\ Rest(A) /\ A[1].requester = q /\ ~A[1].wait /\ A[1].from = NoCache
      /\ e1.dstate = "SHARED" /\ f \in e.sharers /\ f # q /\ q \notin e.sharers
      /\ A[1].type = "SH_REQ" /\ e1.where = "set" /\ e1.sharers = e.sharers \cup {q}
      /\ f # NoCache
  BY DEF Retrievable, MayForward, CoreReqs
<1>2. f \in Caches
  BY <1>1 DEF Entries
<1>3. A[1] \in Requests
  BY <1>1, SequenceFacts
<1>4. PICK h \in Requests : h = [A[1] EXCEPT !.from = e1.forwarder]
  BY <1>2, <1>3 DEF Requests
<1>5. /\ h.requester = q /\ h.type = A[1].type /\ h.from = f /\ ~h.wait
      /\ h.from # NoCache
  BY <1>1, <1>3, <1>4 DEF Requests
<1>6. A1 = <<h>> \o Tail(A)
  BY <1>4
<1>7. /\ r.entry = e1 /\ r.queue = A1 /\ r.mem = <<>> /\ r.next = FALSE
      /\ r.out = [c \in Caches |-> IF c \in {f} THEN <<m>> ELSE <<>>]
  BY DEF SendTo, Quiet
<1>8. m \in DirMsgs /\ m.type = "WB_REQ"
  BY DEF DirMsgs, Msg
<1> HIDE DEF f, m, A1, r
<1>9. /\ IdleOK(cst, ws, sv, td, tc, e1, A1)
      /\ A1 \in Seq(Requests) /\ A1 # <<>> /\ A1[1] = h /\ Rest(A1)
  BY <1>5, <1>6, Marking
<1>10. Demanded(e1, A1, TRUE, f) = {"WB_REQ"}
  BY <1>1, <1>5, <1>9 DEF Demanded
<1>11. AsksOnly(e1, A1, r.out)
  <2>1. \A c \in Caches : r.out[c] = IF c = f THEN <<m>> ELSE <<>>
    BY <1>7
  <2>2. QED
    BY <1>8, <1>10, <2>1 DEF AsksOnly
<1>12. GoodRecord(r)
  <2>1. r.out \in [Caches -> Seq(DirMsgs)]
    BY <1>7, <1>8
  <2>2. ASSUME NEW c \in Caches, NEW i \in DOMAIN r.out[c]
        PROVE  r.out[c][i].type \notin {"EX_REP", "SH_REP"}
    BY <1>7, <1>8
  <2>3. QED
    BY <1>7, <1>9, <2>1, <2>2 DEF GoodRecord
<1>13. EntryBase(e1) /\ e1.where # "none" /\ e1.where # "replaced"
  BY <1>1 DEF EntryBase, f
<1>14. HeadOK(e1, A1[1])
  <2>1. h.requester # NoCache /\ h.type = "SH_REQ" /\ h.requester \in e1.sharers
    BY <1>1, <1>5, CoherenceAssumption
  <2>2. QED
    BY <1>1, <1>5, <1>9, <2>1 DEF HeadOK
<1>15. Started(cst, ws, sv, td, tc, r)
  BY <1>7, <1>9, <1>11, <1>12, <1>13, <1>14, Asking
<1>16. QED
  BY <1>15 DEF r, A1, m

\* The data are fetched from DRAM.
LEMMA RetrieveFetch ==
  ASSUME NEW cst, NEW ws, NEW sv, NEW td, NEW tc, NEW e \in Entries, NEW A \in Seq(Requests),
         NEW q \in Caches, NEW e1 \in Entries, NEW type,
         Frame(cst, ws, sv, td, tc), IdleOK(cst, ws, sv, td, tc, e, A),
         Retrievable(e, A, q, e1, type)
  PROVE  Started(cst, ws, sv, td, tc,
                 [Quiet(e1, <<[A[1] EXCEPT !.wait = TRUE]>> \o Tail(A))
                    EXCEPT !.mem = <<Msg("READ", NoData)>>])
<1> DEFINE A1 == <<[A[1] EXCEPT !.wait = TRUE]>> \o Tail(A)
           r == [Quiet(e1, A1) EXCEPT !.mem = <<Msg("READ", NoData)>>]
<1>1. /\ A # <<>> /\ Rest(A) /\ A[1].requester = q /\ ~A[1].wait /\ A[1].type \in CoreReqs
      /\ A[1].from # NoCache => A[1].type = "SH_REQ"
      /\ e1.where = "set" /\ e1.sharers = e.sharers \cup {q}
      /\ e1.dstate \in {"EXCLUSIVE", "MODIFIED"} => e1.sharers = {q} /\ e1.owner = q
      /\ Protocol = "MESIF" /\ e1.dstate = "SHARED" => e1.forwarder \in e1.sharers \cup {NoCache}
      /\ IF A[1].type = "SH_REQ" THEN e1.dstate \in {"SHARED", "EXCLUSIVE"}
                                 ELSE e1.dstate = "MODIFIED"
  BY DEF Retrievable
<1>3. A[1] \in Requests
  BY <1>1, SequenceFacts
<1>4. PICK h \in Requests : h = [A[1] EXCEPT !.wait = TRUE]
  BY <1>3 DEF Requests
<1>5. /\ h.requester = q /\ h.type = A[1].type /\ h.wait /\ h.from = A[1].from
  BY <1>1, <1>3, <1>4 DEF Requests
<1>6. A1 = <<h>> \o Tail(A)
  BY <1>4
<1>7. /\ r.entry = e1 /\ r.queue = A1 /\ r.mem = <<Msg("READ", NoData)>> /\ r.next = FALSE
      /\ r.out = [c \in Caches |-> <<>>]
  BY DEF Quiet
<1> HIDE DEF A1, r
<1>9. /\ IdleOK(cst, ws, sv, td, tc, e1, A1)
      /\ A1 \in Seq(Requests) /\ A1 # <<>> /\ A1[1] = h /\ Rest(A1)
  BY <1>5, <1>6, Marking
<1>11. AsksOnly(e1, A1, r.out)
  BY <1>7 DEF AsksOnly
<1>12. GoodRecord(r)
  <2>1. r.out \in [Caches -> Seq(DirMsgs)]
    BY <1>7
  <2>2. \A c \in Caches : DOMAIN r.out[c] = {}
    BY <1>7
  <2>3. QED
    BY <1>5, <1>7, <1>9, <2>1, <2>2 DEF GoodRecord
<1>13. EntryBase(e1) /\ e1.where # "none" /\ e1.where # "replaced"
  <2>1. e1.sharers # {} /\ e1.dstate # "UNCACHED"
    BY <1>1
  <2>2. QED
    BY <1>1, <2>1 DEF EntryBase
<1>14. HeadOK(e1, A1[1])
  <2>1. h.requester # NoCache /\ h.type \in CoreReqs /\ h.requester \in e1.sharers
    BY <1>1, <1>5, CoherenceAssumption
  <2>2. h.type # "SH_REQ" => h.from = NoCache /\ h.requester = e1.owner /\ e1.dstate = "MODIFIED"
    BY <1>1, <1>5
  <2>3. h.type = "SH_REQ" => e1.dstate \in {"SHARED", "EXCLUSIVE"}
    BY <1>1, <1>5
  <2>4. QED
    BY <1>5, <1>9, <2>1, <2>2, <2>3 DEF HeadOK, CoreReqs
<1>15. Started(cst, ws, sv, td, tc, r)
  BY <1>7, <1>9, <1>11, <1>12, <1>13, <1>14, Asking
<1>16. QED
  BY <1>15 DEF r, A1

\* The data go to q, at once or later.
LEMMA Retrieving ==
  ASSUME NEW cst, NEW ws, NEW sv, NEW td, NEW tc, NEW e \in Entries, NEW A \in Seq(Requests),
         NEW q \in Caches, NEW e1 \in Entries, NEW type, NEW data \in Data \cup {NoData},
         Frame(cst, ws, sv, td, tc), IdleOK(cst, ws, sv, td, tc, e, A),
         Retrievable(e, A, q, e1, type)
  PROVE  Started(cst, ws, sv, td, tc, RetrieveDataAndSend(type, q, data, e1, A))
<1>1. A # <<>> /\ Head(A) = A[1]
  BY SequenceFacts DEF Retrievable
<1>2. CASE data # NoData
  <2>1. RetrieveDataAndSend(type, q, data, e1, A)
          = ReplyNow(type, q, data, [e1 EXCEPT !.forwarder = q], A)
    BY <1>2 DEF RetrieveDataAndSend
  <2>2. data \in Data
    BY <1>2
  <2>3. QED
    BY <2>1, <2>2, RetrieveNow
<1>3. CASE data = NoData /\ MayForward(e1, A[1])
  <2>1. RetrieveDataAndSend(type, q, data, e1, A)
          = SendTo({e1.forwarder}, Msg("WB_REQ", NoData), e1,
                   <<[A[1] EXCEPT !.from = e1.forwarder]>> \o Tail(A))
    BY <1>1, <1>3 DEF RetrieveDataAndSend
  <2>2. QED
    BY <1>3, <2>1, RetrieveForward
<1>4. CASE data = NoData /\ ~MayForward(e1, A[1])
  <2>1. RetrieveDataAndSend(type, q, data, e1, A)
          = [Quiet(e1, <<[A[1] EXCEPT !.wait = TRUE]>> \o Tail(A))
               EXCEPT !.mem = <<Msg("READ", NoData)>>]
    BY <1>1, <1>4 DEF RetrieveDataAndSend
  <2>2. Started(cst, ws, sv, td, tc,
                [Quiet(e1, <<[A[1] EXCEPT !.wait = TRUE]>> \o Tail(A))
                   EXCEPT !.mem = <<Msg("READ", NoData)>>])
    BY RetrieveFetch
  <2>3. QED
    BY <2>1, <2>2
<1>5. QED
  BY <1>2, <1>3, <1>4

-----------------------------------------------------------------------------
(* ProcessHead. *)

\* The entry that is found or allocated for a core's request.
LEMMA AllocatedReady ==
  ASSUME NEW cst, NEW ws, NEW sv, NEW td, NEW tc, NEW e0 \in Entries, NEW A,
         IdleOK(cst, ws, sv, td, tc, e0, A), Ready(e0, A), A[1].type \in CoreReqs
  PROVE  /\ Allocated(e0) \in Entries /\ Allocated(e0).where = "set"
         /\ IdleOK(cst, ws, sv, td, tc, Allocated(e0), A) /\ Ready(Allocated(e0), A)
<1>1. A[1].type # "NULLIFY_REQ"
  BY DEF CoreReqs
<1>2. CASE e0.where = "none"
  <2>1. PICK e \in Entries : e = FreshEntry
    BY DEF Entries, FreshEntry, NoEntry, DStates
  <2>2. /\ e.where = "set" /\ e.sharers = {} /\ e.dstate = "UNCACHED"
    BY <2>1 DEF FreshEntry, NoEntry
  <2>3. Allocated(e0) = e
    BY <1>2, <2>1 DEF Allocated
  <2>4. e0.dstate = "UNCACHED" /\ e0.sharers = {}
    BY <1>2 DEF Ready, EntryBase
  <2>5. IdleOK(cst, ws, sv, td, tc, e, A)
    BY <2>2, <2>4, SameEntry
  <2>6. Ready(e, A)
    BY <2>2, <2>4 DEF Ready, EntryBase, ReadyHead
  <2>7. QED
    BY <2>2, <2>3, <2>5, <2>6
<1>3. CASE e0.where # "none"
  <2>1. Allocated(e0) = e0
    BY <1>3 DEF Allocated
  <2>2. e0.where = "set"
    BY <1>1, <1>3 DEF Ready, Entries
  <2>3. QED
    BY <2>1, <2>2
<1>4. QED
  BY <1>2, <1>3

\* All caches of S are asked for T.
LEMMA AskStarts ==
  ASSUME NEW cst, NEW ws, NEW sv, NEW td, NEW tc, NEW e \in Entries, NEW A \in Seq(Requests),
         NEW S, NEW T \in Demands,
         Frame(cst, ws, sv, td, tc), IdleOK(cst, ws, sv, td, tc, e, A), Ready(e, A),
         HeadOK(e, A[1]), e.where # "none",
         \A c \in Caches : c \in S => T \in Demanded(e, A, TRUE, c)
  PROVE  Started(cst, ws, sv, td, tc, SendTo(S, Msg(T, NoData), e, A))
<1> DEFINE m == Msg(T, NoData)
           r == SendTo(S, m, e, A)
<1>1. m \in DirMsgs /\ m.type = T
  BY DEF DirMsgs, Msg, Demands
<1>2. /\ r.entry = e /\ r.queue = A /\ r.mem = <<>> /\ r.next = FALSE
      /\ r.out = [c \in Caches |-> IF c \in S THEN <<m>> ELSE <<>>]
  BY DEF SendTo, Quiet
<1> HIDE DEF m, r
<1>3. \A c \in Caches : r.out[c] = IF c \in S THEN <<m>> ELSE <<>>
  BY <1>2
<1>4. AsksOnly(e, A, r.out)
  BY <1>1, <1>3 DEF AsksOnly
<1>5. A # <<>> /\ Rest(A) /\ EntryBase(e) /\ (e.where = "replaced" => A[1].type = "NULLIFY_REQ")
  BY DEF Ready
<1>6. GoodRecord(r)
  <2>1. r.out \in [Caches -> Seq(DirMsgs)]
    BY <1>1, <1>2
  <2>2. ASSUME NEW c \in Caches, NEW i \in DOMAIN r.out[c]
        PROVE  r.out[c][i].type \notin {"EX_REP", "SH_REP"}
    BY <1>1, <1>3 DEF Demands
  <2>3. QED
    BY <1>2, <1>5, <2>1, <2>2 DEF GoodRecord
<1>7. Started(cst, ws, sv, td, tc, r)
  BY <1>2, <1>4, <1>5, <1>6, Asking
<1>8. QED
  BY <1>7 DEF r, m

\* EX_REQ.
LEMMA ExStarts ==
  ASSUME NEW cst, NEW ws, NEW sv, NEW td, NEW tc, NEW e0 \in Entries, NEW A \in Seq(Requests),
         NEW data \in Data \cup {NoData},
         Frame(cst, ws, sv, td, tc), IdleOK(cst, ws, sv, td, tc, e0, A), Ready(e0, A),
         A[1].type = "EX_REQ"
  PROVE  Started(cst, ws, sv, td, tc, ProcessExReq(e0, A, data))
<1> DEFINE e == Allocated(e0)
           q == A[1].requester
<1>1. /\ e \in Entries /\ e.where = "set"
      /\ IdleOK(cst, ws, sv, td, tc, e, A) /\ Ready(e, A)
  BY AllocatedReady DEF CoreReqs
<1>2. A # <<>> /\ Rest(A) /\ Unique(A) /\ EntryBase(e) /\ Fresh(A[1]) /\ Head(A) = A[1]
  <2>1. A # <<>> /\ Rest(A) /\ EntryBase(e) /\ Fresh(A[1])
    BY <1>1 DEF Ready, ReadyHead
  <2>2. QED
    BY <2>1, SequenceFacts DEF Rest
<1>3. q \in Caches /\ ~A[1].wait /\ A[1].from = NoCache /\ q # NoCache
  BY <1>2, CoherenceAssumption DEF Fresh
<1> HIDE DEF e
<1>4. q \notin e.sharers
  BY <1>1, <1>2, <1>3, FreshUnlisted
<1>5. e.dstate # "UNCACHED" => HeadOK(e, A[1])
  BY <1>3, <1>4 DEF HeadOK
<1>6. CASE e.dstate \in {"EXCLUSIVE", "MODIFIED"}
  <2>1. ProcessExReq(e0, A, data) = SendTo({e.owner}, Msg("FLUSH_REQ", NoData), e, A)
    BY <1>6 DEF ProcessExReq, e
  <2>2. e.sharers = {e.owner}
    BY <1>2, <1>6 DEF EntryBase
  <2>3. \A c \in Caches : c \in {e.owner} => "FLUSH_REQ" \in Demanded(e, A, TRUE, c)
    BY <1>2, <1>3, <1>4, <1>6, <2>2 DEF Demanded
  <2>4. Started(cst, ws, sv, td, tc, SendTo({e.owner}, Msg("FLUSH_REQ", NoData), e, A))
    BY <1>1, <1>5, <1>6, <2>3, AskStarts DEF Demands
  <2>5. QED
    BY <2>1, <2>4
<1>7. CASE e.dstate = "SHARED"
  <2>1. ProcessExReq(e0, A, data) = SendTo(e.sharers, Msg("INV_REQ", NoData), e, A)
    BY <1>7 DEF ProcessExReq, e
  <2>2. \A c \in Caches : c \in e.sharers => "INV_REQ" \in Demanded(e, A, TRUE, c)
    BY <1>2, <1>3, <1>4, <1>7 DEF Demanded
  <2>3. Started(cst, ws, sv, td, tc, SendTo(e.sharers, Msg("INV_REQ", NoData), e, A))
    BY <1>1, <1>5, <1>7, <2>2, AskStarts DEF Demands
  <2>4. QED
    BY <2>1, <2>3
<1>8. CASE e.dstate = "UNCACHED"
  <2>1. PICK e1 : e1 = Claim(e, q, "MODIFIED")
    OBVIOUS
  <2>2. ProcessExReq(e0, A, data) = RetrieveDataAndSend("EX_REP", q, data, e1, A)
    BY <1>2, <1>8, <2>1 DEF ProcessExReq, e
  <2>3. /\ e1 \in Entries /\ e1.where = "set" /\ e1.dstate = "MODIFIED"
        /\ e1.sharers = e.sharers \cup {q} /\ e1.owner = q
    BY <1>1, <1>3, <2>1 DEF Claim, Entries, DStates
  <2>4. e.sharers = {}
    BY <1>2, <1>8 DEF EntryBase
  <2>5. Retrievable(e, A, q, e1, "EX_REP")
    BY <1>2, <1>3, <1>4, <2>3, <2>4 DEF Retrievable, GrantOK, CoreReqs
  <2>6. Started(cst, ws, sv, td, tc, RetrieveDataAndSend("EX_REP", q, data, e1, A))
    BY <1>1, <1>3, <2>3, <2>5, Retrieving
  <2>7. QED
    BY <2>2, <2>6
<1>9. e.dstate \in DStates
  BY <1>1 DEF Entries
<1>10. QED
  BY <1>6, <1>7, <1>8, <1>9 DEF DStates

\* There is room in the entry for a cache it does not list.
LEMMA RoomLeft ==
  ASSUME FullMap, NEW e \in Entries, NEW q \in Caches, q \notin e.sharers
  PROVE  ~(Cardinality(e.sharers) >= MaxHwSharers)
<1>1. e.sharers \subseteq Caches /\ e.sharers \cup {q} \subseteq Caches
  BY DEF Entries
<1>2. /\ IsFiniteSet(e.sharers) /\ IsFiniteSet(e.sharers \cup {q})
      /\ Cardinality(e.sharers \cup {q}) <= Cardinality(Caches)
  BY <1>1, FS_Subset DEF FullMap
<1>3. Cardinality(e.sharers \cup {q}) = Cardinality(e.sharers) + 1
  BY <1>2, FS_AddElement
<1>4. /\ Cardinality(e.sharers) \in Nat /\ Cardinality(Caches) \in Nat
      /\ MaxHwSharers \in Nat /\ Cardinality(Caches) <= MaxHwSharers
  BY <1>2, FS_CardinalityType, CoherenceAssumption DEF FullMap
<1>5. QED
  BY <1>2, <1>3, <1>4

\* SH_REQ.
LEMMA ShStarts ==
  ASSUME FullMap,
         NEW cst, NEW ws, NEW sv, NEW td, NEW tc, NEW e0 \in Entries, NEW A \in Seq(Requests),
         NEW data \in Data \cup {NoData}, NEW pick,
         Frame(cst, ws, sv, td, tc), IdleOK(cst, ws, sv, td, tc, e0, A), Ready(e0, A),
         A[1].type = "SH_REQ"
  PROVE  Started(cst, ws, sv, td, tc, ProcessShReq(e0, A, data, pick))
<1> DEFINE e == Allocated(e0)
           q == A[1].requester
<1>1. /\ e \in Entries /\ e.where = "set"
      /\ IdleOK(cst, ws, sv, td, tc, e, A) /\ Ready(e, A)
  BY AllocatedReady DEF CoreReqs
<1>2. A # <<>> /\ Rest(A) /\ Unique(A) /\ EntryBase(e) /\ Head(A) = A[1]
  <2>1. A # <<>> /\ Rest(A) /\ EntryBase(e)
    BY <1>1 DEF Ready
  <2>2. QED
    BY <2>1, SequenceFacts DEF Rest
<1>3. ReadyHead(e, A[1]) /\ A[1] \in Requests
  BY <1>1, <1>2, SequenceFacts DEF Ready
<1>4. q \in Caches /\ ~A[1].wait /\ q # NoCache
  <2>1. ~A[1].wait
    BY <1>3 DEF ReadyHead, Fresh
  <2>2. q \in Caches
    BY <1>1, <1>3 DEF ReadyHead, Fresh, Entries
  <2>3. QED
    BY <2>1, <2>2, CoherenceAssumption
<1> HIDE DEF e
<1>5. A[1].from = NoCache => Fresh(A[1]) /\ q \notin e.sharers
  <2>1. A[1].from = NoCache => Fresh(A[1])
    BY <1>3 DEF ReadyHead, Fresh
  <2>2. Fresh(A[1]) => q \notin e.sharers
    BY <1>1, <1>2, <1>4, FreshUnlisted
  <2>3. QED
    BY <2>1, <2>2
<1>6. A[1].from # NoCache => e.dstate = "SHARED" /\ q \in e.sharers
  BY <1>3 DEF ReadyHead, Fresh
<1>7. CASE e.dstate \in {"EXCLUSIVE", "MODIFIED"}
  <2>1. ProcessShReq(e0, A, data, pick) = SendTo({e.owner}, Msg("WB_REQ", NoData), e, A)
    BY <1>7 DEF ProcessShReq, e
  <2>2. e.sharers = {e.owner}
    BY <1>2, <1>7 DEF EntryBase
  <2>3. A[1].from = NoCache /\ q \notin e.sharers
    BY <1>5, <1>6, <1>7
  <2>4. \A c \in Caches : c \in {e.owner} => "WB_REQ" \in Demanded(e, A, TRUE, c)
    BY <1>2, <1>4, <1>7, <2>2, <2>3 DEF Demanded
  <2>5. HeadOK(e, A[1])
    BY <1>4, <1>7, <2>3 DEF HeadOK
  <2>6. Started(cst, ws, sv, td, tc, SendTo({e.owner}, Msg("WB_REQ", NoData), e, A))
    BY <1>1, <2>4, <2>5, AskStarts DEF Demands
  <2>7. QED
    BY <2>1, <2>6
<1>8. CASE e.dstate = "SHARED" /\ q \in e.sharers
  <2>1. ProcessShReq(e0, A, data, pick) = RetrieveDataAndSend("SH_REP", q, data, e, A)
    BY <1>2, <1>8 DEF ProcessShReq, e
  <2>2. A[1].from # NoCache
    BY <1>5, <1>8
  <2>3. e.sharers = e.sharers \cup {q}
    BY <1>8
  <2>4. Retrievable(e, A, q, e, "SH_REP")
    BY <1>1, <1>2, <1>4, <1>8, <2>2, <2>3 DEF Retrievable, GrantOK, CoreReqs, EntryBase
  <2>5. Started(cst, ws, sv, td, tc, RetrieveDataAndSend("SH_REP", q, data, e, A))
    BY <1>1, <1>4, <2>4, Retrieving
  <2>6. QED
    BY <2>1, <2>5
<1>9. CASE e.dstate = "SHARED" /\ q \notin e.sharers
  <2>1. PICK e1 : e1 = [e EXCEPT !.sharers = @ \cup {q}]
    OBVIOUS
  <2>2. ProcessShReq(e0, A, data, pick) = RetrieveDataAndSend("SH_REP", q, data, e1, A)
    <3>1. ~(Cardinality(e.sharers) >= MaxHwSharers)
      BY <1>1, <1>4, <1>9, RoomLeft
    <3>2. QED
      BY <1>2, <1>9, <2>1, <3>1 DEF ProcessShReq, e
  <2>3. /\ e1 \in Entries /\ e1.where = "set" /\ e1.dstate = "SHARED"
        /\ e1.sharers = e.sharers \cup {q} /\ e1.forwarder = e.forwarder
    BY <1>1, <1>4, <1>9, <2>1 DEF Entries
  <2>4. A[1].from = NoCache
    BY <1>6, <1>9
  <2>5. Retrievable(e, A, q, e1, "SH_REP")
    BY <1>2, <1>4, <1>9, <2>3, <2>4 DEF Retrievable, GrantOK, CoreReqs, EntryBase
  <2>6. Started(cst, ws, sv, td, tc, RetrieveDataAndSend("SH_REP", q, data, e1, A))
    BY <1>1, <1>4, <2>3, <2>5, Retrieving
  <2>7. QED
    BY <2>2, <2>6
<1>10. CASE e.dstate = "UNCACHED"
  <2>1. PICK e1, type : IF Protocol = "MSI" THEN e1 = Claim(e, q, "SHARED") /\ type = "SH_REP"
                        ELSE e1 = Claim(e, q, "EXCLUSIVE") /\ type = "EX_REP"
    OBVIOUS
  <2>2. ProcessShReq(e0, A, data, pick) = RetrieveDataAndSend(type, q, data, e1, A)
    BY <1>2, <1>10, <2>1 DEF ProcessShReq, e
  <2>3. /\ e1 \in Entries /\ e1.where = "set"
        /\ e1.sharers = e.sharers \cup {q} /\ e1.owner = q
        /\ \/ Protocol = "MSI" /\ e1.dstate = "SHARED" /\ type = "SH_REP"
           \/ Protocol # "MSI" /\ e1.dstate = "EXCLUSIVE" /\ type = "EX_REP"
    <3>1. CASE Protocol = "MSI"
      <4>1. e1 = Claim(e, q, "SHARED") /\ type = "SH_REP"
        BY <2>1, <3>1
      <4>2. /\ e1 \in Entries /\ e1.where = "set" /\ e1.dstate = "SHARED"
            /\ e1.sharers = e.sharers \cup {q} /\ e1.owner = q
        BY <1>1, <1>4, <4>1 DEF Claim, Entries, DStates
      <4>3. QED
        BY <3>1, <4>1, <4>2
    <3>2. CASE Protocol # "MSI"
      <4>1. e1 = Claim(e, q, "EXCLUSIVE") /\ type = "EX_REP"
        BY <2>1, <3>2
      <4>2. /\ e1 \in Entries /\ e1.where = "set" /\ e1.dstate = "EXCLUSIVE"
            /\ e1.sharers = e.sharers \cup {q} /\ e1.owner = q
        BY <1>1, <1>4, <4>1 DEF Claim, Entries, DStates
      <4>3. QED
        BY <3>2, <4>1, <4>2
    <3>3. QED
      BY <3>1, <3>2
  <2>4. e.sharers = {}
    BY <1>2, <1>10 DEF EntryBase
  <2>5. A[1].from = NoCache
    BY <1>6, <1>10
  <2>6. Retrievable(e, A, q, e1, type)
    BY <1>2, <1>4, <2>3, <2>4, <2>5 DEF Retrievable, GrantOK, CoreReqs
  <2>7. Started(cst, ws, sv, td, tc, RetrieveDataAndSend(type, q, data, e1, A))
    BY <1>1, <1>4, <2>3, <2>6, Retrieving
  <2>8. QED
    BY <2>2, <2>7
<1>11. e.dstate \in DStates
  BY <1>1 DEF Entries
<1>12. QED
  BY <1>7, <1>8, <1>9, <1>10, <1>11 DEF DStates

\* The upgrade is granted: the requester holds the only copy.
LEMMA UpgradeGranted ==
  ASSUME NEW cst, NEW ws, NEW sv, NEW td, NEW tc, NEW e \in Entries, NEW A \in Seq(Requests),
         NEW q \in Caches,
         Frame(cst, ws, sv, td, tc), IdleOK(cst, ws, sv, td, tc, e, A), Ready(e, A),
         e.where = "set", Fresh(A[1]), A[1].requester = q, A[1].type = "UPGRADE_REQ",
         q \in e.sharers, \A c \in Caches : c # q => c \notin e.sharers
  PROVE  Started(cst, ws, sv, td, tc,
                 ReplyNow("UPGRADE_REP", q, NoData, Claim(e, q, "MODIFIED"), A))
<1> DEFINE e2 == Claim(e, q, "MODIFIED")
           m == Msg("UPGRADE_REP", NoData)
           out == [d \in Caches |-> IF d \in {q} THEN <<m>> ELSE <<>>]
           r == ReplyNow("UPGRADE_REP", q, NoData, e2, A)
<1>1. /\ e2 \in Entries /\ e2.dstate = "MODIFIED" /\ e2.where = "set" /\ e2.owner = q
      /\ e2.sharers = e.sharers \cup {q}
  BY DEF Claim, Entries, DStates
<1>2. m \in DirMsgs /\ m.type = "UPGRADE_REP"
  BY DEF DirMsgs, Msg
<1>3. out \in [Caches -> Seq(DirMsgs)]
  BY <1>2
<1>4. /\ r.entry = e2 /\ r.queue = A /\ r.out = out /\ r.mem = <<>> /\ r.next = TRUE
  <2>1. r.entry = e2 /\ r.queue = A
    BY DEF ReplyNow, SendTo, Quiet
  <2>2. r.out = out
    BY DEF ReplyNow, SendTo, Quiet
  <2>3. r.mem = <<>> /\ r.next = TRUE
    BY DEF ReplyNow, SendTo, Quiet
  <2>4. QED
    BY <2>1, <2>2, <2>3
<1>5. \A c \in Caches : out[c] = IF c = q THEN <<m>> ELSE <<>>
  OBVIOUS
<1>6. out = [c \in Caches |-> IF c = q THEN <<m>> ELSE <<>>]
  OBVIOUS
<1> HIDE DEF e2, m, out, r
<1>7. A # <<>> /\ Rest(A) /\ Unique(A) /\ \A i \in DOMAIN A : i # 1 => Fresh(A[i])
  BY DEF Ready, Rest
<1>8. e2.sharers = e.sharers
  BY <1>1
<1>9. IdleOK(cst, ws, sv, td, Sent(tc, out), e2, Tail(A))
  <2>1. e2 \in Entries /\ e2.dstate = "MODIFIED"
    BY <1>1
  <2>2. QED
    BY ZenonT(60), <1>2, <1>3, <1>6, <1>7, <1>8, <2>1, Upgraded
<1>10. GoodRecord(r)
  <2>1. ASSUME NEW c \in Caches, NEW i \in DOMAIN out[c]
        PROVE  out[c][i].type \notin {"EX_REP", "SH_REP"}
    BY <1>2, <1>5
  <2>2. QED
    BY <1>1, <1>3, <1>4, <1>7, <2>1 DEF GoodRecord
<1>11. EntryOK(e2, Tail(A), FALSE)
  <2>1. e2.sharers = {q}
    <3>1. e.sharers \subseteq Caches
      BY DEF Entries
    <3>2. QED
      BY <1>8, <3>1
  <2>2. QED
    BY <1>1, <2>1 DEF EntryOK
<1>12. QueueOK(e2, Tail(A), FALSE)
  BY <1>7, TailQueue
<1>13. Started(cst, ws, sv, td, tc, r)
  BY <1>4, <1>9, <1>10, <1>11, <1>12 DEF Started
<1>14. QED
  BY <1>13 DEF r, e2

\* The reply of ProcessUpgradeReq that asks the other sharers.
OthersAsked(e, A, q, first) ==
  [Quiet(e, A) EXCEPT !.out =
     [d \in Caches |-> IF d \notin e.sharers \ {q} THEN <<>>
                       ELSE IF q \notin e.sharers /\ d = first
                            THEN <<Msg("FLUSH_REQ", NoData)>>
                            ELSE <<Msg("INV_REQ", NoData)>>]]

\* The other sharers are asked to give up their copies for an upgrade.
LEMMA UpgradeAsks ==
  ASSUME NEW cst, NEW ws, NEW sv, NEW td, NEW tc, NEW e \in Entries, NEW A \in Seq(Requests),
         NEW q \in Caches, NEW first,
         Frame(cst, ws, sv, td, tc), IdleOK(cst, ws, sv, td, tc, e, A), Ready(e, A),
         e.where = "set", Fresh(A[1]), A[1].requester = q, A[1].type = "UPGRADE_REQ",
         e.dstate = "SHARED", e.sharers \ {q} # {}
  PROVE  Started(cst, ws, sv, td, tc, OthersAsked(e, A, q, first))
<1> DEFINE inv == Msg("INV_REQ", NoData)
           flush == Msg("FLUSH_REQ", NoData)
           out == [d \in Caches |->
                     IF d \notin e.sharers \ {q} THEN <<>>
                     ELSE IF q \notin e.sharers /\ d = first THEN <<flush>> ELSE <<inv>>]
           r == [Quiet(e, A) EXCEPT !.out = out]
<1>1. /\ inv \in DirMsgs /\ inv.type = "INV_REQ"
      /\ flush \in DirMsgs /\ flush.type = "FLUSH_REQ"
  BY DEF DirMsgs, Msg
<1>2. /\ r.entry = e /\ r.queue = A /\ r.mem = <<>> /\ r.next = FALSE /\ r.out = out
  BY DEF Quiet
<1>3. out \in [Caches -> Seq(DirMsgs)]
  BY <1>1
<1>4. \A d \in Caches : out[d] = IF d \notin e.sharers \ {q} THEN <<>>
                     ELSE IF q \notin e.sharers /\ d = first THEN <<flush>> ELSE <<inv>>
  OBVIOUS
<1>5. A # <<>> /\ Rest(A) /\ EntryBase(e) /\ e.where # "none"
      /\ ~A[1].wait /\ A[1].from = NoCache /\ q # NoCache
  BY CoherenceAssumption DEF Ready, Fresh
<1> HIDE DEF inv, flush, out, r
<1>6. ASSUME NEW d \in Caches, d \in e.sharers, d # q
      PROVE  /\ "INV_REQ" \in Demanded(e, A, TRUE, d)
             /\ q \notin e.sharers => "FLUSH_REQ" \in Demanded(e, A, TRUE, d)
  BY <1>5, <1>6 DEF Demanded
<1>7. AsksOnly(e, A, out)
  BY <1>1, <1>4, <1>6 DEF AsksOnly
<1>8. HeadOK(e, A[1])
  BY <1>5 DEF HeadOK
<1>9. GoodRecord(r)
  <2>1. ASSUME NEW c \in Caches, NEW i \in DOMAIN out[c]
        PROVE  out[c][i].type \notin {"EX_REP", "SH_REP"}
    BY <1>1, <1>4
  <2>2. QED
    BY <1>2, <1>3, <1>5, <2>1 DEF GoodRecord
<1>10. Started(cst, ws, sv, td, tc, r)
  BY <1>2, <1>5, <1>7, <1>8, <1>9, Asking
<1>11. QED
  BY <1>10 DEF r, out, inv, flush, OthersAsked

\* UPGRADE_REQ.
LEMMA UpgradeStarts ==
  ASSUME NEW cst, NEW ws, NEW sv, NEW td, NEW tc, NEW e0 \in Entries, NEW A \in Seq(Requests),
         NEW data \in Data \cup {NoData}, NEW pick,
         Frame(cst, ws, sv, td, tc), IdleOK(cst, ws, sv, td, tc, e0, A), Ready(e0, A),
         A[1].type = "UPGRADE_REQ"
  PROVE  Started(cst, ws, sv, td, tc, ProcessUpgradeReq(e0, A, data, pick))
<1> DEFINE e == Allocated(e0)
           q == A[1].requester
<1>1. /\ e \in Entries /\ e.where = "set"
      /\ IdleOK(cst, ws, sv, td, tc, e, A) /\ Ready(e, A)
  BY AllocatedReady DEF CoreReqs
<1>2. /\ A # <<>> /\ Rest(A) /\ Unique(A) /\ EntryBase(e) /\ Fresh(A[1]) /\ Head(A) = A[1]
      /\ A[1] \in Requests
  <2>1. A # <<>> /\ Rest(A) /\ EntryBase(e) /\ Fresh(A[1])
    BY <1>1 DEF Ready, ReadyHead
  <2>2. QED
    BY <2>1, SequenceFacts DEF Rest
<1>3. q \in Caches /\ ~A[1].wait /\ A[1].from = NoCache /\ q # NoCache
  BY <1>2, CoherenceAssumption DEF Fresh
<1> HIDE DEF e
<1>4. q \in e.sharers => e.dstate = "SHARED"
  <2>1. ASSUME q \in e.sharers PROVE Upgrading(cst, ws, sv, td, tc, e, q)
    BY <1>1, <1>2, <1>3, <2>1, UpgradeView
  <2>2. QED
    BY <2>1 DEF Upgrading
<1>5. CASE e.dstate \in {"EXCLUSIVE", "MODIFIED"}
  <2>1. q \notin e.sharers
    BY <1>4, <1>5
  <2>2. ProcessUpgradeReq(e0, A, data, pick) = SendTo({e.owner}, Msg("FLUSH_REQ", NoData), e, A)
    BY <1>2, <1>5, <2>1 DEF ProcessUpgradeReq, e
  <2>3. e.sharers = {e.owner}
    BY <1>2, <1>5 DEF EntryBase
  <2>4. \A c \in Caches : c \in {e.owner} => "FLUSH_REQ" \in Demanded(e, A, TRUE, c)
    BY <1>2, <1>3, <1>5, <2>1, <2>3 DEF Demanded
  <2>5. HeadOK(e, A[1])
    BY <1>3, <1>5, <2>1, <2>3 DEF HeadOK
  <2>6. Started(cst, ws, sv, td, tc, SendTo({e.owner}, Msg("FLUSH_REQ", NoData), e, A))
    BY <1>1, <2>4, <2>5, AskStarts DEF Demands
  <2>7. QED
    BY <2>2, <2>6
<1>6. CASE e.dstate = "SHARED" /\ e.sharers = {q}
  <2>1. ProcessUpgradeReq(e0, A, data, pick)
          = ReplyNow("UPGRADE_REP", q, NoData, Claim(e, q, "MODIFIED"), A)
    BY <1>2, <1>6 DEF ProcessUpgradeReq, e
  <2>2. q \in e.sharers /\ \A c \in Caches : c # q => c \notin e.sharers
    BY <1>6
  <2>3. Started(cst, ws, sv, td, tc,
                ReplyNow("UPGRADE_REP", q, NoData, Claim(e, q, "MODIFIED"), A))
    BY <1>1, <1>2, <1>3, <2>2, UpgradeGranted
  <2>4. QED
    BY <2>1, <2>3
<1>7. CASE e.dstate = "SHARED" /\ e.sharers # {q}
  <2>1. ProcessUpgradeReq(e0, A, data, pick)
          = OthersAsked(e, A, q, pick)
    BY <1>2, <1>7 DEF ProcessUpgradeReq, OthersAsked, e
  <2>2. e.sharers \ {q} # {}
    <3>1. e.sharers # {}
      BY <1>2, <1>7 DEF EntryBase
    <3>2. QED
      BY <1>7, <3>1
  <2>3. e.dstate = "SHARED"
    BY <1>7
  <2>4. Started(cst, ws, sv, td, tc, OthersAsked(e, A, q, pick))
    BY <1>1, <1>2, <1>3, <2>2, <2>3, UpgradeAsks
  <2>5. QED
    BY <2>1, <2>4
<1>8. CASE e.dstate = "UNCACHED"
  <2>1. PICK e1, d1 : e1 = Claim(e, q, "MODIFIED") /\ d1 = IF data = NoData THEN A[1].data ELSE data
    OBVIOUS
  <2>2. ProcessUpgradeReq(e0, A, data, pick) = RetrieveDataAndSend("EX_REP", q, d1, e1, A)
    BY <1>2, <1>8, <2>1 DEF ProcessUpgradeReq, e
  <2>3. /\ e1 \in Entries /\ e1.where = "set" /\ e1.dstate = "MODIFIED"
        /\ e1.sharers = e.sharers \cup {q} /\ e1.owner = q
    BY <1>1, <1>3, <2>1 DEF Claim, Entries, DStates
  <2>4. d1 \in Data \cup {NoData}
    BY <1>2, <2>1 DEF Requests
  <2>5. e.sharers = {}
    BY <1>2, <1>8 DEF EntryBase
  <2>6. q \notin e.sharers
    BY <2>5
  <2>7. Retrievable(e, A, q, e1, "EX_REP")
    BY <1>2, <1>3, <2>3, <2>5, <2>6 DEF Retrievable, GrantOK, CoreReqs
  <2>8. Started(cst, ws, sv, td, tc, RetrieveDataAndSend("EX_REP", q, d1, e1, A))
    BY <1>1, <1>3, <2>3, <2>4, <2>7, Retrieving
  <2>9. QED
    BY <2>2, <2>8
<1>9. e.dstate \in DStates
  BY <1>1 DEF Entries
<1>10. QED
  BY <1>5, <1>6, <1>7, <1>8, <1>9 DEF DStates

\* NULLIFY_REQ.
LEMMA NullifyStarts ==
  ASSUME NEW cst, NEW ws, NEW sv, NEW td, NEW tc, NEW e \in Entries, NEW A \in Seq(Requests),
         Frame(cst, ws, sv, td, tc), IdleOK(cst, ws, sv, td, tc, e, A), Ready(e, A),
         A[1].type = "NULLIFY_REQ"
  PROVE  Started(cst, ws, sv, td, tc, ProcessNullifyReq(e, A))
<1>1. /\ A # <<>> /\ Rest(A) /\ Unique(A) /\ EntryBase(e)
      /\ \A i \in DOMAIN A : i # 1 => Fresh(A[i])
  BY DEF Ready, Rest
<1>2. A[1].requester = NoCache /\ ~A[1].wait /\ A[1].from = NoCache
  BY DEF Ready, ReadyHead, Fresh, CoreReqs
<1>3. e.dstate # "UNCACHED" => HeadOK(e, A[1]) /\ e.where # "none"
  BY <1>2 DEF HeadOK, Ready
<1>4. CASE e.dstate \in {"EXCLUSIVE", "MODIFIED"}
  <2>1. ProcessNullifyReq(e, A) = SendTo({e.owner}, Msg("FLUSH_REQ", NoData), e, A)
    BY <1>4 DEF ProcessNullifyReq
  <2>2. e.sharers = {e.owner}
    BY <1>1, <1>4 DEF EntryBase
  <2>3. \A c \in Caches : c \in {e.owner} => "FLUSH_REQ" \in Demanded(e, A, TRUE, c)
    BY <1>1, <1>2, <1>4, <2>2, CoherenceAssumption DEF Demanded
  <2>4. Started(cst, ws, sv, td, tc, SendTo({e.owner}, Msg("FLUSH_REQ", NoData), e, A))
    BY <1>3, <1>4, <2>3, AskStarts DEF Demands
  <2>5. QED
    BY <2>1, <2>4
<1>5. CASE e.dstate = "SHARED"
  <2>1. ProcessNullifyReq(e, A) = SendTo(e.sharers, Msg("INV_REQ", NoData), e, A)
    BY <1>5 DEF ProcessNullifyReq
  <2>2. \A c \in Caches : c \in e.sharers => "INV_REQ" \in Demanded(e, A, TRUE, c)
    BY <1>1, <1>2, <1>5, CoherenceAssumption DEF Demanded
  <2>3. Started(cst, ws, sv, td, tc, SendTo(e.sharers, Msg("INV_REQ", NoData), e, A))
    BY <1>3, <1>5, <2>2, AskStarts DEF Demands
  <2>4. QED
    BY <2>1, <2>3
<1>6. CASE e.dstate = "UNCACHED"
  <2>1. PICK e2 \in Entries : e2 = NoEntry
    BY DEF Entries, NoEntry, DStates
  <2>2. PICK out : out = [c \in Caches |-> <<>>]
    OBVIOUS
  <2>3. PICK r : r = [Quiet(e2, A) EXCEPT !.next = TRUE]
    OBVIOUS
  <2>4. r.entry = e2 /\ r.queue = A /\ r.out = out /\ r.mem = <<>> /\ r.next = TRUE
    BY <2>2, <2>3 DEF Quiet
  <2>5. /\ e2.sharers = {} /\ e2.dstate = "UNCACHED" /\ e2.where = "none"
        /\ e2.sharers = e.sharers /\ e2.dstate = e.dstate
    BY <1>1, <1>6, <2>1 DEF NoEntry, EntryBase
  <2>6. IdleOK(cst, ws, sv, td, tc, e2, Tail(A))
    BY <1>1, <1>2, <2>5, Dropping
  <2>7. Sent(tc, out) = tc
    <3>1. \A c \in Caches : tc[c] \in Seq(DirMsgs)
      BY DEF Frame
    <3>2. \A c \in Caches : tc[c] \o out[c] = tc[c]
      BY <2>2, <3>1, ConcatNone
    <3>3. tc = [c \in Caches |-> tc[c]]
      BY DEF Frame
    <3>4. QED
      BY <3>2, <3>3 DEF Sent
  <2>8. EntryOK(e2, Tail(A), FALSE)
    BY <2>5 DEF EntryOK
  <2>9. QueueOK(e2, Tail(A), FALSE)
    BY <1>1, TailQueue
  <2>10. GoodRecord(r)
    <3>1. out \in [Caches -> Seq(DirMsgs)] /\ \A c \in Caches : DOMAIN out[c] = {}
      BY <2>2
    <3>2. QED
      BY <1>1, <2>4, <3>1 DEF GoodRecord
  <2>11. Started(cst, ws, sv, td, tc, r)
    BY <2>4, <2>6, <2>7, <2>8, <2>9, <2>10 DEF Started
  <2>12. ProcessNullifyReq(e, A) = r
    BY <1>6, <2>1, <2>3 DEF ProcessNullifyReq
  <2>13. QED
    BY <2>11, <2>12
<1>7. e.dstate \in DStates
  BY DEF Entries
<1>8. QED
  BY <1>4, <1>5, <1>6, <1>7 DEF DStates

\* Whatever request is at the head: a reply record that leaves the caches
\* fitting.
LEMMA HeadStarts ==
  ASSUME FullMap,
         NEW cst, NEW ws, NEW sv, NEW td, NEW tc, NEW e \in Entries, NEW A \in Seq(Requests),
         NEW data \in Data \cup {NoData}, NEW pick,
         Frame(cst, ws, sv, td, tc), IdleOK(cst, ws, sv, td, tc, e, A), Ready(e, A)
  PROVE  Started(cst, ws, sv, td, tc, ProcessHead(e, A, data, pick))
<1>1. A # <<>> /\ Head(A) = A[1] /\ A[1] \in Requests
  BY SequenceFacts DEF Ready
<1>2. CASE A[1].type = "EX_REQ"
  BY <1>1, <1>2, ExStarts DEF ProcessHead
<1>3. CASE A[1].type = "SH_REQ"
  BY <1>1, <1>3, ShStarts DEF ProcessHead
<1>4. CASE A[1].type = "UPGRADE_REQ"
  BY <1>1, <1>4, UpgradeStarts DEF ProcessHead
<1>5. CASE A[1].type = "NULLIFY_REQ"
  BY <1>1, <1>5, NullifyStarts DEF ProcessHead
<1>6. QED
  BY <1>1, <1>2, <1>3, <1>4, <1>5 DEF Requests, CoreReqs

-----------------------------------------------------------------------------
(* Memory. *)

\* No read is on its way to DRAM and no answer on its way back.
MemoryIdle(rd, fd) == fd = <<>> /\ \A i \in DOMAIN rd : rd[i].type # "READ"

\* While no request waits for data, DRAM is not reading for one.
LEMMA NotWaiting ==
  ASSUME NEW rd, NEW fd, NEW A, NEW b \in BOOLEAN, MemoryOK(rd, fd, A, b), ~(b /\ A[1].wait)
  PROVE  MemoryIdle(rd, fd)
BY DEF MemoryOK, MemoryIdle

\* What the directory writes to DRAM before anything else.
Writes == {<<>>} \cup {<<Msg("WRITE", d)>> : d \in Data}

\* A write to DRAM of a flushed line disturbs no read.
LEMMA WriteAppended ==
  ASSUME NEW rd \in Seq(DramMsgs), NEW fd, NEW A, NEW b \in BOOLEAN, MemoryOK(rd, fd, A, b),
         NEW A2, NEW b2 \in BOOLEAN, b /\ A[1].wait => b2 /\ A2[1].wait, NEW w \in Writes
  PROVE  rd \o w \in Seq(DramMsgs) /\ MemoryOK(rd \o w, fd, A2, b2)
<1>1. CASE w = <<>>
  <2>1. rd \o w = rd
    BY <1>1, ConcatEmptySeq
  <2>2. QED
    BY <2>1 DEF MemoryOK
<1>2. ASSUME NEW d \in Data, w = <<Msg("WRITE", d)>>
      PROVE  rd \o w \in Seq(DramMsgs) /\ MemoryOK(rd \o w, fd, A2, b2)
  <2> DEFINE m == Msg("WRITE", d)
             new == Append(rd, m)
  <2>1. m \in DramMsgs /\ m.type = "WRITE" /\ m.data = d
    BY DEF DramMsgs, Msg
  <2> HIDE DEF m
  <2>2. rd \o w = new
    BY <1>2, <2>1, ConcatOne DEF m
  <2>3. /\ new \in Seq(DramMsgs) /\ Len(rd) \in Nat
        /\ DOMAIN rd = 1..Len(rd) /\ DOMAIN new = 1..(Len(rd) + 1)
        /\ \A i \in DOMAIN rd : new[i] = rd[i]
        /\ new[Len(rd) + 1] = m
    BY <2>1, AppendProperties, LenProperties
  <2> HIDE DEF new
  <2>4. ASSUME NEW i \in DOMAIN new
        PROVE  (i \in DOMAIN rd /\ new[i] = rd[i]) \/ new[i] = m
    BY <2>3
  <2>5. \A i \in DOMAIN new : new[i].type = "WRITE" => new[i].data \in Data
    BY <2>1, <2>4 DEF MemoryOK
  <2>6. \A i \in DOMAIN new : new[i].type = "READ" => i \in DOMAIN rd /\ rd[i].type = "READ"
    BY <2>1, <2>4
  <2>7. QED
    BY <2>2, <2>3, <2>5, <2>6 DEF MemoryOK
<1>3. QED
  BY <1>1, <1>2 DEF Writes

\* The one read that a request may have outstanding is sent.
LEMMA ReadAppended ==
  ASSUME NEW rd \in Seq(DramMsgs), NEW fd, MemoryIdle(rd, fd), NEW A, A[1].wait,
         \A i \in DOMAIN rd : rd[i].type = "WRITE" => rd[i].data \in Data
  PROVE  /\ Append(rd, Msg("READ", NoData)) \in Seq(DramMsgs)
         /\ MemoryOK(Append(rd, Msg("READ", NoData)), fd, A, TRUE)
<1> DEFINE m == Msg("READ", NoData)
           new == Append(rd, m)
<1>1. m \in DramMsgs /\ m.type = "READ"
  BY DEF DramMsgs, Msg
<1> HIDE DEF m
<1>2. /\ new \in Seq(DramMsgs) /\ Len(rd) \in Nat
      /\ DOMAIN rd = 1..Len(rd) /\ DOMAIN new = 1..(Len(rd) + 1)
      /\ \A i \in DOMAIN rd : new[i] = rd[i]
      /\ new[Len(rd) + 1] = m
  BY <1>1, AppendProperties, LenProperties
<1> HIDE DEF new
<1>3. ASSUME NEW i \in DOMAIN new
      PROVE  (i \in DOMAIN rd /\ new[i] = rd[i]) \/ (i = Len(rd) + 1 /\ new[i] = m)
  <2>1. i \in DOMAIN rd \/ i = Len(rd) + 1
    BY <1>2
  <2>2. CASE i \in DOMAIN rd
    BY <1>2, <2>2
  <2>3. CASE i = Len(rd) + 1
    BY <1>2, <2>3
  <2>4. QED
    BY <2>1, <2>2, <2>3
<1>4. \A i \in DOMAIN new : new[i].type = "WRITE" => new[i].data \in Data
  BY <1>1, <1>3
<1>5. \A i \in DOMAIN new : new[i].type = "READ" => i = Len(rd) + 1
  BY <1>3 DEF MemoryIdle
<1>6. fd = <<>> /\ Len(fd) <= 1
  BY DEF MemoryIdle
<1>7. MemoryOK(new, fd, A, TRUE)
  BY <1>4, <1>5, <1>6 DEF MemoryOK
<1>8. QED
  BY <1>2, <1>7 DEF new, m

\* The messages of a reply record follow a write.
LEMMA MemoryAfter ==
  ASSUME NEW rd \in Seq(DramMsgs), NEW fd, NEW A, NEW b \in BOOLEAN, MemoryOK(rd, fd, A, b),
         MemoryIdle(rd, fd), NEW w \in Writes, NEW mem, NEW A2, NEW b2 \in BOOLEAN,
         mem = <<>> \/ (mem = <<Msg("READ", NoData)>> /\ b2 /\ A2[1].wait)
  PROVE  rd \o (w \o mem) \in Seq(DramMsgs) /\ MemoryOK(rd \o (w \o mem), fd, A2, b2)
<1>1. PICK m \in DramMsgs : m = Msg("READ", NoData)
  BY DEF DramMsgs, Msg
<1>2. mem \in Seq(DramMsgs) /\ w \in Seq(DramMsgs)
  <2>1. /\ <<>> \in Seq(DramMsgs) /\ <<Msg("READ", NoData)>> \in Seq(DramMsgs)
        /\ \A d \in Data : <<Msg("WRITE", d)>> \in Seq(DramMsgs)
    <3>1. \A n \in DramMsgs : <<n>> \in Seq(DramMsgs)
      OBVIOUS
    <3>2. Msg("READ", NoData) \in DramMsgs /\ \A d \in Data : Msg("WRITE", d) \in DramMsgs
      BY DEF DramMsgs, Msg
    <3>3. QED
      BY <3>1, <3>2
  <2>2. mem \in Seq(DramMsgs)
    BY <2>1
  <2>3. w \in Seq(DramMsgs)
    BY <2>1 DEF Writes
  <2>4. QED
    BY <2>2, <2>3
<1>3. PICK rd1 : rd1 = rd \o w
  OBVIOUS
<1>4. rd \o (w \o mem) = rd1 \o mem
  <2>1. rd \o (w \o mem) = (rd \o w) \o mem
    <3>1. \A u \in Seq(DramMsgs), v \in Seq(DramMsgs), x \in Seq(DramMsgs) :
             (u \o v) \o x = u \o (v \o x)
      OBVIOUS
    <3>2. QED
      BY <1>2, <3>1
  <2>2. QED
    BY <1>3, <2>1
<1>6. rd1 \in Seq(DramMsgs)
  BY <1>2, <1>3, ConcatProperties
<1>7. MemoryIdle(rd1, fd)
  <2>1. /\ Len(rd) \in Nat /\ DOMAIN rd = 1..Len(rd) /\ Len(w) \in Nat
        /\ DOMAIN rd1 = 1..Len(rd1) /\ Len(rd1) = Len(rd) + Len(w)
        /\ \A i \in 1..(Len(rd) + Len(w)) :
              rd1[i] = IF i <= Len(rd) THEN rd[i] ELSE w[i - Len(rd)]
    BY <1>2, <1>3, <1>6, ConcatProperties, LenProperties
  <2>2. \A i \in 1..Len(w) : w[i].type = "WRITE"
    BY DEF Writes, Msg
  <2>3. ASSUME NEW i \in DOMAIN rd1 PROVE rd1[i].type # "READ"
    <3>1. CASE i <= Len(rd)
      BY <2>1, <3>1 DEF MemoryIdle
    <3>2. CASE ~(i <= Len(rd))
      <4>1. i - Len(rd) \in 1..Len(w) /\ rd1[i] = w[i - Len(rd)]
        BY <2>1, <3>2
      <4>2. QED
        BY <2>2, <4>1
    <3>3. QED
      BY <3>1, <3>2
  <2>4. QED
    BY <2>3 DEF MemoryIdle
<1>9. \A i \in DOMAIN rd1 : rd1[i].type = "WRITE" => rd1[i].data \in Data
  <2>1. MemoryOK(rd1, fd, A, b)
    BY <1>3, WriteAppended
  <2>2. QED
    BY <2>1 DEF MemoryOK
<1>10. fd = <<>> /\ Len(fd) <= 1
  BY DEF MemoryIdle
<1>11. CASE mem = <<>>
  <2>1. rd1 \o mem = rd1
    BY <1>6, <1>11, ConcatEmptySeq
  <2>2. MemoryOK(rd1, fd, A2, b2)
    BY <1>7, <1>9, <1>10 DEF MemoryOK, MemoryIdle
  <2>3. QED
    BY <1>4, <1>6, <2>1, <2>2
<1>12. CASE mem = <<Msg("READ", NoData)>> /\ b2 /\ A2[1].wait
  <2>1. rd1 \o mem = Append(rd1, Msg("READ", NoData))
    BY <1>1, <1>6, <1>12, ConcatOne
  <2>2. /\ Append(rd1, Msg("READ", NoData)) \in Seq(DramMsgs)
        /\ MemoryOK(Append(rd1, Msg("READ", NoData)), fd, A2, TRUE)
    BY <1>6, <1>7, <1>9, <1>12, ReadAppended
  <2>3. b2 = TRUE
    BY <1>12
  <2>4. QED
    BY <1>4, <2>1, <2>2, <2>3
<1>13. QED
  BY <1>11, <1>12

-----------------------------------------------------------------------------
(* What a step of the directory or of a cache has to preserve. *)

\* The data that follow data.
LEMMA ReplyDataConcat ==
  ASSUME NEW ch \in Seq(DirMsgs), NEW out \in Seq(DirMsgs), ReplyData(ch), ReplyData(out)
  PROVE  ReplyData(ch \o out)
<1> DEFINE new == ch \o out
<1>1. /\ Len(ch) \in Nat /\ Len(out) \in Nat
      /\ DOMAIN ch = 1..Len(ch) /\ DOMAIN out = 1..Len(out)
      /\ DOMAIN new = 1..(Len(ch) + Len(out))
      /\ \A i \in DOMAIN new : new[i] = IF i <= Len(ch) THEN ch[i] ELSE out[i - Len(ch)]
  BY ConcatProperties, LenProperties
<1> HIDE DEF new
<1>2. ASSUME NEW i \in DOMAIN new, new[i].type \in {"EX_REP", "SH_REP"}
      PROVE  new[i].data \in Data
  <2>1. CASE i <= Len(ch)
    <3>1. i \in DOMAIN ch /\ new[i] = ch[i]
      BY <1>1, <2>1
    <3>2. QED
      BY <1>2, <3>1 DEF ReplyData
  <2>2. CASE ~(i <= Len(ch))
    <3>1. i - Len(ch) \in DOMAIN out /\ new[i] = out[i - Len(ch)]
      BY <1>1, <2>2
    <3>2. QED
      BY <1>2, <3>1 DEF ReplyData
  <2>3. QED
    BY <2>1, <2>2
<1>3. QED
  BY <1>2 DEF ReplyData, new

\* The messages behind the first one carry their data too.
LEMMA FlushDataTail ==
  ASSUME NEW ch \in Seq(CacheMsgs), ch # <<>>, FlushData(ch)
  PROVE  FlushData(Tail(ch))
<1> DEFINE new == Tail(ch)
<1>1. /\ DOMAIN ch = 1..Len(ch) /\ Len(ch) \in Nat
      /\ DOMAIN new = 1..(Len(ch) - 1) /\ \A i \in DOMAIN new : new[i] = ch[i + 1]
  <2>1. /\ DOMAIN ch = 1..Len(ch) /\ Len(ch) \in Nat
        /\ new \in Seq(CacheMsgs) /\ Len(new) = Len(ch) - 1
        /\ \A i \in 1..(Len(ch) - 1) : new[i] = ch[i + 1]
    BY SequenceFacts
  <2>2. DOMAIN new = 1..Len(new)
    BY <2>1, LenProperties
  <2>3. QED
    BY <2>1, <2>2
<1> HIDE DEF new
<1>2. \A i \in DOMAIN new : i + 1 \in DOMAIN ch
  BY <1>1
<1>3. QED
  BY <1>1, <1>2 DEF FlushData, new

\* The same for the channel to a cache.
LEMMA ReplyDataTail ==
  ASSUME NEW ch \in Seq(DirMsgs), ch # <<>>, ReplyData(ch)
  PROVE  ReplyData(Tail(ch))
<1> DEFINE new == Tail(ch)
<1>1. /\ DOMAIN ch = 1..Len(ch) /\ Len(ch) \in Nat
      /\ DOMAIN new = 1..(Len(ch) - 1) /\ \A i \in DOMAIN new : new[i] = ch[i + 1]
  <2>1. /\ DOMAIN ch = 1..Len(ch) /\ Len(ch) \in Nat
        /\ new \in Seq(DirMsgs) /\ Len(new) = Len(ch) - 1
        /\ \A i \in 1..(Len(ch) - 1) : new[i] = ch[i + 1]
    BY SequenceFacts
  <2>2. DOMAIN new = 1..Len(new)
    BY <2>1, LenProperties
  <2>3. QED
    BY <2>1, <2>2
<1> HIDE DEF new
<1>2. \A i \in DOMAIN new : i + 1 \in DOMAIN ch
  BY <1>1
<1>3. QED
  BY <1>1, <1>2 DEF ReplyData, new

\* A flush or write-back is sent with the line.
LEMMA FlushDataAppend ==
  ASSUME NEW ch \in Seq(CacheMsgs), NEW m \in CacheMsgs, FlushData(ch),
         m.type \in {"FLUSH_REP", "WB_REP"} => m.data \in Data
  PROVE  FlushData(Append(ch, m))
<1> DEFINE new == Append(ch, m)
<1>1. /\ DOMAIN ch = 1..Len(ch) /\ Len(ch) \in Nat
      /\ DOMAIN new = 1..(Len(ch) + 1)
      /\ \A i \in DOMAIN ch : new[i] = ch[i]
      /\ new[Len(ch) + 1] = m
  BY AppendProperties, LenProperties
<1> HIDE DEF new
<1>2. \A i \in DOMAIN new : i \in DOMAIN ch \/ i = Len(ch) + 1
  BY <1>1
<1>3. QED
  BY <1>1, <1>2 DEF FlushData, new

\* The directory carries out a reply record, after a write if it makes one.
LEMMA Settles ==
  ASSUME TypeOK, DataOK, NEW A0, NEW b0 \in BOOLEAN, MemoryOK(toDram, fromDram', A0, b0),
         NEW r, NEW w \in Writes,
         entry' = r.entry, queue' = r.queue, next' = r.next, toCache' = Sent(toCache, r.out),
         toDram' = toDram \o (w \o r.mem),
         UNCHANGED <<cstate, cdata, waiters, serving, dram, latest>>,
         toDir' \in [Caches -> Seq(CacheMsgs)], \A c \in Caches : FlushData(toDir'[c]),
         fromDram' \in Seq(Data), MemoryIdle(toDram, fromDram'),
         Started(cstate, waiters, serving, toDir', toCache, r)
  PROVE  CoherenceInv'
<1>1. GoodRecord(r)
  BY DEF Started
<1>2. Sent(toCache, r.out) \in [Caches -> Seq(DirMsgs)]
  <2>1. toCache \in [Caches -> Seq(DirMsgs)] /\ r.out \in [Caches -> Seq(DirMsgs)]
    BY <1>1 DEF TypeOK, GoodRecord
  <2>2. \A c \in Caches : toCache[c] \o r.out[c] \in Seq(DirMsgs)
    BY <2>1, ConcatProperties
  <2>3. QED
    BY <2>2 DEF Sent
<1>3. DataOK'
  <2>1. ASSUME NEW c \in Caches PROVE ReplyData(toCache'[c])
    <3>1. toCache[c] \in Seq(DirMsgs) /\ r.out[c] \in Seq(DirMsgs)
      BY <1>1 DEF TypeOK, GoodRecord
    <3>2. ReplyData(toCache[c]) /\ ReplyData(r.out[c])
      BY <1>1 DEF DataOK, GoodRecord, ReplyData
    <3>3. toCache'[c] = toCache[c] \o r.out[c]
      BY DEF Sent
    <3>4. QED
      BY <3>1, <3>2, <3>3, ReplyDataConcat
  <2>2. QED
    BY <2>1 DEF DataOK
<1>4a. PICK A : A = IF r.next THEN Tail(r.queue) ELSE r.queue
  OBVIOUS
<1>4b. PICK b \in BOOLEAN : b = ~r.next
  OBVIOUS
<1>5. Pending' = A /\ Busy' = b
  <2>1. Pending' = A
    BY <1>4a DEF Pending
  <2>2. Busy' = b
    BY <1>1, <1>4a, <1>4b DEF Busy, GoodRecord
  <2>3. QED
    BY <2>1, <2>2
<1>6. toDram' \in Seq(DramMsgs) /\ MemoryOK(toDram', fromDram', A, b)
  <2>1. r.mem = <<>> \/ (r.mem = <<Msg("READ", NoData)>> /\ b /\ A[1].wait)
    BY <1>1, <1>4a, <1>4b DEF GoodRecord
  <2>2. toDram \in Seq(DramMsgs)
    BY DEF TypeOK
  <2>3. QED
    BY <2>1, <2>2, MemoryAfter
<1>7. /\ EntryOK(entry', A, b) /\ QueueOK(entry', A, b)
      /\ CachesOK(cstate, waiters, serving, toDir', toCache', entry', A, b)
  <2>1. CASE r.next
    <3>1. A = Tail(r.queue) /\ b = FALSE
      BY <1>4a, <1>4b, <2>1
    <3>2. QED
      BY <2>1, <3>1 DEF Started, IdleOK
  <2>2. CASE ~r.next
    <3>1. A = r.queue /\ b = TRUE
      BY <1>4a, <1>4b, <2>2
    <3>2. QED
      BY <2>2, <3>1 DEF Started, ServingOK
  <2>3. QED
    BY <2>1, <2>2
<1>8. TypeOK'
  BY <1>1, <1>2, <1>6 DEF TypeOK, GoodRecord
<1>9. (next => queue # <<>>)'
  BY <1>1 DEF GoodRecord
<1>10. /\ EntryOK(entry, Pending, Busy)' /\ QueueOK(entry, Pending, Busy)'
       /\ MemoryOK(toDram, fromDram, Pending, Busy)'
       /\ CachesOK(cstate, waiters, serving, toDir, toCache, entry, Pending, Busy)'
  BY <1>5, <1>6, <1>7
<1>11. QED
  BY <1>3, <1>8, <1>9, <1>10 DEF CoherenceInv

\* The directory writes to DRAM at most, and starts nothing.
LEMMA Stays ==
  ASSUME TypeOK, DataOK, NEW A0, NEW b0 \in BOOLEAN, MemoryOK(toDram, fromDram, A0, b0),
         NEW b \in BOOLEAN, NEW w \in Writes, b0 /\ A0[1].wait => b /\ queue'[1].wait,
         entry' \in Entries, queue' \in Seq(Requests), next' = FALSE, toCache' = toCache,
         toDram' = toDram \o w,
         UNCHANGED <<cstate, cdata, waiters, serving, fromDram, dram, latest>>,
         toDir' \in [Caches -> Seq(CacheMsgs)], \A c \in Caches : FlushData(toDir'[c]),
         b = (queue' # <<>>),
         EntryOK(entry', queue', b), QueueOK(entry', queue', b),
         CachesOK(cstate, waiters, serving, toDir', toCache, entry', queue', b)
  PROVE  CoherenceInv'
<1>1. Pending' = queue' /\ Busy' = b
  BY DEF Pending, Busy
<1>2. toDram' \in Seq(DramMsgs) /\ MemoryOK(toDram', fromDram, queue', b)
  <2>1. toDram \in Seq(DramMsgs)
    BY DEF TypeOK
  <2>2. QED
    BY <2>1, WriteAppended
<1>3. TypeOK'
  BY <1>2 DEF TypeOK
<1>4. DataOK'
  BY DEF DataOK
<1>5. /\ EntryOK(entry, Pending, Busy)' /\ QueueOK(entry, Pending, Busy)'
      /\ MemoryOK(toDram, fromDram, Pending, Busy)'
      /\ CachesOK(cstate, waiters, serving, toDir, toCache, entry, Pending, Busy)'
  BY <1>1, <1>2
<1>6. QED
  BY <1>3, <1>4, <1>5 DEF CoherenceInv

-----------------------------------------------------------------------------
(* The steps of the directory. *)

\* What carrying out r does, after the write w.
Performed(r, w) ==
  /\ entry' = r.entry /\ queue' = r.queue /\ next' = r.next
  /\ toCache' = Sent(toCache, r.out) /\ toDram' = toDram \o (w \o r.mem)

\* A handler that ends with a sound reply record keeps the invariant.
LEMMA Performs ==
  ASSUME NEW r, GoodRecord(r), Perform(r)
  PROVE  Performed(r, <<>>) /\ <<>> \in Writes
<1>1. r.mem \in Seq(DramMsgs)
  <2>1. PICK m \in DramMsgs : m = Msg("READ", NoData)
    BY DEF DramMsgs, Msg
  <2>2. <<>> \in Seq(DramMsgs) /\ <<m>> \in Seq(DramMsgs)
    OBVIOUS
  <2>3. r.mem = <<>> \/ r.mem = <<m>>
    BY <2>1 DEF GoodRecord
  <2>4. QED
    BY <2>2, <2>3
<1>2. <<>> \o r.mem = r.mem
  BY <1>1, ConcatEmptySeq
<1>3. QED
  BY <1>2 DEF Perform, Performed, Sent, Writes

\* The fields of a reply record.
Fields == {"entry", "queue", "out", "mem", "next"}

\* The same when it first writes the line to DRAM.
LEMMA PerformsWrite ==
  ASSUME NEW r, GoodRecord(r), DOMAIN r = Fields, NEW d \in Data, Perform(WriteDramFirst(d, r))
  PROVE  Performed(r, <<Msg("WRITE", d)>>) /\ <<Msg("WRITE", d)>> \in Writes
<1>1. PICK w : w = WriteDramFirst(d, r)
  OBVIOUS
<1>2. /\ w.entry = r.entry /\ w.queue = r.queue /\ w.next = r.next /\ w.out = r.out
      /\ w.mem = <<Msg("WRITE", d)>> \o r.mem
  BY <1>1 DEF WriteDramFirst, Fields
<1>3. Perform(w)
  BY <1>1
<1>4. QED
  BY <1>2, <1>3 DEF Perform, Performed, Sent, Writes

\* A handler that sends nothing keeps the invariant if entry and queue still agree.
LEMMA PerformsQuiet ==
  ASSUME TypeOK, NEW e, NEW q, Perform(Quiet(e, q))
  PROVE  /\ entry' = e /\ queue' = q /\ next' = FALSE /\ toCache' = toCache
         /\ toDram' = toDram \o <<>> /\ <<>> \in Writes
<1>1. PICK r : r = Quiet(e, q)
  OBVIOUS
<1>2. /\ r.entry = e /\ r.queue = q /\ r.next = FALSE /\ r.mem = <<>>
      /\ r.out = [c \in Caches |-> <<>>]
  BY <1>1 DEF Quiet
<1>3. Perform(r)
  BY <1>1
<1>4. toCache' = toCache
  <2>1. /\ toCache \in [Caches -> Seq(DirMsgs)]
        /\ toCache' = [c \in Caches |-> toCache[c] \o r.out[c]]
    BY <1>3 DEF TypeOK, Perform
  <2>2. \A c \in Caches : toCache[c] \o r.out[c] = toCache[c]
    BY <1>2, <2>1, ConcatNone
  <2>3. QED
    BY <2>1, <2>2
<1>5. QED
  BY <1>2, <1>3, <1>4 DEF Perform, Writes

\* The same when it writes the line to DRAM.
LEMMA PerformsQuietWrite ==
  ASSUME TypeOK, NEW e, NEW q, NEW d \in Data, Perform(WriteDramFirst(d, Quiet(e, q)))
  PROVE  /\ entry' = e /\ queue' = q /\ next' = FALSE /\ toCache' = toCache
         /\ toDram' = toDram \o <<Msg("WRITE", d)>> /\ <<Msg("WRITE", d)>> \in Writes
<1>1. PICK r : r = WriteDramFirst(d, Quiet(e, q))
  OBVIOUS
<1>2. /\ r.entry = e /\ r.queue = q /\ r.next = FALSE
      /\ r.out = [c \in Caches |-> <<>>]
  BY <1>1 DEF Quiet, WriteDramFirst
<1>3. r.mem = <<Msg("WRITE", d)>>
  <2>1. r.mem = <<Msg("WRITE", d)>> \o <<>>
    BY <1>1 DEF Quiet, WriteDramFirst
  <2>2. PICK m \in DramMsgs : m = Msg("WRITE", d)
    BY DEF DramMsgs, Msg
  <2>3. <<m>> \in Seq(DramMsgs)
    OBVIOUS
  <2>4. QED
    BY <2>1, <2>2, <2>3, ConcatEmptySeq
<1>4. Perform(r)
  BY <1>1
<1>5. toCache' = toCache
  <2>1. /\ toCache \in [Caches -> Seq(DirMsgs)]
        /\ toCache' = [c \in Caches |-> toCache[c] \o r.out[c]]
    BY <1>4 DEF TypeOK, Perform
  <2>2. \A c \in Caches : toCache[c] \o r.out[c] = toCache[c]
    BY <1>2, <2>1, ConcatNone
  <2>3. QED
    BY <2>1, <2>2
<1>6. QED
  BY <1>2, <1>3, <1>4, <1>5 DEF Perform, Writes

\* The directory takes a message of c.
LEMMA Received ==
  ASSUME TypeOK, DataOK, NEW c \in Caches, toDir[c] # <<>>, Receive(c)
  PROVE  /\ toDir' = [toDir EXCEPT ![c] = Tail(@)]
         /\ toDir' \in [Caches -> Seq(CacheMsgs)]
         /\ \A d \in Caches : FlushData(toDir'[d])
         /\ Head(toDir[c]) \in CacheMsgs
         /\ Head(toDir[c]).type \in {"FLUSH_REP", "WB_REP"} => Head(toDir[c]).data \in Data
<1>1. toDir \in [Caches -> Seq(CacheMsgs)] /\ toDir[c] \in Seq(CacheMsgs)
  BY DEF TypeOK
<1>2. /\ DOMAIN toDir[c] = 1..Len(toDir[c]) /\ Len(toDir[c]) \in Nat /\ Len(toDir[c]) >= 1
      /\ Head(toDir[c]) = toDir[c][1] /\ Tail(toDir[c]) \in Seq(CacheMsgs)
      /\ toDir[c][1] \in CacheMsgs
  BY <1>1, SequenceFacts
<1>3. toDir' = [toDir EXCEPT ![c] = Tail(@)]
  BY DEF Receive
<1>4. \A d \in Caches : FlushData(toDir[d])
  BY DEF DataOK
<1>5. FlushData(Tail(toDir[c]))
  BY <1>1, <1>4, FlushDataTail
<1>6. \A d \in Caches : FlushData(toDir'[d])
  BY <1>1, <1>3, <1>4, <1>5
<1>7. toDir' \in [Caches -> Seq(CacheMsgs)]
  BY <1>1, <1>2, <1>3
<1>8. QED
  BY <1>2, <1>3, <1>4, <1>6, <1>7 DEF FlushData

\* The variables of the caches and their channels have their types.
LEMMA FrameOK ==
  ASSUME TypeOK
  PROVE  /\ Frame(cstate, waiters, serving, toDir, toCache)
         /\ \A td \in [Caches -> Seq(CacheMsgs)] : Frame(cstate, waiters, serving, td, toCache)
BY DEF TypeOK, Frame

\* The invariant while the directory is not about to take the next request.
LEMMA Attending ==
  ASSUME CoherenceInv, ~next
  PROVE  \E b \in BOOLEAN :
           /\ b = (queue # <<>>)
           /\ EntryOK(entry, queue, b) /\ QueueOK(entry, queue, b)
           /\ MemoryOK(toDram, fromDram, queue, b)
           /\ CachesOK(cstate, waiters, serving, toDir, toCache, entry, queue, b)
<1>1. PICK b \in BOOLEAN : b = (queue # <<>>)
  OBVIOUS
<1>2. Pending = queue /\ Busy = b
  BY <1>1 DEF Pending, Busy
<1>3. QED
  BY <1>1, <1>2 DEF CoherenceInv

\* The directory processes a request.
LEMMA Advances ==
  ASSUME TypeOK, DataOK, NEW A0, NEW b0 \in BOOLEAN, MemoryOK(toDram, fromDram, A0, b0),
         ~(b0 /\ A0[1].wait), NEW r, NEW w \in Writes, Performed(r, w),
         UNCHANGED <<cacheVars, fromDram, dram, latest>>,
         toDir' \in [Caches -> Seq(CacheMsgs)], \A c \in Caches : FlushData(toDir'[c]),
         Started(cstate, waiters, serving, toDir', toCache, r)
  PROVE  CoherenceInv'
<1>1. MemoryIdle(toDram, fromDram)
  BY NotWaiting
<1>2. fromDram' = fromDram /\ fromDram \in Seq(Data)
  BY DEF TypeOK
<1>3. QED
  BY <1>1, <1>2, Settles DEF Performed, cacheVars

\* What EntryOK says of the entry alone.
LEMMA EntryOKBase ==
  ASSUME NEW e, NEW A, NEW b \in BOOLEAN, EntryOK(e, A, b)
  PROVE  /\ EntryBase(e) /\ (e.where = "none" => e.dstate = "UNCACHED")
         /\ e.where = "replaced" => b /\ A[1].type = "NULLIFY_REQ"
BY DEF EntryOK, EntryBase

\* handleMsgFromL2Cache queues a request.
LEMMA DirHandleReqStep ==
  ASSUME FullMap, CoherenceInv, NEW c \in Caches, DirHandleReq(c)
  PROVE  CoherenceInv'
<1>1. TypeOK /\ DataOK
  BY DEF CoherenceInv
<1>2. PICK type \in CoreReqs :
        /\ DirGets(c, type) /\ Receive(c)
        /\ LET req == [type |-> type, requester |-> c, wait |-> FALSE,
                       from |-> NoCache, data |-> NoData]
               q == Append(queue, req)
           IN  IF Len(q) = 1
               THEN \E pick \in Picks(entry) : Perform(ProcessHead(entry, q, NoData, pick))
               ELSE Perform(Quiet(entry, q))
        /\ UNCHANGED <<cacheVars, fromDram, dram, latest>>
  BY DEF DirHandleReq
<1>3. PICK req : req = [type |-> type, requester |-> c, wait |-> FALSE,
                        from |-> NoCache, data |-> NoData]
  OBVIOUS
<1>4. PICK q : q = Append(queue, req)
  OBVIOUS
<1>5. /\ req \in Requests /\ Fresh(req) /\ req.requester = c /\ req.type = type
  BY <1>3 DEF Requests, Fresh
<1>6. ~next /\ toDir[c] # <<>> /\ Head(toDir[c]).type = req.type
  BY <1>2, <1>5 DEF DirGets
<1>7. PICK b \in BOOLEAN :
        /\ b = (queue # <<>>)
        /\ EntryOK(entry, queue, b) /\ QueueOK(entry, queue, b)
        /\ MemoryOK(toDram, fromDram, queue, b)
        /\ CachesOK(cstate, waiters, serving, toDir, toCache, entry, queue, b)
  BY <1>6, Attending
<1>8. /\ entry \in Entries /\ queue \in Seq(Requests)
      /\ Frame(cstate, waiters, serving, toDir, toCache)
  BY <1>1, FrameOK DEF TypeOK
<1>9. /\ toDir' = [toDir EXCEPT ![c] = Tail(@)]
      /\ toDir' \in [Caches -> Seq(CacheMsgs)]
      /\ \A d \in Caches : FlushData(toDir'[d])
  BY <1>1, <1>2, <1>6, Received
<1>10. /\ Asked(queue, c) = {}
       /\ CachesOK(cstate, waiters, serving, toDir', toCache, entry, q, b)
  BY <1>4, <1>5, <1>6, <1>7, <1>8, <1>9, Queueing
<1>11. Frame(cstate, waiters, serving, toDir', toCache)
  BY <1>1, <1>9, FrameOK
<1>12. /\ Len(queue) \in Nat /\ DOMAIN queue = 1..Len(queue)
       /\ q \in Seq(Requests) /\ q # <<>> /\ Len(q) = Len(queue) + 1
       /\ DOMAIN q = 1..(Len(queue) + 1)
       /\ \A i \in DOMAIN queue : q[i] = queue[i]
       /\ q[Len(queue) + 1] = req
       /\ queue # <<>> <=> Len(queue) >= 1
  BY <1>4, <1>5, <1>8, AppendProperties, LenProperties, SequenceFacts
<1>13. \A i \in DOMAIN queue : queue[i].requester # c
  BY <1>10 DEF Asked
<1>14. \A i \in DOMAIN q : i \in DOMAIN queue \/ i = Len(queue) + 1
  BY <1>12
<1>15. Unique(q)
  <2>1. SUFFICES ASSUME NEW i \in DOMAIN q, NEW j \in DOMAIN q, q[i].requester = q[j].requester
                 PROVE  i = j
    BY DEF Unique
  <2>2. CASE i \in DOMAIN queue /\ j \in DOMAIN queue
    BY <1>7, <1>12, <2>1, <2>2 DEF QueueOK
  <2>3. CASE i \in DOMAIN queue /\ j = Len(queue) + 1
    BY <1>5, <1>12, <1>13, <2>1, <2>3
  <2>4. CASE j \in DOMAIN queue /\ i = Len(queue) + 1
    BY <1>5, <1>12, <1>13, <2>1, <2>4
  <2>5. CASE i = Len(queue) + 1 /\ j = Len(queue) + 1
    BY <2>5
  <2>6. QED
    BY <1>14, <2>2, <2>3, <2>4, <2>5
<1>16. \A i \in DOMAIN q : ~(b /\ i = 1) => Fresh(q[i])
  BY <1>5, <1>7, <1>12, <1>14 DEF QueueOK
<1>17. CASE Len(q) = 1
  <2>1. PICK pick \in Picks(entry) : Perform(ProcessHead(entry, q, NoData, pick))
    BY <1>2, <1>3, <1>4, <1>17
  <2>2. b = FALSE
    <3>0. Len(queue) \in Nat /\ Len(queue) + 1 = 1
      BY <1>12, <1>17
    <3>1. ~(Len(queue) >= 1)
      BY <3>0
    <3>2. queue = <<>>
      BY <1>12, <3>1
    <3>3. QED
      BY <1>7, <3>2
  <2>3. IdleOK(cstate, waiters, serving, toDir', toCache, entry, q)
    BY <1>10, <2>2 DEF IdleOK
  <2>4. 1 \in DOMAIN q
    BY <1>12
  <2>5. Ready(entry, q)
    <3>1. Fresh(q[1]) /\ Rest(q)
      BY <1>15, <1>16, <2>2, <2>4 DEF Rest
    <3>2. EntryBase(entry) /\ (entry.where = "none" => entry.dstate = "UNCACHED")
          /\ entry.where # "replaced"
      BY <1>7, <2>2, EntryOKBase
    <3>3. QED
      BY <1>12, <3>1, <3>2 DEF Ready, ReadyHead
  <2>6. PICK r : r = ProcessHead(entry, q, NoData, pick)
    OBVIOUS
  <2>7. Started(cstate, waiters, serving, toDir', toCache, r)
    BY <1>8, <1>9, <1>11, <1>12, <2>3, <2>5, <2>6, HeadStarts
  <2>8. Performed(r, <<>>) /\ <<>> \in Writes
    BY <2>1, <2>6, <2>7, Performs DEF Started
  <2>9. QED
    BY <1>1, <1>2, <1>7, <1>9, <2>2, <2>7, <2>8, Advances
<1>18. CASE Len(q) # 1
  <2>1. Perform(Quiet(entry, q))
    BY <1>2, <1>3, <1>4, <1>18
  <2>2. b = TRUE /\ queue # <<>> /\ q[1] = queue[1] /\ 1 \in DOMAIN queue
    <3>1. Len(queue) >= 1
      BY <1>12, <1>18
    <3>2. queue # <<>> /\ 1 \in DOMAIN queue
      BY <1>12, <3>1
    <3>3. b = TRUE
      BY <1>7, <3>2
    <3>4. QED
      BY <1>12, <3>2, <3>3
  <2>3. /\ entry' = entry /\ queue' = q /\ next' = FALSE /\ toCache' = toCache
        /\ toDram' = toDram \o <<>> /\ <<>> \in Writes
    BY <1>1, <2>1, PerformsQuiet
  <2>4. EntryOK(entry, q, b)
    BY <1>7, <2>2 DEF EntryOK
  <2>5. QueueOK(entry, q, b)
    BY <1>7, <1>12, <1>15, <1>16, <2>2 DEF QueueOK, Unique
  <2>6. b = (q # <<>>)
    BY <1>12, <2>2
  <2>7. UNCHANGED <<cstate, cdata, waiters, serving, fromDram, dram, latest>>
    BY <1>2 DEF cacheVars
  <2>8. QED
    BY <1>1, <1>7, <1>8, <1>9, <1>10, <1>12, <2>2, <2>3, <2>4, <2>5, <2>6, <2>7, Stays
<1>19. QED
  BY <1>17, <1>18

\* processNextReqFromL2Cache.
LEMMA DirNextStep ==
  ASSUME FullMap, CoherenceInv, DirNext
  PROVE  CoherenceInv'
<1>1. TypeOK /\ DataOK /\ next /\ queue # <<>>
  BY DEF CoherenceInv, DirNext
<1>2. PICK A, b : A = Tail(queue) /\ b = FALSE
  OBVIOUS
<1>3. Pending = A /\ Busy = b
  BY <1>1, <1>2 DEF Pending, Busy
<1>4. /\ EntryOK(entry, A, b) /\ QueueOK(entry, A, b) /\ MemoryOK(toDram, fromDram, A, b)
      /\ CachesOK(cstate, waiters, serving, toDir, toCache, entry, A, b)
  BY <1>3 DEF CoherenceInv
<1>5. /\ entry \in Entries /\ A \in Seq(Requests)
      /\ Frame(cstate, waiters, serving, toDir, toCache)
      /\ toDir \in [Caches -> Seq(CacheMsgs)]
  BY <1>1, <1>4, FrameOK DEF TypeOK, QueueOK
<1>6. /\ toDir' = toDir /\ UNCHANGED <<cacheVars, fromDram, dram, latest>>
      /\ toDir' \in [Caches -> Seq(CacheMsgs)]
      /\ \A d \in Caches : FlushData(toDir'[d])
  BY <1>1, <1>5 DEF DirNext, DataOK
<1>7. CASE A = <<>>
  <2>1. Perform(Quiet(entry, A))
    BY <1>2, <1>7 DEF DirNext
  <2>2. /\ entry' = entry /\ queue' = A /\ next' = FALSE /\ toCache' = toCache
        /\ toDram' = toDram \o <<>> /\ <<>> \in Writes
    BY <1>1, <2>1, PerformsQuiet
  <2>3. UNCHANGED <<cstate, cdata, waiters, serving, fromDram, dram, latest>>
    BY <1>6 DEF cacheVars
  <2>4. b = (queue' # <<>>) /\ b \in BOOLEAN
    BY <1>2, <1>7, <2>2
  <2>5. ~b
    BY <1>2
  <2>6. QED
    BY <1>1, <1>4, <1>5, <1>6, <2>2, <2>3, <2>4, <2>5, Stays
<1>8. CASE A # <<>>
  <2>1. PICK pick \in Picks(entry) : Perform(ProcessHead(entry, A, NoData, pick))
    BY <1>2, <1>8 DEF DirNext
  <2>2. IdleOK(cstate, waiters, serving, toDir', toCache, entry, A)
    BY <1>2, <1>4, <1>6 DEF IdleOK
  <2>3. 1 \in DOMAIN A
    BY <1>5, <1>8, SequenceFacts
  <2>4. Ready(entry, A)
    <3>1. Fresh(A[1]) /\ Rest(A)
      BY <1>2, <1>4, <2>3 DEF Rest, QueueOK, Unique
    <3>2. EntryBase(entry) /\ (entry.where = "none" => entry.dstate = "UNCACHED")
          /\ entry.where # "replaced"
      BY <1>2, <1>4, EntryOKBase
    <3>3. QED
      BY <1>8, <3>1, <3>2 DEF Ready, ReadyHead
  <2>5. PICK r : r = ProcessHead(entry, A, NoData, pick)
    OBVIOUS
  <2>6. Started(cstate, waiters, serving, toDir', toCache, r)
    BY <1>5, <1>6, <2>2, <2>4, <2>5, HeadStarts
  <2>7. Performed(r, <<>>) /\ <<>> \in Writes
    BY <2>1, <2>5, <2>6, Performs DEF Started
  <2>8. ~b /\ b \in BOOLEAN
    BY <1>2
  <2>9. QED
    BY <1>1, <1>4, <1>6, <2>6, <2>7, <2>8, Advances
<1>9. QED
  BY <1>7, <1>8

\* An entry that loses a sharer.
LEMMA EntryLeft ==
  ASSUME NEW e \in Entries, NEW A, NEW b \in BOOLEAN, EntryOK(e, A, b), NEW c \in e.sharers,
         NEW e2 \in Entries, e2.where = e.where, e2.sharers = e.sharers \ {c},
         e2.dstate = IF e2.sharers = {} THEN "UNCACHED" ELSE e.dstate,
         e2.forwarder = NoCache \/ (e2.forwarder = e.forwarder /\ e.forwarder # c)
  PROVE  /\ EntryOK(e2, A, b) /\ EntryBase(e2) /\ e2.where # "none"
         /\ e2.where = "replaced" => b /\ A[1].type = "NULLIFY_REQ"
         /\ e2.dstate \in {"UNCACHED", "SHARED"}
         /\ e2.sharers = {} <=> e2.dstate = "UNCACHED"
<1>1. e.sharers # {} /\ e.dstate # "UNCACHED"
  BY DEF EntryOK
<1>2. CASE e.dstate \in {"EXCLUSIVE", "MODIFIED"}
  <2>1. e.sharers = {e.owner}
    BY <1>2 DEF EntryOK
  <2>2. e2.sharers = {} /\ e2.dstate = "UNCACHED"
    BY <2>1
  <2>3. QED
    BY <1>1, <2>2 DEF EntryOK, EntryBase
<1>3. CASE e.dstate = "SHARED"
  <2>1. e2.sharers = {} <=> e2.dstate = "UNCACHED"
    BY <1>3
  <2>2. e2.dstate \in {"UNCACHED", "SHARED"}
    BY <1>3
  <2>3. Protocol = "MESIF" => e2.forwarder \in e2.sharers \cup {NoCache}
    BY <1>3 DEF EntryOK
  <2>4. QED
    BY <1>1, <2>1, <2>2, <2>3 DEF EntryOK, EntryBase
<1>4. QED
  BY <1>1, <1>2, <1>3 DEF Entries, DStates

\* Neither the requester of a request that waits for DRAM nor anybody else
\* leaves an entry that its handler has claimed.
LEMMA LeaverAsked ==
  ASSUME NEW e \in Entries, NEW h \in Requests, HeadOK(e, h), NEW c \in e.sharers,
         h.requester # c, e.dstate \in {"EXCLUSIVE", "MODIFIED"} => e.sharers = {e.owner}
  PROVE  /\ h.wait => h.type = "SH_REQ" /\ e.dstate = "SHARED"
         /\ h.type \in {"EX_REQ", "UPGRADE_REQ"} => Fresh(h)
         /\ h.type = "SH_REQ" /\ ~h.wait /\ h.from = NoCache =>
               Fresh(h) /\ e.dstate \in {"EXCLUSIVE", "MODIFIED"}
         /\ h.type = "NULLIFY_REQ" => h.requester = NoCache /\ ~h.wait /\ h.from = NoCache
<1>1. h.requester \in Caches \cup {NoCache} /\ h.type \in CoreReqs \cup {"NULLIFY_REQ"}
  BY DEF Requests
<1>2. h.type \in CoreReqs => h.requester \in Caches
  BY <1>1 DEF HeadOK, CoreReqs
<1>3. ASSUME h.type \in {"EX_REQ", "UPGRADE_REQ"}, h.wait PROVE FALSE
  <2>1. e.dstate = "MODIFIED" /\ h.requester = e.owner
    BY <1>3 DEF HeadOK
  <2>2. e.sharers = {e.owner}
    BY <2>1
  <2>3. QED
    BY <2>1, <2>2
<1>4. ASSUME h.type = "SH_REQ", h.wait PROVE e.dstate = "SHARED"
  <2>1. h.requester \in e.sharers /\ e.dstate \in {"SHARED", "EXCLUSIVE"}
    BY <1>4 DEF HeadOK
  <2>2. e.dstate # "EXCLUSIVE"
    BY <2>1
  <2>3. QED
    BY <2>1, <2>2
<1>5. h.type # "SH_REQ" => h.from = NoCache
  BY DEF HeadOK
<1>6. h.type = "NULLIFY_REQ" => h.requester = NoCache /\ ~h.wait
  BY DEF HeadOK
<1>7. h.type \in {"EX_REQ", "UPGRADE_REQ"} => Fresh(h)
  BY <1>2, <1>3, <1>5 DEF Fresh, CoreReqs
<1>8. h.type = "SH_REQ" /\ ~h.wait /\ h.from = NoCache =>
         Fresh(h) /\ e.dstate \in {"EXCLUSIVE", "MODIFIED"}
  BY <1>2 DEF Fresh, CoreReqs, HeadOK
<1>9. h.wait => h.type = "SH_REQ" /\ e.dstate = "SHARED"
  BY <1>1, <1>3, <1>4, <1>6 DEF CoreReqs
<1>10. QED
  BY <1>5, <1>6, <1>7, <1>8, <1>9

\* A cache that gives up its copy without data leaves nothing to ask for if
\* the request goes on, and the request as it was if not.
LEMMA WokenReady ==
  ASSUME NEW e \in Entries, NEW A \in Seq(Requests), A # <<>>, NEW c \in Caches, c \in e.sharers,
         EntryOK(e, A, TRUE), QueueOK(e, A, TRUE), A[1].requester # c,
         NEW e2 \in Entries, e2.where = e.where, e2.sharers = e.sharers \ {c},
         e2.dstate = IF e2.sharers = {} THEN "UNCACHED" ELSE e.dstate,
         EntryBase(e2), e2.where # "none", e2.where = "replaced" => A[1].type = "NULLIFY_REQ",
         queue = A, WokenByInv(e2, c)
  PROVE  /\ Ready(e2, A) /\ ~A[1].wait
         /\ \A d \in Caches : Demanded(e2, A, TRUE, d) = {}
<1> DEFINE h == A[1]
<1>1. Head(queue) = h /\ h \in Requests
  BY SequenceFacts
<1>2. HeadOK(e, h) /\ Rest(A)
  BY DEF QueueOK, Rest, Unique
<1>3. e.dstate \in {"EXCLUSIVE", "MODIFIED"} => e.sharers = {e.owner}
  BY DEF EntryOK
<1>4. /\ h.wait => h.type = "SH_REQ" /\ e.dstate = "SHARED"
      /\ h.type \in {"EX_REQ", "UPGRADE_REQ"} => Fresh(h)
      /\ h.type = "SH_REQ" /\ ~h.wait /\ h.from = NoCache =>
            Fresh(h) /\ e.dstate \in {"EXCLUSIVE", "MODIFIED"}
      /\ h.type = "NULLIFY_REQ" => h.requester = NoCache /\ ~h.wait /\ h.from = NoCache
  BY <1>1, <1>2, <1>3, LeaverAsked
<1>5. e2.sharers = {} <=> e2.dstate = "UNCACHED"
  BY DEF EntryBase
<1> HIDE DEF h
<1>6. CASE h.type \in {"EX_REQ", "NULLIFY_REQ"}
  <2>1. e2.dstate = "UNCACHED"
    BY <1>1, <1>6 DEF WokenByInv
  <2>2. \A d \in Caches : Demanded(e2, A, TRUE, d) = {}
    BY <1>5, <2>1 DEF Demanded
  <2>3. ReadyHead(e2, h)
    BY <1>4, <1>6 DEF ReadyHead
  <2>4. ~h.wait
    BY <1>4, <1>6
  <2>5. QED
    BY <1>2, <2>2, <2>3, <2>4 DEF Ready, h
<1>7. CASE h.type = "UPGRADE_REQ"
  <2>1. e2.sharers \subseteq {h.requester}
    BY <1>1, <1>7 DEF WokenByInv
  <2>2. \A d \in Caches : Demanded(e2, A, TRUE, d) = {}
    BY <2>1 DEF Demanded, h
  <2>3. ReadyHead(e2, h)
    BY <1>4, <1>7 DEF ReadyHead
  <2>4. ~h.wait
    BY <1>4, <1>7
  <2>5. QED
    BY <1>2, <1>7, <2>2, <2>3, <2>4 DEF Ready, h
<1>8. CASE h.type = "SH_REQ"
  <2>1. ~h.wait /\ h.from \in {NoCache, c}
    BY <1>1, <1>8 DEF WokenByInv
  <2>2. CASE h.from = NoCache
    <3>1. Fresh(h) /\ e.sharers = {e.owner}
      BY <1>3, <1>4, <1>8, <2>1, <2>2
    <3>2. e2.sharers = {}
      BY <3>1
    <3>3. \A d \in Caches : Demanded(e2, A, TRUE, d) = {}
      BY <3>2 DEF Demanded
    <3>4. ReadyHead(e2, h)
      BY <3>1 DEF ReadyHead
    <3>5. QED
      BY <1>2, <1>8, <2>1, <3>3, <3>4 DEF Ready, h
  <2>3. CASE h.from # NoCache
    <3>1. h.from = c /\ h.requester \in e.sharers /\ e.dstate = "SHARED"
      BY <1>2, <1>8, <2>1, <2>3 DEF HeadOK
    <3>2. h.requester \in e2.sharers /\ e2.dstate = "SHARED"
      BY <3>1 DEF h
    <3>3. \A d \in Caches : Demanded(e2, A, TRUE, d) = {}
      BY <1>8, <3>1, <3>2 DEF Demanded, h
    <3>4. ReadyHead(e2, h)
      BY <1>8, <2>1, <2>3, <3>2 DEF ReadyHead
    <3>5. QED
      BY <1>2, <1>8, <2>1, <3>3, <3>4 DEF Ready, h
  <2>4. QED
    BY <2>2, <2>3
<1>9. QED
  BY <1>1, <1>6, <1>7, <1>8 DEF Requests, CoreReqs

\* A request that WokenByInv leaves waiting still agrees with the entry.
LEMMA UnwokenHead ==
  ASSUME NEW e \in Entries, NEW A \in Seq(Requests), A # <<>>, NEW c \in Caches, c \in e.sharers,
         EntryOK(e, A, TRUE), HeadOK(e, A[1]), A[1].requester # c,
         NEW e2 \in Entries, e2.sharers = e.sharers \ {c},
         e2.dstate = IF e2.sharers = {} THEN "UNCACHED" ELSE e.dstate,
         EntryBase(e2), queue = A, ~WokenByInv(e2, c)
  PROVE  HeadOK(e2, A[1])
<1> DEFINE h == A[1]
<1>1. Head(queue) = h /\ h \in Requests
  BY SequenceFacts
<1>3. e.dstate \in {"EXCLUSIVE", "MODIFIED"} => e.sharers = {e.owner}
  BY DEF EntryOK
<1>4. /\ h.wait => h.type = "SH_REQ" /\ e.dstate = "SHARED"
      /\ h.type \in {"EX_REQ", "UPGRADE_REQ"} => Fresh(h)
      /\ h.type = "SH_REQ" /\ ~h.wait /\ h.from = NoCache =>
            Fresh(h) /\ e.dstate \in {"EXCLUSIVE", "MODIFIED"}
      /\ h.type = "NULLIFY_REQ" => h.requester = NoCache /\ ~h.wait /\ h.from = NoCache
  BY <1>1, <1>3, LeaverAsked
<1>5. e2.sharers = {} <=> e2.dstate = "UNCACHED"
  BY DEF EntryBase
<1>6. HeadOK(e, h) /\ h.requester # c
  OBVIOUS
<1> HIDE DEF h
<1>7. CASE h.type \in {"EX_REQ", "NULLIFY_REQ"}
  <2>1. e2.dstate # "UNCACHED" /\ ~h.wait
    BY <1>1, <1>4, <1>7 DEF WokenByInv
  <2>2. h.type = "EX_REQ" => h.requester \notin e2.sharers
    BY <1>6, <2>1 DEF HeadOK
  <2>3. (h.requester = NoCache <=> h.type = "NULLIFY_REQ") /\ (h.from # NoCache => h.type = "SH_REQ")
    BY <1>6 DEF HeadOK
  <2>4. QED
    BY <1>7, <2>1, <2>2, <2>3 DEF HeadOK, h
<1>8. CASE h.type = "UPGRADE_REQ"
  <2>1. ~(e2.sharers \subseteq {h.requester}) /\ ~h.wait
    BY <1>1, <1>4, <1>8 DEF WokenByInv, Fresh
  <2>2. e2.sharers \ {h.requester} # {} /\ e2.dstate = e.dstate
    BY <2>1
  <2>3. e2.dstate # "SHARED" => h.requester \notin e2.sharers
    BY <1>6, <1>8, <2>1, <2>2 DEF HeadOK
  <2>4. (h.requester = NoCache <=> h.type = "NULLIFY_REQ") /\ (h.from # NoCache => h.type = "SH_REQ")
    BY <1>6 DEF HeadOK
  <2>5. QED
    BY <1>8, <2>1, <2>2, <2>3, <2>4 DEF HeadOK, h
<1>9. CASE h.type = "SH_REQ"
  <2>1. h.wait \/ h.from \notin {NoCache, c}
    BY <1>1, <1>9 DEF WokenByInv
  <2>2. h.requester \in e.sharers /\ e.dstate = "SHARED"
    BY <1>4, <1>6, <1>9, <2>1 DEF HeadOK
  <2>3. h.requester \in e2.sharers /\ e2.dstate = "SHARED"
    BY <1>6, <2>2
  <2>4. (h.requester = NoCache <=> h.type = "NULLIFY_REQ") /\ (h.from # NoCache => h.type = "SH_REQ")
    BY <1>6 DEF HeadOK
  <2>5. QED
    BY <1>9, <2>1, <2>3, <2>4 DEF HeadOK, h
<1>10. QED
  BY <1>1, <1>7, <1>8, <1>9 DEF Requests, CoreReqs, h

\* handleMsgFromL2Cache, INV_REP.
LEMMA DirHandleInvRepStep ==
  ASSUME FullMap, CoherenceInv, NEW c \in Caches, DirHandleInvRep(c)
  PROVE  CoherenceInv'
<1>1. TypeOK /\ DataOK
  BY DEF CoherenceInv
<1>2. PICK e : e = [entry EXCEPT !.sharers = entry.sharers \ {c},
                                 !.forwarder = IF @ = c THEN NoCache ELSE @,
                                 !.dstate = IF entry.sharers \ {c} = {} THEN "UNCACHED" ELSE @]
  OBVIOUS
<1>3. /\ DirGets(c, "INV_REP") /\ Receive(c)
      /\ IF queue # <<>> /\ WokenByInv(e, c)
         THEN \E pick \in Picks(e) : Perform(ProcessHead(e, queue, NoData, pick))
         ELSE Perform(Quiet(e, queue))
      /\ UNCHANGED <<cacheVars, fromDram, dram, latest>>
  BY <1>2 DEF DirHandleInvRep
<1>4. ~next /\ toDir[c] # <<>> /\ Head(toDir[c]).type = "INV_REP"
  BY <1>3 DEF DirGets
<1>5. PICK b \in BOOLEAN :
        /\ b = (queue # <<>>)
        /\ EntryOK(entry, queue, b) /\ QueueOK(entry, queue, b)
        /\ MemoryOK(toDram, fromDram, queue, b)
        /\ CachesOK(cstate, waiters, serving, toDir, toCache, entry, queue, b)
  BY <1>4, Attending
<1>6. /\ entry \in Entries /\ queue \in Seq(Requests)
      /\ Frame(cstate, waiters, serving, toDir, toCache)
  BY <1>1, FrameOK DEF TypeOK
<1>7. /\ toDir' = [toDir EXCEPT ![c] = Tail(@)]
      /\ toDir' \in [Caches -> Seq(CacheMsgs)]
      /\ \A d \in Caches : FlushData(toDir'[d])
  BY <1>1, <1>3, <1>4, Received
<1>8. /\ e \in Entries /\ e.where = entry.where /\ e.sharers = entry.sharers \ {c}
      /\ e.dstate = IF e.sharers = {} THEN "UNCACHED" ELSE entry.dstate
      /\ e.forwarder = NoCache \/ (e.forwarder = entry.forwarder /\ entry.forwarder # c)
  BY <1>2, <1>6 DEF Entries, DStates
<1>9. b => queue # <<>> /\ HeadOK(entry, queue[1]) /\ queue[1].type \in CoreReqs \cup {"NULLIFY_REQ"}
  <2>1. b => queue # <<>> /\ HeadOK(entry, queue[1])
    BY <1>5 DEF QueueOK
  <2>2. queue # <<>> => queue[1] \in Requests
    BY <1>6, SequenceFacts
  <2>3. QED
    BY <2>1, <2>2 DEF Requests
<1>10. /\ entry.dstate \in {"EXCLUSIVE", "MODIFIED"} => entry.sharers = {entry.owner}
       /\ entry.sharers = {} <=> entry.dstate = "UNCACHED"
  BY <1>5 DEF EntryOK
<1>11. Head(toDir[c]).type \in GiveUps
  BY <1>4 DEF GiveUps
<1>12. /\ c \in entry.sharers /\ ~(b /\ queue[1].requester = c)
       /\ CachesOK(cstate, waiters, serving, toDir', toCache, e, queue, b)
  <2>1. LeavesEntry(entry, queue, b, c, e)
    BY <1>8, <1>9, <1>10 DEF LeavesEntry
  <2>2. /\ c \in entry.sharers /\ ~(b /\ queue[1].requester = c)
        /\ CachesOK(cstate, waiters, serving, [toDir EXCEPT ![c] = Tail(@)], toCache, e, queue, b)
    BY <1>4, <1>5, <1>6, <1>8, <1>11, <2>1, Leaving
  <2>3. QED
    BY <1>7, <2>2
<1>13. /\ EntryOK(e, queue, b) /\ EntryBase(e) /\ e.where # "none"
       /\ e.where = "replaced" => b /\ queue[1].type = "NULLIFY_REQ"
  <2>1. EntryOK(entry, queue, b) /\ c \in entry.sharers
    BY <1>5, <1>12
  <2>2. QED
    BY <1>6, <1>8, <2>1, EntryLeft
<1>14. UNCHANGED <<cstate, cdata, waiters, serving, fromDram, dram, latest>>
  BY <1>3 DEF cacheVars
<1>15. CASE queue # <<>> /\ WokenByInv(e, c)
  <2>1. PICK pick \in Picks(e) : Perform(ProcessHead(e, queue, NoData, pick))
    BY <1>3, <1>15
  <2>2. b = TRUE
    BY <1>5, <1>15
  <2>3. /\ Ready(e, queue) /\ ~queue[1].wait
        /\ \A d \in Caches : Demanded(e, queue, TRUE, d) = {}
    BY <1>5, <1>6, <1>8, <1>12, <1>13, <1>15, <2>2, WokenReady
  <2>4. ServingOK(cstate, waiters, serving, toDir', toCache, e, queue)
    BY <1>12, <2>2 DEF ServingOK
  <2>5. IdleOK(cstate, waiters, serving, toDir', toCache, e, queue)
    BY <2>3, <2>4, CallOff
  <2>6. PICK r : r = ProcessHead(e, queue, NoData, pick)
    OBVIOUS
  <2>7. Frame(cstate, waiters, serving, toDir', toCache)
    BY <1>1, <1>7, FrameOK
  <2>8. Started(cstate, waiters, serving, toDir', toCache, r)
    BY <1>6, <1>8, <2>3, <2>5, <2>6, <2>7, HeadStarts
  <2>9. Performed(r, <<>>) /\ <<>> \in Writes
    BY <2>1, <2>6, <2>8, Performs DEF Started
  <2>10. QED
    BY <1>1, <1>3, <1>5, <1>7, <2>3, <2>8, <2>9, Advances
<1>16. CASE ~(queue # <<>> /\ WokenByInv(e, c))
  <2>1. Perform(Quiet(e, queue))
    BY <1>3, <1>16
  <2>2. /\ entry' = e /\ queue' = queue /\ next' = FALSE /\ toCache' = toCache
        /\ toDram' = toDram \o <<>> /\ <<>> \in Writes
    BY <1>1, <2>1, PerformsQuiet
  <2>3. ASSUME b PROVE HeadOK(e, queue[1])
    <3>1. b = TRUE
      BY <2>3
    <3>2. /\ queue # <<>> /\ ~WokenByInv(e, c) /\ HeadOK(entry, queue[1])
          /\ queue[1].requester # c
      BY <1>5, <1>9, <1>12, <1>16, <2>3
    <3>3. QED
      BY <1>5, <1>6, <1>8, <1>12, <1>13, <3>1, <3>2, UnwokenHead
  <2>4. QueueOK(e, queue, b)
    BY <1>5, <2>3 DEF QueueOK
  <2>5. QED
    BY <1>1, <1>5, <1>6, <1>7, <1>8, <1>12, <1>13, <1>14, <2>2, <2>4, Stays
<1>17. QED
  BY <1>15, <1>16

\* What FLUSH_REP says of the entry and of the request being served.
LEMMA FlushView ==
  ASSUME NEW e \in Entries, NEW A, NEW b \in BOOLEAN, NEW c \in Caches, TypeOK,
         CacheOK(c, cstate, waiters, serving, toDir, toCache, e, A, b),
         toDir[c] # <<>>, Head(toDir[c]).type = "FLUSH_REP",
         e.dstate = "UNCACHED" => e.sharers = {}
  PROVE  \/ e.dstate \in {"EXCLUSIVE", "MODIFIED"}
         \/ /\ b /\ A # <<>> /\ ~A[1].wait /\ A[1].type = "UPGRADE_REQ"
            /\ A[1].requester \notin e.sharers /\ A[1].requester # c
<1>1. toDir[c] \in Seq(CacheMsgs) /\ InSequence(toDir[c])
  BY DEF CacheOK, TypeOK
<1>2. "FLUSH_REP" \in Types(toDir[c])
  BY <1>1, TailTypes
<1>3. e.dstate \in {"EXCLUSIVE", "MODIFIED"} \/ "FLUSH_REQ" \in Demanded(e, A, b, c)
  BY <1>2 DEF CacheOK, Fits
<1>4. CASE "FLUSH_REQ" \in Demanded(e, A, b, c) /\ e.dstate \notin {"EXCLUSIVE", "MODIFIED"}
  <2>1. /\ b /\ A # <<>> /\ c \in e.sharers /\ ~A[1].wait /\ A[1].requester # c
    BY <1>4, DemandedFacts
  <2>2. e.dstate = "SHARED"
    BY <1>4, <2>1 DEF Entries, DStates
  <2>3. QED
    BY <1>4, <2>1, <2>2 DEF Demanded
<1>5. QED
  BY <1>3, <1>4

\* Nobody is left to be asked.
LEMMA EmptiedReady ==
  ASSUME NEW e \in Entries, NEW A \in Seq(Requests), A # <<>>, NEW c \in Caches, c \in e.sharers,
         EntryOK(e, A, TRUE), QueueOK(e, A, TRUE), A[1].requester # c,
         NEW e2 \in Entries, e2.sharers = {}, EntryBase(e2),
         e2.where # "none", e2.where = "replaced" => A[1].type = "NULLIFY_REQ",
         e.dstate \in {"EXCLUSIVE", "MODIFIED"} \/ A[1].type = "UPGRADE_REQ"
  PROVE  /\ Ready(e2, A) /\ ~A[1].wait
         /\ \A d \in Caches : Demanded(e2, A, TRUE, d) = {}
<1> DEFINE h == A[1]
<1>1. h \in Requests
  BY SequenceFacts
<1>2. HeadOK(e, h) /\ Rest(A)
  BY DEF QueueOK, Rest, Unique
<1>3. e.dstate \in {"EXCLUSIVE", "MODIFIED"} => e.sharers = {e.owner}
  BY DEF EntryOK
<1>4. /\ h.wait => h.type = "SH_REQ" /\ e.dstate = "SHARED"
      /\ h.type \in {"EX_REQ", "UPGRADE_REQ"} => Fresh(h)
      /\ h.type = "SH_REQ" /\ ~h.wait /\ h.from = NoCache =>
            Fresh(h) /\ e.dstate \in {"EXCLUSIVE", "MODIFIED"}
      /\ h.type = "NULLIFY_REQ" => h.requester = NoCache /\ ~h.wait /\ h.from = NoCache
  BY <1>1, <1>2, <1>3, LeaverAsked
<1>5. h.type = "SH_REQ" /\ ~h.wait /\ h.from # NoCache => e.dstate = "SHARED"
  BY <1>2 DEF HeadOK
<1>6. h.type = "UPGRADE_REQ" \/ e.dstate # "SHARED"
  OBVIOUS
<1>7. \A d \in Caches : Demanded(e2, A, TRUE, d) = {}
  BY DEF Demanded
<1> HIDE DEF h
<1>8. ~h.wait
  BY <1>4, <1>6
<1>9. ReadyHead(e2, h)
  <2>1. CASE h.type \in {"EX_REQ", "UPGRADE_REQ"}
    BY <1>4, <2>1 DEF ReadyHead
  <2>2. CASE h.type = "SH_REQ"
    BY <1>4, <1>5, <1>6, <1>8, <2>2 DEF ReadyHead
  <2>3. CASE h.type = "NULLIFY_REQ"
    BY <1>4, <2>3 DEF ReadyHead
  <2>4. QED
    BY <1>1, <2>1, <2>2, <2>3 DEF Requests, CoreReqs
<1>10. QED
  BY <1>2, <1>7, <1>8, <1>9 DEF Ready, h

\* Two requests that differ at most in the data that waits with them.
SameRequest(h, g) == /\ h.requester = g.requester /\ h.type = g.type
                     /\ h.wait = g.wait /\ h.from = g.from

\* The queue with another request at its head.
WithHead(h, A) == <<h>> \o Tail(A)

\* The request keeps a pointer to data: nothing else of it changes.
LEMMA KeptFacts ==
  ASSUME NEW A \in Seq(Requests), A # <<>>, NEW h \in Requests, SameRequest(h, A[1])
  PROVE  /\ WithHead(h, A) \in Seq(Requests) /\ WithHead(h, A) # <<>> /\ WithHead(h, A)[1] = h
         /\ DOMAIN WithHead(h, A) = DOMAIN A
         /\ \A i \in DOMAIN A : i # 1 => WithHead(h, A)[i] = A[i]
         /\ Unique(A) => Unique(WithHead(h, A))
         /\ \A c : Asked(WithHead(h, A), c) = Asked(A, c)
<1>1. h.requester = A[1].requester /\ h.type = A[1].type
  BY DEF SameRequest
<1>2. QED
  BY <1>1, AskedMarked DEF WithHead

\* A sharer leaves and the request at the head goes on waiting: the caches still fit.
LEMMA KeptCaches ==
  ASSUME NEW cst, NEW ws, NEW sv, NEW td, NEW tc, NEW e \in Entries, NEW A \in Seq(Requests),
         NEW b \in BOOLEAN, A # <<>>, NEW h \in Requests, SameRequest(h, A[1]),
         CachesOK(cst, ws, sv, td, tc, e, A, b)
  PROVE  CachesOK(cst, ws, sv, td, tc, e, WithHead(h, A), b)
<1>1. /\ WithHead(h, A) # <<>> /\ WithHead(h, A)[1] = h
      /\ \A c : Asked(WithHead(h, A), c) = Asked(A, c)
  BY KeptFacts
<1>2. PICK A2 : A2 = WithHead(h, A)
  OBVIOUS
<1>3. A2 # <<>> /\ A2[1] = h /\ \A c : Asked(A2, c) = Asked(A, c)
  BY <1>1, <1>2
<1>4. ASSUME NEW c \in Caches PROVE CacheOK(c, cst, ws, sv, td, tc, e, A2, b)
  <2>1. Demanded(e, A2, b, c) = Demanded(e, A, b, c)
    BY <1>3 DEF Demanded, SameRequest
  <2>2. Due(A2, c) = Due(A, c)
    BY <1>3 DEF Due, Promised, SameRequest
  <2>3. CacheOK(c, cst, ws, sv, td, tc, e, A, b)
    BY DEF CachesOK
  <2>4. Asked(A2, c) = Asked(A, c)
    BY <1>3
  <2>5. QED
    BY <2>1, <2>2, <2>3, <2>4 DEF CacheOK
<1>5. QED
  BY <1>2, <1>4 DEF CachesOK

\* In the same case the queue still agrees with the entry.
LEMMA KeptQueue ==
  ASSUME NEW e, NEW A \in Seq(Requests), A # <<>>, NEW h \in Requests, SameRequest(h, A[1]),
         Rest(A), HeadOK(e, h)
  PROVE  QueueOK(e, WithHead(h, A), TRUE)
<1>1. PICK A2 : A2 = WithHead(h, A)
  OBVIOUS
<1>2. /\ A2 \in Seq(Requests) /\ A2 # <<>> /\ A2[1] = h
      /\ DOMAIN A2 = DOMAIN A
      /\ \A i \in DOMAIN A : i # 1 => A2[i] = A[i]
      /\ Unique(A) => Unique(A2)
  BY <1>1, KeptFacts
<1>3. QueueOK(e, A2, TRUE)
  BY <1>2 DEF QueueOK, Rest, Unique
<1>4. QED
  BY <1>1, <1>3

\* The records of the handlers that write to DRAM first.
LEMMA RecordFields ==
  ASSUME NEW e, NEW A, NEW data, NEW pick, e.dstate = "UNCACHED", e.where # "none",
         A # <<>>, A \in Seq(Requests), A[1].type \in {"SH_REQ", "NULLIFY_REQ"}
  PROVE  DOMAIN ProcessHead(e, A, data, pick) = Fields
<1>1. \A x, q : DOMAIN Quiet(x, q) = Fields
  BY DEF Quiet, Fields
<1>2. \A S, m, x, q : DOMAIN SendTo(S, m, x, q) = Fields
  BY <1>1 DEF SendTo
<1>3. \A type, q, d, x, B : DOMAIN RetrieveDataAndSend(type, q, d, x, B) = Fields
  <2>1. \A type, q, d, x, B : DOMAIN ReplyNow(type, q, d, x, B) = Fields
    BY <1>2 DEF ReplyNow
  <2>2. TAKE type, q, d, x, B
  <2>3. CASE d # NoData
    BY <2>1, <2>3 DEF RetrieveDataAndSend
  <2>4. CASE d = NoData /\ MayForward(x, Head(B))
    BY <1>2, <2>4 DEF RetrieveDataAndSend
  <2>5. CASE d = NoData /\ ~MayForward(x, Head(B))
    BY <1>1, <2>5 DEF RetrieveDataAndSend
  <2>6. QED
    BY <2>3, <2>4, <2>5
<1>4. Head(A) = A[1]
  BY SequenceFacts
<1>5. CASE A[1].type = "SH_REQ"
  <2>1. Allocated(e) = e
    BY DEF Allocated
  <2>2. ProcessHead(e, A, data, pick) = ProcessShReq(e, A, data, pick)
    BY <1>4, <1>5 DEF ProcessHead
  <2>3. DOMAIN ProcessShReq(e, A, data, pick) = Fields
    <3>1. CASE Protocol = "MSI"
      BY <1>3, <2>1, <3>1 DEF ProcessShReq
    <3>2. CASE Protocol # "MSI"
      BY <1>3, <2>1, <3>2 DEF ProcessShReq
    <3>3. QED
      BY <3>1, <3>2
  <2>4. QED
    BY <2>2, <2>3
<1>6. CASE A[1].type = "NULLIFY_REQ"
  <2>1. ProcessHead(e, A, data, pick) = ProcessNullifyReq(e, A)
    BY <1>4, <1>6 DEF ProcessHead
  <2>2. DOMAIN ProcessNullifyReq(e, A) = Fields
    BY <1>1 DEF ProcessNullifyReq
  <2>3. QED
    BY <2>1, <2>2
<1>7. QED
  BY <1>5, <1>6

\* handleMsgFromL2Cache, FLUSH_REP.
LEMMA DirHandleFlushRepStep ==
  ASSUME FullMap, CoherenceInv, NEW c \in Caches, DirHandleFlushRep(c)
  PROVE  CoherenceInv'
<1>1. TypeOK /\ DataOK
  BY DEF CoherenceInv
<1>2. PICK e : e = [entry EXCEPT !.sharers = entry.sharers \ {c}, !.forwarder = NoCache,
                                 !.owner = NoCache,
                                 !.dstate = IF entry.sharers \ {c} = {} THEN "UNCACHED" ELSE @]
  OBVIOUS
<1>3. PICK data, kept : /\ data = Head(toDir[c]).data
                        /\ kept = <<[Head(queue) EXCEPT !.data = Garbage]>> \o Tail(queue)
  OBVIOUS
<1>4. /\ DirGets(c, "FLUSH_REP") /\ Receive(c)
      /\ IF queue = <<>>
         THEN Perform(WriteDramFirst(data, Quiet(e, queue)))
         ELSE \E pick \in Picks(e) :
                CASE Head(queue).type = "EX_REQ" ->
                       Perform(ProcessHead(e, queue, data, pick))
                  [] Head(queue).type \in {"SH_REQ", "NULLIFY_REQ"} ->
                       Perform(WriteDramFirst(data, ProcessHead(e, queue, data, pick)))
                  [] Head(queue).type = "UPGRADE_REQ" ->
                       IF entry.sharers \ {c} = {}
                       THEN Perform(ProcessHead(e, queue, data, pick))
                       ELSE Perform(Quiet(e, kept))
      /\ UNCHANGED <<cacheVars, fromDram, dram, latest>>
  BY <1>2, <1>3 DEF DirHandleFlushRep
<1>5. ~next /\ toDir[c] # <<>> /\ Head(toDir[c]).type = "FLUSH_REP"
  BY <1>4 DEF DirGets
<1>6. PICK b \in BOOLEAN :
        /\ b = (queue # <<>>)
        /\ EntryOK(entry, queue, b) /\ QueueOK(entry, queue, b)
        /\ MemoryOK(toDram, fromDram, queue, b)
        /\ CachesOK(cstate, waiters, serving, toDir, toCache, entry, queue, b)
  BY <1>5, Attending
<1>7. /\ entry \in Entries /\ queue \in Seq(Requests)
      /\ Frame(cstate, waiters, serving, toDir, toCache)
  BY <1>1, FrameOK DEF TypeOK
<1>8. /\ toDir' = [toDir EXCEPT ![c] = Tail(@)]
      /\ toDir' \in [Caches -> Seq(CacheMsgs)]
      /\ \A d \in Caches : FlushData(toDir'[d])
      /\ data \in Data
  BY <1>1, <1>3, <1>4, <1>5, Received
<1>9. /\ e \in Entries /\ e.where = entry.where /\ e.sharers = entry.sharers \ {c}
      /\ e.dstate = IF e.sharers = {} THEN "UNCACHED" ELSE entry.dstate
      /\ e.forwarder = NoCache
  BY <1>2, <1>7 DEF Entries, DStates
<1>10. b => queue # <<>> /\ HeadOK(entry, queue[1]) /\ queue[1].type \in CoreReqs \cup {"NULLIFY_REQ"}
  <2>1. b => queue # <<>> /\ HeadOK(entry, queue[1])
    BY <1>6 DEF QueueOK
  <2>2. queue # <<>> => queue[1] \in Requests
    BY <1>7, SequenceFacts
  <2>3. QED
    BY <2>1, <2>2 DEF Requests
<1>11. /\ entry.dstate \in {"EXCLUSIVE", "MODIFIED"} => entry.sharers = {entry.owner}
       /\ entry.sharers = {} <=> entry.dstate = "UNCACHED"
  BY <1>6 DEF EntryOK
<1>12. /\ c \in entry.sharers /\ ~(b /\ queue[1].requester = c)
       /\ CachesOK(cstate, waiters, serving, toDir', toCache, e, queue, b)
  <2>1. LeavesEntry(entry, queue, b, c, e)
    BY <1>9, <1>10, <1>11 DEF LeavesEntry
  <2>2. Head(toDir[c]).type \in GiveUps
    BY <1>5 DEF GiveUps
  <2>3. /\ c \in entry.sharers /\ ~(b /\ queue[1].requester = c)
        /\ CachesOK(cstate, waiters, serving, [toDir EXCEPT ![c] = Tail(@)], toCache, e, queue, b)
    BY <1>5, <1>6, <1>7, <1>9, <2>1, <2>2, Leaving
  <2>4. QED
    BY <1>8, <2>3
<1>13. /\ EntryOK(e, queue, b) /\ EntryBase(e) /\ e.where # "none"
       /\ e.where = "replaced" => b /\ queue[1].type = "NULLIFY_REQ"
  <2>1. EntryOK(entry, queue, b) /\ c \in entry.sharers
    BY <1>6, <1>12
  <2>2. QED
    BY <1>7, <1>9, <2>1, EntryLeft
<1>14. UNCHANGED <<cstate, cdata, waiters, serving, fromDram, dram, latest>>
  BY <1>4 DEF cacheVars
<1>15. \/ entry.dstate \in {"EXCLUSIVE", "MODIFIED"}
       \/ /\ b /\ queue # <<>> /\ ~queue[1].wait /\ queue[1].type = "UPGRADE_REQ"
          /\ queue[1].requester \notin entry.sharers /\ queue[1].requester # c
  <2>1. CacheOK(c, cstate, waiters, serving, toDir, toCache, entry, queue, b)
    BY <1>6 DEF CachesOK
  <2>2. QED
    BY <1>1, <1>5, <1>7, <1>11, <2>1, FlushView
<1>16. CASE queue = <<>>
  <2>1. Perform(WriteDramFirst(data, Quiet(e, queue)))
    BY <1>4, <1>16
  <2>2. /\ entry' = e /\ queue' = queue /\ next' = FALSE /\ toCache' = toCache
        /\ toDram' = toDram \o <<Msg("WRITE", data)>> /\ <<Msg("WRITE", data)>> \in Writes
    BY <1>1, <1>8, <2>1, PerformsQuietWrite
  <2>3. ~b
    BY <1>6, <1>16
  <2>4. QueueOK(e, queue, b)
    BY <1>6, <2>3 DEF QueueOK
  <2>5. QED
    BY <1>1, <1>6, <1>7, <1>8, <1>9, <1>12, <1>13, <1>14, <2>2, <2>3, <2>4, Stays
<1>17. CASE queue # <<>> /\ e.sharers = {}
  <2>1. b = TRUE /\ queue[1].requester # c
    BY <1>6, <1>12, <1>17
  <2>2. entry.dstate \in {"EXCLUSIVE", "MODIFIED"} \/ queue[1].type = "UPGRADE_REQ"
    BY <1>15
  <2>3. EntryOK(entry, queue, TRUE) /\ QueueOK(entry, queue, TRUE)
    BY <1>6, <2>1
  <2>4. /\ Ready(e, queue) /\ ~queue[1].wait
        /\ \A d \in Caches : Demanded(e, queue, TRUE, d) = {}
    BY <1>7, <1>9, <1>12, <1>13, <1>17, <2>1, <2>2, <2>3, EmptiedReady
  <2>5. ServingOK(cstate, waiters, serving, toDir', toCache, e, queue)
    BY <1>12, <2>1 DEF ServingOK
  <2>6. IdleOK(cstate, waiters, serving, toDir', toCache, e, queue)
    BY <2>4, <2>5, CallOff
  <2>7. Frame(cstate, waiters, serving, toDir', toCache)
    BY <1>1, <1>8, FrameOK
  <2>8. PICK pick \in Picks(e) :
          CASE Head(queue).type = "EX_REQ" ->
                 Perform(ProcessHead(e, queue, data, pick))
            [] Head(queue).type \in {"SH_REQ", "NULLIFY_REQ"} ->
                 Perform(WriteDramFirst(data, ProcessHead(e, queue, data, pick)))
            [] Head(queue).type = "UPGRADE_REQ" ->
                 IF entry.sharers \ {c} = {}
                 THEN Perform(ProcessHead(e, queue, data, pick))
                 ELSE Perform(Quiet(e, kept))
    BY <1>4, <1>17
  <2>9. PICK r : r = ProcessHead(e, queue, data, pick)
    OBVIOUS
  <2>10. Started(cstate, waiters, serving, toDir', toCache, r)
    BY <1>7, <1>8, <1>9, <2>4, <2>6, <2>7, <2>9, HeadStarts
  <2>11. Head(queue) = queue[1] /\ queue[1].type \in CoreReqs \cup {"NULLIFY_REQ"}
    BY <1>7, <1>10, <1>17, <2>1, SequenceFacts
  <2>12. CASE queue[1].type \in {"EX_REQ", "UPGRADE_REQ"}
    <3>1. Perform(r)
      BY <1>9, <1>17, <2>8, <2>9, <2>11, <2>12
    <3>2. Performed(r, <<>>) /\ <<>> \in Writes
      BY <2>10, <3>1, Performs DEF Started
    <3>3. QED
      BY <1>1, <1>4, <1>6, <1>8, <2>4, <2>10, <3>2, Advances
  <2>13. CASE queue[1].type \in {"SH_REQ", "NULLIFY_REQ"}
    <3>1. Perform(WriteDramFirst(data, r))
      BY <2>8, <2>9, <2>11, <2>13
    <3>2. e.dstate = "UNCACHED"
      BY <1>9, <1>17
    <3>3. DOMAIN r = Fields
      BY <1>7, <1>13, <1>17, <2>9, <2>13, <3>2, RecordFields
    <3>4. Performed(r, <<Msg("WRITE", data)>>) /\ <<Msg("WRITE", data)>> \in Writes
      BY <1>8, <2>10, <3>1, <3>3, PerformsWrite DEF Started
    <3>5. QED
      BY <1>1, <1>4, <1>6, <1>8, <2>4, <2>10, <3>4, Advances
  <2>14. QED
    BY <2>11, <2>12, <2>13 DEF CoreReqs
<1>18. CASE queue # <<>> /\ e.sharers # {}
  <2>1. b = TRUE /\ entry.sharers \ {c} # {} /\ e.dstate = entry.dstate
    BY <1>6, <1>9, <1>18
  <2>2. entry.dstate \notin {"EXCLUSIVE", "MODIFIED"}
    BY <1>11, <1>12, <2>1
  <2>3. /\ ~queue[1].wait /\ queue[1].type = "UPGRADE_REQ"
        /\ queue[1].requester \notin entry.sharers
    BY <1>15, <2>2
  <2>4. Head(queue) = queue[1] /\ queue[1] \in Requests
    BY <1>7, <1>18, SequenceFacts
  <2>5. Perform(Quiet(e, kept))
    BY <1>4, <1>18, <2>1, <2>3, <2>4
  <2>6. PICK h \in Requests : h = [queue[1] EXCEPT !.data = Garbage]
    BY <2>4 DEF Requests, Data
  <2>7. kept = <<h>> \o Tail(queue)
    BY <1>3, <2>4, <2>6
  <2>8. Rest(queue)
    BY <1>6, <2>1 DEF QueueOK, Rest, Unique
  <2>9. /\ h.requester = queue[1].requester /\ h.type = "UPGRADE_REQ"
        /\ ~h.wait /\ h.from = queue[1].from
        /\ h.type = queue[1].type /\ h.wait = queue[1].wait
    BY <2>3, <2>4, <2>6 DEF Requests
  <2>10. HeadOK(e, h)
    <3>1. /\ h.requester = NoCache <=> h.type = "NULLIFY_REQ"
          /\ h.from # NoCache => h.type = "SH_REQ"
      BY <1>10, <2>1, <2>3, <2>9 DEF HeadOK
    <3>2. h.requester \notin e.sharers /\ e.sharers \ {h.requester} # {}
      BY <1>9, <1>18, <2>3, <2>9
    <3>3. QED
      BY <2>9, <3>1, <3>2 DEF HeadOK
  <2>11. CachesOK(cstate, waiters, serving, toDir', toCache, e, queue, b)
    BY <1>12
  <2>12. /\ CachesOK(cstate, waiters, serving, toDir', toCache, e, kept, b)
         /\ QueueOK(e, kept, TRUE) /\ kept \in Seq(Requests) /\ kept # <<>>
    <3>1. SameRequest(h, queue[1]) /\ h \in Requests
      BY <2>6, <2>9 DEF SameRequest
    <3>2. b \in BOOLEAN /\ e \in Entries /\ queue \in Seq(Requests) /\ queue # <<>>
      BY <1>6, <1>7, <1>9, <1>18
    <3>3. CachesOK(cstate, waiters, serving, toDir', toCache, e, WithHead(h, queue), b)
      BY <2>11, <3>1, <3>2, KeptCaches
    <3>4. QueueOK(e, WithHead(h, queue), TRUE)
      BY <2>8, <2>10, <3>1, <3>2, KeptQueue
    <3>5. kept = WithHead(h, queue)
      BY <2>7 DEF WithHead
    <3>6. QED
      BY <3>3, <3>4, <3>5 DEF QueueOK
  <2>13. /\ entry' = e /\ queue' = kept /\ next' = FALSE /\ toCache' = toCache
         /\ toDram' = toDram \o <<>> /\ <<>> \in Writes
    BY <1>1, <2>5, PerformsQuiet
  <2>14. EntryOK(e, kept, b)
    <3>1. e.where # "replaced"
      BY <1>13, <2>3
    <3>2. QED
      BY <1>13, <3>1 DEF EntryOK
  <2>15. QueueOK(e, kept, b) /\ b = (queue' # <<>>) /\ ~queue[1].wait
    BY <2>1, <2>3, <2>12, <2>13
  <2>16. QED
    BY <1>1, <1>6, <1>8, <1>9, <1>14, <2>12, <2>13, <2>14, <2>15, Stays
<1>19. QED
  BY <1>16, <1>17, <1>18

\* The data that a cache wrote back go to the reader at the head.
LEMMA WbStarts ==
  ASSUME FullMap,
         NEW cst, NEW ws, NEW sv, NEW td, NEW tc, NEW e \in Entries, NEW A \in Seq(Requests),
         NEW q \in Caches, NEW data \in Data, NEW pick,
         Frame(cst, ws, sv, td, tc), IdleOK(cst, ws, sv, td, tc, e, A),
         A # <<>>, Rest(A), e.dstate = "SHARED", e.where = "set",
         A[1].type = "SH_REQ", A[1].requester = q, ~A[1].wait,
         A[1].from = NoCache <=> q \notin e.sharers
  PROVE  Started(cst, ws, sv, td, tc, ProcessHead(e, A, data, pick))
<1>1. Head(A) = A[1] /\ Allocated(e) = e /\ data # NoData
  BY SequenceFacts, CoherenceAssumption DEF Allocated, Data
<1>2. PICK e0 : e0 = IF q \in e.sharers THEN e ELSE [e EXCEPT !.sharers = @ \cup {q}]
  OBVIOUS
<1>3. ProcessHead(e, A, data, pick) = RetrieveDataAndSend("SH_REP", q, data, e0, A)
  <2>1. ProcessHead(e, A, data, pick) = ProcessShReq(e, A, data, pick)
    BY <1>1 DEF ProcessHead
  <2>2. CASE q \in e.sharers
    BY <1>1, <1>2, <2>1, <2>2 DEF ProcessShReq
  <2>3. CASE q \notin e.sharers
    <3>1. ~(Cardinality(e.sharers) >= MaxHwSharers)
      BY <2>3, RoomLeft
    <3>2. QED
      BY <1>1, <1>2, <2>1, <2>3, <3>1 DEF ProcessShReq
  <2>4. QED
    BY <2>2, <2>3
<1>4. /\ e0 \in Entries /\ e0.where = "set" /\ e0.dstate = "SHARED"
      /\ e0.sharers = e.sharers \cup {q}
  <2>1. CASE q \in e.sharers
    BY <1>2, <2>1
  <2>2. CASE q \notin e.sharers
    BY <1>2, <2>2 DEF Entries
  <2>3. QED
    BY <2>1, <2>2
<1>5. PICK e1 : e1 = [e0 EXCEPT !.forwarder = NoCache]
  OBVIOUS
<1>6. /\ e1 \in Entries /\ e1.where = "set" /\ e1.dstate = "SHARED"
      /\ e1.sharers = e.sharers \cup {q} /\ e1.forwarder = NoCache
      /\ [e1 EXCEPT !.forwarder = q] = [e0 EXCEPT !.forwarder = q]
  BY <1>4, <1>5 DEF Entries
<1>7. Retrievable(e, A, q, e1, "SH_REP")
  BY <1>6 DEF Retrievable, GrantOK, CoreReqs
<1>8. Started(cst, ws, sv, td, tc,
              ReplyNow("SH_REP", q, data, [e1 EXCEPT !.forwarder = q], A))
  BY <1>6, <1>7, RetrieveNow
<1>9. RetrieveDataAndSend("SH_REP", q, data, e0, A)
        = ReplyNow("SH_REP", q, data, [e0 EXCEPT !.forwarder = q], A)
  BY <1>1 DEF RetrieveDataAndSend
<1>10. QED
  BY <1>3, <1>6, <1>8, <1>9

\* The directory serves a reader and has asked c for the data.
Reading(e, A, b, c) ==
  /\ b /\ A # <<>> /\ A[1].type = "SH_REQ" /\ c \in e.sharers
  /\ ~A[1].wait /\ A[1].requester # c

\* What WB_REP says of the entry and of the request being served.
LEMMA WbView ==
  ASSUME NEW e \in Entries, NEW A, NEW b \in BOOLEAN, NEW c \in Caches, TypeOK,
         CacheOK(c, cstate, waiters, serving, toDir, toCache, e, A, b),
         toDir[c] # <<>>, Head(toDir[c]).type = "WB_REP"
  PROVE  Reading(e, A, b, c)
<1>1. toDir[c] \in Seq(CacheMsgs) /\ InSequence(toDir[c])
  BY DEF CacheOK, TypeOK
<1>2. "WB_REP" \in Types(toDir[c])
  BY <1>1, TailTypes
<1>3. "WB_REQ" \in Demanded(e, A, b, c)
  BY <1>2 DEF CacheOK, Fits
<1>4. b /\ A # <<>> /\ c \in e.sharers /\ ~A[1].wait /\ A[1].requester # c
  BY <1>3, DemandedFacts
<1>5. A[1].type = "SH_REQ"
  BY <1>3, <1>4 DEF Demanded
<1>6. QED
  BY <1>4, <1>5 DEF Reading

\* handleMsgFromL2Cache, WB_REP.
LEMMA DirHandleWbRepStep ==
  ASSUME FullMap, CoherenceInv, NEW c \in Caches, DirHandleWbRep(c)
  PROVE  CoherenceInv'
<1>1. TypeOK /\ DataOK
  BY DEF CoherenceInv
<1>2. PICK e : e = [entry EXCEPT !.owner = NoCache, !.dstate = "SHARED"]
  OBVIOUS
<1>3. PICK data : data = Head(toDir[c]).data
  OBVIOUS
<1>4. /\ DirGets(c, "WB_REP") /\ Receive(c) /\ queue # <<>>
      /\ \E pick \in Picks(e) : Perform(ProcessHead(e, queue, data, pick))
      /\ UNCHANGED <<cacheVars, fromDram, dram, latest>>
  BY <1>2, <1>3 DEF DirHandleWbRep
<1>5. ~next /\ toDir[c] # <<>> /\ Head(toDir[c]).type = "WB_REP"
  BY <1>4 DEF DirGets
<1>6. PICK b \in BOOLEAN :
        /\ b = (queue # <<>>)
        /\ EntryOK(entry, queue, b) /\ QueueOK(entry, queue, b)
        /\ MemoryOK(toDram, fromDram, queue, b)
        /\ CachesOK(cstate, waiters, serving, toDir, toCache, entry, queue, b)
  BY <1>5, Attending
<1>7. /\ entry \in Entries /\ queue \in Seq(Requests)
      /\ Frame(cstate, waiters, serving, toDir, toCache)
  BY <1>1, FrameOK DEF TypeOK
<1>8. /\ toDir' = [toDir EXCEPT ![c] = Tail(@)]
      /\ toDir' \in [Caches -> Seq(CacheMsgs)]
      /\ \A d \in Caches : FlushData(toDir'[d])
      /\ data \in Data
  BY <1>1, <1>3, <1>4, <1>5, Received
<1>9. /\ e \in Entries /\ e.where = entry.where /\ e.sharers = entry.sharers
      /\ e.dstate = "SHARED"
  BY <1>2, <1>7 DEF Entries, DStates
<1>10. /\ entry.dstate \in {"EXCLUSIVE", "MODIFIED"} => entry.sharers = {entry.owner}
       /\ entry.sharers = {} <=> entry.dstate = "UNCACHED"
       /\ entry.where = "none" => entry.dstate = "UNCACHED"
       /\ entry.where = "replaced" => queue[1].type = "NULLIFY_REQ"
  BY <1>6 DEF EntryOK
<1>11. /\ b /\ queue # <<>> /\ queue[1].type = "SH_REQ" /\ c \in entry.sharers
       /\ ~queue[1].wait /\ queue[1].requester # c
       /\ IdleOK(cstate, waiters, serving, toDir', toCache, e, queue)
  <2>1. e.dstate = "SHARED" /\ e.sharers = entry.sharers
    BY <1>9
  <2>2. /\ entry.dstate \in {"EXCLUSIVE", "MODIFIED"} => entry.sharers = {entry.owner}
        /\ entry.sharers = {} <=> entry.dstate = "UNCACHED"
    BY <1>10
  <2>3. e \in Entries /\ b \in BOOLEAN
    BY <1>6, <1>9
  <2>4. CachesOK(cstate, waiters, serving, toDir, toCache, entry, queue, b)
    BY <1>6
  <2>5. IdleOK(cstate, waiters, serving, [toDir EXCEPT ![c] = Tail(@)], toCache, e, queue)
    BY <1>5, <1>7, <2>1, <2>2, <2>3, <2>4, WritingBack
  <2>6. CacheOK(c, cstate, waiters, serving, toDir, toCache, entry, queue, b)
    BY <2>4 DEF CachesOK
  <2>7. Reading(entry, queue, b, c)
    BY <1>1, <1>5, <1>7, <2>3, <2>6, WbView
  <2>8. QED
    BY <1>8, <2>5, <2>7 DEF Reading
<1>12. HeadOK(entry, queue[1]) /\ Rest(queue) /\ queue[1] \in Requests
  BY <1>6, <1>7, <1>11, SequenceFacts DEF QueueOK, Rest, Unique
<1>13. PICK q : q = queue[1].requester
  OBVIOUS
<1>14. q \in Caches /\ (queue[1].from = NoCache <=> q \notin e.sharers)
  BY <1>9, <1>11, <1>12, <1>13 DEF HeadOK, Requests
<1>15. e.where = "set"
  <2>1. entry.where # "none" /\ entry.where # "replaced"
    BY <1>10, <1>11
  <2>2. QED
    BY <1>7, <1>9, <2>1 DEF Entries
<1>16. PICK pick \in Picks(e) : Perform(ProcessHead(e, queue, data, pick))
  BY <1>4
<1>17. PICK r : r = ProcessHead(e, queue, data, pick)
  OBVIOUS
<1>18. Frame(cstate, waiters, serving, toDir', toCache)
  BY <1>1, <1>8, FrameOK
<1>19. Started(cstate, waiters, serving, toDir', toCache, r)
  BY <1>7, <1>8, <1>9, <1>11, <1>12, <1>13, <1>14, <1>15, <1>17, <1>18, WbStarts
<1>20. Performed(r, <<>>) /\ <<>> \in Writes
  BY <1>16, <1>17, <1>19, Performs DEF Started
<1>21. QED
  BY <1>1, <1>4, <1>6, <1>8, <1>11, <1>19, <1>20, Advances
\* The data that DRAM returned go to the requester at the head.
LEMMA DramReplyStarts ==
  ASSUME NEW cst, NEW ws, NEW sv, NEW td, NEW tc, NEW e \in Entries, NEW A \in Seq(Requests),
         NEW q, NEW type, NEW data \in Data,
         Frame(cst, ws, sv, td, tc), ServingOK(cst, ws, sv, td, tc, e, A),
         A # <<>>, Rest(A), EntryOK(e, A, TRUE), HeadOK(e, A[1]), A[1].wait,
         A[1].requester = q,
         type = IF A[1].type = "SH_REQ" /\ e.dstate = "SHARED" THEN "SH_REP" ELSE "EX_REP"
  PROVE  Started(cst, ws, sv, td, tc, ReplyNow(type, q, data, e, A))
<1> DEFINE m == Msg(type, data)
           out == [d \in Caches |-> IF d \in {q} THEN <<m>> ELSE <<>>]
           r == ReplyNow(type, q, data, e, A)
<1>1. /\ m \in DirMsgs /\ m.type = type /\ m.data = data /\ type \in {"EX_REP", "SH_REP"}
  BY DEF DirMsgs, Msg
<1>2. out \in [Caches -> Seq(DirMsgs)]
  BY <1>1
<1>3. /\ r.entry = e /\ r.queue = A /\ r.out = out /\ r.mem = <<>> /\ r.next = TRUE
  <2>1. r.entry = e /\ r.queue = A
    BY DEF ReplyNow, SendTo, Quiet
  <2>2. r.out = out
    BY DEF ReplyNow, SendTo, Quiet
  <2>3. r.mem = <<>> /\ r.next = TRUE
    BY DEF ReplyNow, SendTo, Quiet
  <2>4. QED
    BY <2>1, <2>2, <2>3
<1>4. \A c \in Caches : out[c] = IF c = q THEN <<m>> ELSE <<>>
  OBVIOUS
<1>5. out = [c \in Caches |-> IF c = q THEN <<m>> ELSE <<>>]
  OBVIOUS
<1> HIDE DEF m, out, r
<1>6. A[1] \in Requests
  BY SequenceFacts
<1>7. A[1].type \in CoreReqs /\ q \in Caches
  BY <1>6 DEF HeadOK, Requests
<1>8. GrantOK(type, e.dstate, A[1].type)
  BY <1>7 DEF GrantOK, HeadOK, CoreReqs
<1>9. IdleOK(cst, ws, sv, td, tc, e, A)
  <2>1. \A c \in Caches : Demanded(e, A, TRUE, c) = {}
    BY DEF Demanded
  <2>2. QED
    BY <2>1, CallOff
<1>10. Promised(A, q)
  BY DEF Promised
<1>11. IdleOK(cst, ws, sv, td, Sent(tc, out), e, Tail(A))
  BY <1>1, <1>2, <1>5, <1>7, <1>8, <1>9, <1>10, Granting DEF Rest
<1>12. GoodRecord(r)
  <2>1. ASSUME NEW c \in Caches, NEW i \in DOMAIN out[c]
        PROVE  out[c][i].data \in Data
    BY <1>1, <1>4
  <2>2. QED
    BY <1>2, <1>3, <2>1 DEF GoodRecord
<1>13. EntryOK(e, Tail(A), FALSE)
  BY <1>7 DEF EntryOK, CoreReqs
<1>14. QueueOK(e, Tail(A), FALSE)
  BY TailQueue
<1>15. QED
  BY <1>3, <1>11, <1>12, <1>13, <1>14 DEF Started, r

\* handleMsgFromDRAM.
LEMMA DirHandleDramReplyStep ==
  ASSUME CoherenceInv, DirHandleDramReply
  PROVE  CoherenceInv'
<1>1. TypeOK /\ DataOK
  BY DEF CoherenceInv
<1>2. PICK type, q, data :
        /\ type = IF queue[1].type = "SH_REQ" /\ entry.dstate = "SHARED"
                  THEN "SH_REP" ELSE "EX_REP"
        /\ q = queue[1].requester /\ data = Head(fromDram)
  OBVIOUS
<1>3. ~next /\ fromDram # <<>> /\ fromDram' = Tail(fromDram)
  BY DEF DirHandleDramReply
<1>4. PICK b \in BOOLEAN :
        /\ b = (queue # <<>>)
        /\ EntryOK(entry, queue, b) /\ QueueOK(entry, queue, b)
        /\ MemoryOK(toDram, fromDram, queue, b)
        /\ CachesOK(cstate, waiters, serving, toDir, toCache, entry, queue, b)
  BY <1>3, Attending
<1>5. /\ entry \in Entries /\ queue \in Seq(Requests) /\ fromDram \in Seq(Data)
      /\ Frame(cstate, waiters, serving, toDir, toCache)
      /\ toDir \in [Caches -> Seq(CacheMsgs)]
  BY <1>1, FrameOK DEF TypeOK
<1>6. b /\ queue[1].wait /\ queue # <<>> /\ b = TRUE
  BY <1>3, <1>4 DEF MemoryOK
<1>7. Head(queue) = queue[1]
  BY <1>5, <1>6, SequenceFacts
<1>8. /\ data \in Data /\ fromDram' = <<>> /\ fromDram' \in Seq(Data)
      /\ MemoryIdle(toDram, fromDram') /\ MemoryOK(toDram, fromDram', queue, b)
  <2>1. Len(fromDram) <= 1 /\ \A i \in DOMAIN toDram : toDram[i].type # "READ"
    BY <1>3, <1>4 DEF MemoryOK
  <2>2. /\ Len(fromDram) \in Nat /\ Len(fromDram) >= 1 /\ Head(fromDram) = fromDram[1]
        /\ \A i \in 1..Len(fromDram) : fromDram[i] \in Data
        /\ Tail(fromDram) \in Seq(Data) /\ Len(Tail(fromDram)) = Len(fromDram) - 1
    BY <1>3, <1>5, SequenceFacts
  <2>3. Len(Tail(fromDram)) = 0
    BY <2>1, <2>2
  <2>4. Tail(fromDram) = <<>>
    BY <2>2, <2>3, EmptySeq
  <2>5. data \in Data
    BY <1>2, <2>1, <2>2
  <2>6. MemoryOK(toDram, <<>>, queue, b)
    BY <1>4, <2>1 DEF MemoryOK
  <2>7. QED
    BY <1>3, <2>1, <2>2, <2>4, <2>5, <2>6 DEF MemoryIdle
<1>9. Perform(ReplyNow(type, q, data, entry, queue))
  BY <1>2, <1>7 DEF DirHandleDramReply
<1>10. toDir' = toDir /\ UNCHANGED <<cstate, cdata, waiters, serving, dram, latest>>
  BY DEF DirHandleDramReply, cacheVars
<1>11. /\ toDir' \in [Caches -> Seq(CacheMsgs)] /\ \A c \in Caches : FlushData(toDir'[c])
  BY <1>1, <1>5, <1>10 DEF DataOK
<1>12. PICK r : r = ReplyNow(type, q, data, entry, queue)
  OBVIOUS
<1>13. Started(cstate, waiters, serving, toDir', toCache, r)
  <2>1. ServingOK(cstate, waiters, serving, toDir, toCache, entry, queue)
    BY <1>4, <1>6 DEF ServingOK
  <2>2. EntryOK(entry, queue, TRUE) /\ HeadOK(entry, queue[1]) /\ Rest(queue)
    BY <1>4, <1>6 DEF QueueOK, Rest, Unique
  <2>3. Started(cstate, waiters, serving, toDir, toCache, r)
    BY <1>2, <1>5, <1>6, <1>8, <1>12, <2>1, <2>2, DramReplyStarts
  <2>4. QED
    BY <1>10, <2>3
<1>14. Performed(r, <<>>) /\ <<>> \in Writes
  BY <1>9, <1>12, <1>13, Performs DEF Started
<1>15. QED
  BY <1>1, <1>8, <1>10, <1>11, <1>13, <1>14, Settles DEF Performed

\* The request by which the directory empties an entry it takes away.
Nullify == [type |-> "NULLIFY_REQ", requester |-> NoCache, wait |-> FALSE,
            from |-> NoCache, data |-> NoData]

\* The entry of the line is taken for another one.
LEMMA NullifyQueued ==
  ASSUME NEW cst, NEW ws, NEW sv, NEW td, NEW tc, NEW e, NEW e2,
         IdleOK(cst, ws, sv, td, tc, e, <<>>), e2.sharers = e.sharers, e2.dstate = e.dstate
  PROVE  IdleOK(cst, ws, sv, td, tc, e2, <<Nullify>>)
<1>1. PICK A : A = <<Nullify>>
  OBVIOUS
<1>2. A # <<>> /\ DOMAIN A = {1} /\ A[1] = Nullify
  BY <1>1
<1>3. ASSUME NEW c \in Caches PROVE CacheOK(c, cst, ws, sv, td, tc, e2, A, FALSE)
  <2>1. Asked(A, c) = {} /\ Asked(<<>>, c) = {}
    BY <1>2, CoherenceAssumption DEF Asked, Nullify
  <2>2. Due(A, c) = "no" /\ Due(<<>>, c) = "no"
    BY <1>2, CoherenceAssumption DEF Due, Promised, Nullify
  <2>3. Demanded(e2, A, FALSE, c) = {} /\ Demanded(e, <<>>, FALSE, c) = {}
    BY NothingDemanded
  <2>4. Listed(e2, c) = Listed(e, c)
    BY DEF Listed
  <2>5. CacheOK(c, cst, ws, sv, td, tc, e, <<>>, FALSE)
    BY DEF IdleOK, CachesOK
  <2>6. QED
    BY <2>1, <2>2, <2>3, <2>4, <2>5 DEF CacheOK
<1>4. QED
  BY <1>1, <1>3 DEF IdleOK, CachesOK

\* processDirectoryEntryAllocationReq replaces the entry.
LEMMA DirReplaceEntryStep ==
  ASSUME CoherenceInv, DirReplaceEntry
  PROVE  CoherenceInv'
<1>1. TypeOK /\ DataOK
  BY DEF CoherenceInv
<1>2. PICK e, A : e = [entry EXCEPT !.where = "replaced"] /\ A = <<Nullify>>
  OBVIOUS
<1>3. /\ ~next /\ entry.where = "set" /\ queue = <<>>
      /\ Perform(ProcessNullifyReq(e, A))
      /\ UNCHANGED <<cacheVars, toDir, fromDram, dram, latest>>
  BY <1>2 DEF DirReplaceEntry, Nullify
<1>4. PICK b \in BOOLEAN :
        /\ b = (queue # <<>>)
        /\ EntryOK(entry, queue, b) /\ QueueOK(entry, queue, b)
        /\ MemoryOK(toDram, fromDram, queue, b)
        /\ CachesOK(cstate, waiters, serving, toDir, toCache, entry, queue, b)
  BY <1>3, Attending
<1>5. /\ entry \in Entries /\ Frame(cstate, waiters, serving, toDir, toCache)
      /\ toDir \in [Caches -> Seq(CacheMsgs)]
  BY <1>1, FrameOK DEF TypeOK
<1>6. /\ e \in Entries /\ e.where = "replaced" /\ e.sharers = entry.sharers
      /\ e.dstate = entry.dstate /\ e.owner = entry.owner /\ e.forwarder = entry.forwarder
  BY <1>2, <1>5 DEF Entries
<1>7. ~b
  BY <1>3, <1>4
<1>8. IdleOK(cstate, waiters, serving, toDir, toCache, e, A)
  <2>1. IdleOK(cstate, waiters, serving, toDir, toCache, entry, <<>>)
    BY <1>3, <1>4 DEF IdleOK
  <2>2. QED
    BY <1>2, <1>6, <2>1, NullifyQueued
<1>9. Ready(e, A) /\ A[1].type = "NULLIFY_REQ" /\ A \in Seq(Requests)
  <2>1. Nullify \in Requests
    BY DEF Nullify, Requests
  <2>2. A # <<>> /\ DOMAIN A = {1} /\ A[1] = Nullify /\ A \in Seq(Requests)
    BY <1>2, <2>1
  <2>3. ReadyHead(e, A[1]) /\ A[1].type = "NULLIFY_REQ"
    BY <2>2 DEF ReadyHead, Nullify
  <2>4. Rest(A)
    BY <2>2 DEF Rest, Unique
  <2>5. EntryBase(e)
    BY <1>4, <1>6 DEF EntryBase, EntryOK
  <2>6. QED
    BY <1>6, <2>2, <2>3, <2>4, <2>5 DEF Ready
<1>10. toDir' = toDir /\ UNCHANGED <<cacheVars, fromDram, dram, latest>>
  BY <1>3
<1>11. /\ toDir' \in [Caches -> Seq(CacheMsgs)] /\ \A c \in Caches : FlushData(toDir'[c])
  BY <1>1, <1>5, <1>10 DEF DataOK
<1>12. PICK r : r = ProcessNullifyReq(e, A)
  OBVIOUS
<1>13. Started(cstate, waiters, serving, toDir', toCache, r)
  <2>1. Started(cstate, waiters, serving, toDir, toCache, r)
    BY <1>5, <1>6, <1>8, <1>9, <1>12, NullifyStarts
  <2>2. QED
    BY <1>10, <2>1
<1>14. Performed(r, <<>>) /\ <<>> \in Writes
  BY <1>3, <1>12, <1>13, Performs DEF Started
<1>15. QED
  BY <1>1, <1>4, <1>7, <1>10, <1>11, <1>13, <1>14, Advances

-----------------------------------------------------------------------------
(* The DRAM controller. *)

\* The first message of rd is taken: what is left to do.
LEMMA DramTakes ==
  ASSUME NEW rd \in Seq(DramMsgs), rd # <<>>, NEW fd \in Seq(Data), NEW A, NEW b \in BOOLEAN,
         NEW d \in Data, MemoryOK(rd, fd, A, b)
  PROVE  /\ Tail(rd) \in Seq(DramMsgs)
         /\ Head(rd).type = "READ" =>
              Append(fd, d) \in Seq(Data) /\ MemoryOK(Tail(rd), Append(fd, d), A, b)
         /\ Head(rd).type # "READ" =>
              Head(rd).data \in Data /\ MemoryOK(Tail(rd), fd, A, b)
<1>1. /\ Len(rd) \in Nat /\ DOMAIN rd = 1..Len(rd) /\ Len(rd) >= 1 /\ Head(rd) = rd[1]
      /\ Tail(rd) \in Seq(DramMsgs) /\ Len(Tail(rd)) = Len(rd) - 1
      /\ \A i \in 1..(Len(rd) - 1) : Tail(rd)[i] = rd[i + 1]
      /\ rd[1] \in DramMsgs
  BY SequenceFacts
<1>2. PICK new : new = Tail(rd)
  OBVIOUS
<1>3. /\ DOMAIN new = 1..(Len(rd) - 1) /\ 1 \in DOMAIN rd
      /\ \A i \in DOMAIN new : /\ new[i] = rd[i + 1] /\ i + 1 \in DOMAIN rd
                               /\ i + 1 # 1 /\ i \in Int
  <2>1. DOMAIN new = 1..(Len(rd) - 1)
    BY <1>1, <1>2, SequenceFacts
  <2>2. QED
    BY <1>1, <1>2, <2>1
<1>4. \A i \in DOMAIN new : new[i].type = "WRITE" => new[i].data \in Data
  BY <1>3 DEF MemoryOK
<1>5. ASSUME NEW i \in DOMAIN new, NEW j \in DOMAIN new,
             new[i].type = "READ", new[j].type = "READ"
      PROVE  i = j
  <2>1. i + 1 = j + 1
    BY <1>3, <1>5 DEF MemoryOK
  <2>2. QED
    BY <1>3, <2>1
<1>6. CASE Head(rd).type = "READ"
  <2>1. fd = <<>> /\ b /\ A[1].wait
    BY <1>1, <1>3, <1>6 DEF MemoryOK
  <2>2. \A i \in DOMAIN new : new[i].type # "READ"
    BY <1>1, <1>3, <1>6 DEF MemoryOK
  <2>3. Append(fd, d) \in Seq(Data) /\ Len(Append(fd, d)) <= 1
    BY <2>1
  <2>4. MemoryOK(new, Append(fd, d), A, b)
    BY <1>4, <2>1, <2>2, <2>3 DEF MemoryOK
  <2>5. QED
    BY <1>1, <1>2, <1>6, <2>3, <2>4
<1>7. CASE Head(rd).type # "READ"
  <2>1. Head(rd).data \in Data
    BY <1>1, <1>3, <1>7 DEF MemoryOK, DramMsgs
  <2>2. (\E i \in DOMAIN new : new[i].type = "READ") => \E i \in DOMAIN rd : rd[i].type = "READ"
    BY <1>3
  <2>3. fd # <<>> => \A i \in DOMAIN new : new[i].type # "READ"
    BY <1>3 DEF MemoryOK
  <2>4. MemoryOK(new, fd, A, b)
    BY <1>4, <1>5, <2>2, <2>3 DEF MemoryOK
  <2>5. QED
    BY <1>1, <1>2, <1>7, <2>1, <2>4
<1>8. QED
  BY <1>6, <1>7

\* handleMsgFromTagDirectory of the DRAM controller.
LEMMA DramHandleStep ==
  ASSUME CoherenceInv, DramHandle
  PROVE  CoherenceInv'
<1>1. TypeOK /\ DataOK /\ toDram # <<>> /\ toDram' = Tail(toDram)
  BY DEF CoherenceInv, DramHandle
<1>2. UNCHANGED <<cstate, cdata, waiters, serving, entry, queue, next, toDir, toCache, latest>>
  BY DEF DramHandle, cacheVars, dirVars
<1>3. IF Head(toDram).type = "READ"
      THEN fromDram' = Append(fromDram, dram) /\ dram' = dram
      ELSE dram' = Head(toDram).data /\ fromDram' = fromDram
  BY DEF DramHandle
<1>4. PICK A : A = Pending
  OBVIOUS
<1>5. PICK b \in BOOLEAN : b = Busy
  BY DEF Busy
<1>6. /\ EntryOK(entry, A, b) /\ QueueOK(entry, A, b) /\ MemoryOK(toDram, fromDram, A, b)
      /\ CachesOK(cstate, waiters, serving, toDir, toCache, entry, A, b)
      /\ next => queue # <<>>
  BY <1>4, <1>5 DEF CoherenceInv
<1>7. Pending' = A /\ Busy' = b
  BY <1>2, <1>4, <1>5 DEF Pending, Busy
<1>8. toDram \in Seq(DramMsgs) /\ fromDram \in Seq(Data) /\ dram \in Data
  BY <1>1 DEF TypeOK
<1>9. /\ Tail(toDram) \in Seq(DramMsgs)
      /\ Head(toDram).type = "READ" =>
           /\ Append(fromDram, dram) \in Seq(Data)
           /\ MemoryOK(Tail(toDram), Append(fromDram, dram), A, b)
      /\ Head(toDram).type # "READ" =>
           Head(toDram).data \in Data /\ MemoryOK(Tail(toDram), fromDram, A, b)
  BY <1>1, <1>6, <1>8, DramTakes
<1>10. /\ toDram' \in Seq(DramMsgs) /\ fromDram' \in Seq(Data) /\ dram' \in Data
       /\ MemoryOK(toDram', fromDram', A, b)
  <2>1. CASE Head(toDram).type = "READ"
    BY <1>1, <1>3, <1>8, <1>9, <2>1
  <2>2. CASE Head(toDram).type # "READ"
    BY <1>1, <1>3, <1>8, <1>9, <2>2
  <2>3. QED
    BY <2>1, <2>2
<1>11. TypeOK'
  BY <1>1, <1>2, <1>10 DEF TypeOK
<1>12. DataOK'
  BY <1>1, <1>2 DEF DataOK
<1>13. /\ EntryOK(entry, Pending, Busy)' /\ QueueOK(entry, Pending, Busy)'
       /\ MemoryOK(toDram, fromDram, Pending, Busy)'
       /\ CachesOK(cstate, waiters, serving, toDir, toCache, entry, Pending, Busy)'
  BY <1>2, <1>6, <1>7, <1>10
<1>14. QED
  BY <1>2, <1>6, <1>11, <1>12, <1>13 DEF CoherenceInv


-----------------------------------------------------------------------------
(* The steps of a cache. *)

\* What a step sees of cache c and its channels.
View(c, Y, ds, held, dem, prom) ==
  /\ toDir[c] \in Seq(CacheMsgs) /\ toCache[c] \in Seq(DirMsgs)
  /\ InSequence(toDir[c]) /\ Inbox(toCache[c])
  /\ Typed(cstate[c], First(waiters[c]), serving[c], Types(toDir[c]), Ahead(toCache[c]),
           Reply(toCache[c]), Behind(toCache[c]), ds, held, dem)
  /\ Fits(cstate[c], First(waiters[c]), serving[c], Types(toDir[c]), Ahead(toCache[c]),
          Reply(toCache[c]), Behind(toCache[c]), Y, ds, held, dem, prom)
  /\ Y = Asked(Pending, c) /\ ds = entry.dstate /\ held = Listed(entry, c)
  /\ dem = Demanded(entry, Pending, Busy, c) /\ prom = Due(Pending, c)

\* The invariant gives such a view of every cache.
LEMMA CacheView ==
  ASSUME CoherenceInv, NEW c \in Caches
  PROVE  \E Y, ds, held, dem, prom : View(c, Y, ds, held, dem, prom)
<1>1. /\ Frame(cstate, waiters, serving, toDir, toCache) /\ entry \in Entries
  BY FrameOK DEF CoherenceInv, TypeOK
<1>2. PICK A : A = Pending
  OBVIOUS
<1>3. PICK b \in BOOLEAN : b = Busy
  BY DEF Busy
<1>4. CacheOK(c, cstate, waiters, serving, toDir, toCache, entry, A, b)
  BY <1>2, <1>3 DEF CoherenceInv, CachesOK
<1>5. b \in BOOLEAN
  BY <1>3
<1>6. /\ toDir[c] \in Seq(CacheMsgs) /\ toCache[c] \in Seq(DirMsgs)
      /\ InSequence(toDir[c]) /\ Inbox(toCache[c])
      /\ Fits(cstate[c], First(waiters[c]), serving[c], Types(toDir[c]), Ahead(toCache[c]),
              Reply(toCache[c]), Behind(toCache[c]), Asked(A, c), entry.dstate, Listed(entry, c),
              Demanded(entry, A, b, c), Due(A, c))
      /\ Typed(cstate[c], First(waiters[c]), serving[c], Types(toDir[c]), Ahead(toCache[c]),
               Reply(toCache[c]), Behind(toCache[c]), entry.dstate, Listed(entry, c),
               Demanded(entry, A, b, c))
  BY <1>1, <1>4, <1>5, Viewed
<1>7. View(c, Asked(A, c), entry.dstate, Listed(entry, c), Demanded(entry, A, b, c), Due(A, c))
  BY <1>2, <1>3, <1>6 DEF View
<1>8. QED
  BY <1>7

\* A step that leaves everything but the variables of c and its channels as
\* they are, the variables of the types they have.
Moves(c) ==
  /\ cstate' \in [Caches -> CStates] /\ cdata' \in [Caches -> Data]
  /\ waiters' \in [Caches -> Seq(Accesses)] /\ serving' \in [Caches -> BOOLEAN]
  /\ toDir' \in [Caches -> Seq(CacheMsgs)] /\ toCache' \in [Caches -> Seq(DirMsgs)]
  /\ latest' \in Values /\ UNCHANGED <<dirVars, memVars>>
  /\ \A d \in Caches : d # c =>
       /\ cstate'[d] = cstate[d] /\ waiters'[d] = waiters[d] /\ serving'[d] = serving[d]
       /\ toDir'[d] = toDir[d] /\ toCache'[d] = toCache[d]
  /\ FlushData(toDir'[c]) /\ ReplyData(toCache'[c])

\* A step of cache c keeps the invariant if c still fits afterwards: the others see no change.
LEMMA CacheMoves ==
  ASSUME CoherenceInv, NEW c \in Caches, NEW Y, NEW ds, NEW held, NEW dem, NEW prom,
         View(c, Y, ds, held, dem, prom), Moves(c),
         InSequence(toDir'[c]), Inbox(toCache'[c]),
         Fits(cstate'[c], First(waiters'[c]), serving'[c], Types(toDir'[c]), Ahead(toCache'[c]),
              Reply(toCache'[c]), Behind(toCache'[c]), Y, ds, held, dem, prom)
  PROVE  CoherenceInv'
<1>1. UNCHANGED <<entry, queue, next, toDram, fromDram, dram>>
  BY DEF Moves, dirVars, memVars
<1>2. TypeOK' /\ DataOK'
  <2>1. TypeOK'
    BY <1>1 DEF CoherenceInv, TypeOK, Moves
  <2>2. ASSUME NEW d \in Caches PROVE FlushData(toDir'[d]) /\ ReplyData(toCache'[d])
    <3>1. CASE d = c
      BY <3>1 DEF Moves
    <3>2. CASE d # c
      BY <3>2 DEF CoherenceInv, DataOK, Moves
    <3>3. QED
      BY <3>1, <3>2
  <2>3. QED
    BY <2>1, <2>2 DEF DataOK
<1>3. PICK A : A = Pending
  OBVIOUS
<1>4. PICK b \in BOOLEAN : b = Busy
  BY DEF Busy
<1>5. Pending' = A /\ Busy' = b
  BY <1>1, <1>3, <1>4 DEF Pending, Busy
<1>6. /\ EntryOK(entry, A, b) /\ QueueOK(entry, A, b) /\ MemoryOK(toDram, fromDram, A, b)
      /\ CachesOK(cstate, waiters, serving, toDir, toCache, entry, A, b)
      /\ next => queue # <<>>
  BY <1>3, <1>4 DEF CoherenceInv
<1>7. ASSUME NEW d \in Caches
      PROVE  CacheOK(d, cstate', waiters', serving', toDir', toCache', entry, A, b)
  <2>1. CASE d = c
    <3>1. /\ Y = Asked(A, c) /\ ds = entry.dstate /\ held = Listed(entry, c)
          /\ dem = Demanded(entry, A, b, c) /\ prom = Due(A, c)
      BY <1>3, <1>4 DEF View
    <3>2. QED
      BY <2>1, <3>1 DEF CacheOK
  <2>2. CASE d # c
    <3>1. CacheOK(d, cstate, waiters, serving, toDir, toCache, entry, A, b)
      BY <1>6 DEF CachesOK
    <3>2. /\ cstate'[d] = cstate[d] /\ waiters'[d] = waiters[d] /\ serving'[d] = serving[d]
          /\ toDir'[d] = toDir[d] /\ toCache'[d] = toCache[d]
      BY <2>2 DEF Moves
    <3>3. QED
      BY <3>1, <3>2 DEF CacheOK
  <2>3. QED
    BY <2>1, <2>2
<1>8. CachesOK(cstate', waiters', serving', toDir', toCache', entry, A, b)
  BY <1>7 DEF CachesOK
<1>9. /\ EntryOK(entry, Pending, Busy)' /\ QueueOK(entry, Pending, Busy)'
      /\ MemoryOK(toDram, fromDram, Pending, Busy)'
      /\ CachesOK(cstate, waiters, serving, toDir, toCache, entry, Pending, Busy)'
  BY <1>1, <1>5, <1>6, <1>8
<1>10. QED
  BY <1>1, <1>2, <1>6, <1>9 DEF CoherenceInv

\* A store that hits.
LEMMA WriteHitStep ==
  ASSUME CoherenceInv, NEW c \in Caches, WriteHit(c)
  PROVE  CoherenceInv'
<1>1. PICK Y, ds, held, dem, prom : View(c, Y, ds, held, dem, prom)
  BY CacheView
<1>2. TypeOK /\ DataOK
  BY DEF CoherenceInv
<1>3. /\ cstate[c] \in {"E", "M"} /\ cstate' = [cstate EXCEPT ![c] = "M"]
      /\ cdata' \in [Caches -> Data] /\ latest' \in Values
      /\ UNCHANGED <<waiters, serving, dirVars, memVars, toDir, toCache>>
  BY <1>2 DEF WriteHit, TypeOK, Data
<1>4. cstate' \in [Caches -> CStates] /\ cstate'[c] = "M"
      /\ \A d \in Caches : d # c => cstate'[d] = cstate[d]
  BY <1>2, <1>3 DEF TypeOK, CStates
<1>5. Moves(c)
  BY <1>2, <1>3, <1>4 DEF Moves, TypeOK, DataOK
<1>6. Fits("M", First(waiters[c]), serving[c], Types(toDir[c]), Ahead(toCache[c]),
           Reply(toCache[c]), Behind(toCache[c]), Y, ds, held, dem, prom)
  BY <1>1, <1>3, WriteHitFits DEF View
<1>7. Fits(cstate'[c], First(waiters'[c]), serving'[c], Types(toDir'[c]), Ahead(toCache'[c]),
           Reply(toCache'[c]), Behind(toCache'[c]), Y, ds, held, dem, prom)
  BY <1>3, <1>4, <1>6
<1>8. InSequence(toDir'[c]) /\ Inbox(toCache'[c])
  BY <1>1, <1>3 DEF View
<1>9. QED
  BY <1>1, <1>5, <1>7, <1>8, CacheMoves

\* A message of type t follows those on the way from c to the directory.
Follows(c, t) ==
  /\ toDir' \in [Caches -> Seq(CacheMsgs)]
  /\ \A d \in Caches : d # c => toDir'[d] = toDir[d]
  /\ FlushData(toDir'[c]) /\ InSequence(toDir'[c])
  /\ Types(toDir'[c]) = Types(toDir[c]) \cup {t}

\* getMemoryManager()->sendMsg of a message that may follow those on their way.
LEMMA Sends ==
  ASSUME TypeOK, DataOK, NEW c \in Caches, NEW t, NEW d \in Data \cup {NoData},
         t \in ToDirs, t \in {"FLUSH_REP", "WB_REP"} => d \in Data,
         Send(c, Msg(t, d)), InSequence(toDir[c]), MayAppend(Types(toDir[c]), t)
  PROVE  Follows(c, t)
<1>1. PICK m : m = Msg(t, d)
  OBVIOUS
<1>2. m \in CacheMsgs /\ m.type = t /\ m.data = d
  BY <1>1 DEF CacheMsgs, Msg, ToDirs, GiveUps
<1>3. toDir[c] \in Seq(CacheMsgs) /\ FlushData(toDir[c])
  BY DEF TypeOK, DataOK
<1>4. Append(toDir[c], m) \in Seq(CacheMsgs)
  BY <1>2, <1>3
<1>5. FlushData(Append(toDir[c], m))
  BY <1>2, <1>3, FlushDataAppend
<1>6. /\ Types(Append(toDir[c], m)) = Types(toDir[c]) \cup {t}
      /\ InSequence(Append(toDir[c], m))
  <2>1. \A T \in Types(toDir[c]) : m.type \in Followers(T)
    BY <1>2 DEF MayAppend
  <2>2. QED
    BY <1>2, <1>3, <2>1, AppendTypes
<1>7. toDir' = [toDir EXCEPT ![c] = Append(@, m)] /\ toDir \in [Caches -> Seq(CacheMsgs)]
  BY <1>1 DEF Send, TypeOK
<1>8. QED
  BY <1>4, <1>5, <1>6, <1>7 DEF Follows

\* c takes the first message of its inbox.
Takes(c) ==
  /\ toCache' \in [Caches -> Seq(DirMsgs)]
  /\ \A d \in Caches : d # c => toCache'[d] = toCache[d]
  /\ ReplyData(toCache'[c]) /\ toCache'[c] = Tail(toCache[c])

\* The network thread takes the first message of its inbox.
LEMMA TakesFirst ==
  ASSUME TypeOK, DataOK, NEW c \in Caches, CacheReceive(c), toCache[c] # <<>>
  PROVE  /\ Takes(c) /\ Head(toCache[c]) \in DirMsgs
         /\ Head(toCache[c]).type \in {"EX_REP", "SH_REP"} => Head(toCache[c]).data \in Data
<1>1. toCache[c] \in Seq(DirMsgs) /\ ReplyData(toCache[c])
  BY DEF TypeOK, DataOK
<1>2. Tail(toCache[c]) \in Seq(DirMsgs) /\ Head(toCache[c]) = toCache[c][1]
      /\ 1 \in DOMAIN toCache[c] /\ toCache[c][1] \in DirMsgs
  BY <1>1, SequenceFacts
<1>3. ReplyData(Tail(toCache[c]))
  BY <1>1, ReplyDataTail
<1>4. toCache' = [toCache EXCEPT ![c] = Tail(@)] /\ toCache \in [Caches -> Seq(DirMsgs)]
  BY DEF CacheReceive, TypeOK
<1>5. Takes(c)
  BY <1>2, <1>3, <1>4 DEF Takes
<1>6. QED
  BY <1>1, <1>2, <1>5 DEF ReplyData

\* An access that misses waits; the first one sends its request.
LEMMA MissStep ==
  ASSUME CoherenceInv, NEW c \in Caches, NEW a \in Accesses, Miss(c, a)
  PROVE  CoherenceInv'
<1>1. PICK Y, ds, held, dem, prom : View(c, Y, ds, held, dem, prom)
  BY CacheView
<1>2. TypeOK /\ DataOK
  BY DEF CoherenceInv
<1>3. /\ IF a = "R" THEN ~Readable(cstate[c]) ELSE cstate[c] \notin {"E", "M"}
      /\ waiters' = [waiters EXCEPT ![c] = Append(@, a)]
      /\ IF waiters[c] = <<>>
         THEN /\ Send(c, Msg(MissRequest(c, a), NoData))
              /\ cstate' = [cstate EXCEPT ![c] = IF MissRequest(c, a) = "UPGRADE_REQ"
                                                 THEN "SU" ELSE @]
         ELSE UNCHANGED <<toDir, cstate>>
      /\ UNCHANGED <<cdata, serving, dirVars, memVars, toCache, latest>>
  BY DEF Miss
<1>4. /\ waiters' \in [Caches -> Seq(Accesses)] /\ waiters'[c] = Append(waiters[c], a)
      /\ \A d \in Caches : d # c => waiters'[d] = waiters[d]
      /\ waiters[c] \in Seq(Accesses)
  BY <1>2, <1>3 DEF TypeOK
<1>5. CASE waiters[c] # <<>>
  <2>1. toDir' = toDir /\ cstate' = cstate
    BY <1>3, <1>5
  <2>2. First(waiters'[c]) = First(waiters[c])
    <3>1. Append(waiters[c], a) # <<>> /\ Head(Append(waiters[c], a)) = Head(waiters[c])
      BY <1>4, <1>5
    <3>2. QED
      BY <1>4, <1>5, <3>1 DEF First
  <2>3. Moves(c)
    BY <1>2, <1>3, <1>4, <2>1 DEF Moves, TypeOK, DataOK
  <2>4. Fits(cstate'[c], First(waiters'[c]), serving'[c], Types(toDir'[c]), Ahead(toCache'[c]),
             Reply(toCache'[c]), Behind(toCache'[c]), Y, ds, held, dem, prom)
    BY <1>1, <1>3, <2>1, <2>2 DEF View
  <2>5. InSequence(toDir'[c]) /\ Inbox(toCache'[c])
    BY <1>1, <1>3, <2>1 DEF View
  <2>6. QED
    BY <1>1, <2>3, <2>4, <2>5, CacheMoves
<1>6. CASE waiters[c] = <<>>
  <2>1. First(waiters[c]) = "none" /\ First(waiters'[c]) = a
    <3>1. waiters'[c] = <<a>>
      BY <1>4, <1>6
    <3>2. QED
      BY <1>6, <3>1 DEF First
  <2>2. PICK s, t : /\ t = MissRequest(c, a)
                    /\ s = IF t = "UPGRADE_REQ" THEN "SU" ELSE cstate[c]
    OBVIOUS
  <2>3. /\ MayAppend(Types(toDir[c]), t)
        /\ Fits(s, a, serving[c], Types(toDir[c]) \cup {t}, Ahead(toCache[c]),
                Reply(toCache[c]), Behind(toCache[c]), Y, ds, held, dem, prom)
    <3>1. /\ Typed(cstate[c], "none", serving[c], Types(toDir[c]), Ahead(toCache[c]),
                   Reply(toCache[c]), Behind(toCache[c]), ds, held, dem)
          /\ Fits(cstate[c], "none", serving[c], Types(toDir[c]), Ahead(toCache[c]),
                  Reply(toCache[c]), Behind(toCache[c]), Y, ds, held, dem, prom)
      BY <1>1, <2>1 DEF View
    <3>2. CASE a = "R"
      <4>1. t = "SH_REQ" /\ s = cstate[c] /\ ~Readable(cstate[c])
        BY <1>3, <2>2, <3>2 DEF MissRequest
      <4>2. QED
        BY <3>1, <3>2, <4>1, MissFits
    <3>3. CASE a = "W" /\ cstate[c] = "S"
      <4>1. t = "UPGRADE_REQ" /\ s = "SU"
        BY <2>2, <3>3 DEF MissRequest
      <4>2. QED
        BY <3>1, <3>3, <4>1, MissFits
    <3>4. CASE a = "W" /\ cstate[c] # "S"
      <4>1. t = "EX_REQ" /\ s = cstate[c] /\ cstate[c] \notin {"S", "E", "M"}
        BY <1>3, <2>2, <3>4 DEF MissRequest
      <4>2. QED
        BY <3>1, <3>4, <4>1, MissFits
    <3>5. QED
      BY <3>2, <3>3, <3>4 DEF Accesses
  <2>4. Send(c, Msg(t, NoData)) /\ cstate' = [cstate EXCEPT ![c] = s]
    <3>1. cstate' = [cstate EXCEPT ![c] = IF t = "UPGRADE_REQ" THEN "SU" ELSE cstate[c]]
      BY <1>3, <1>6, <2>2
    <3>2. QED
      BY <1>3, <1>6, <2>2, <3>1
  <2>5. t \in ToDirs /\ t \notin {"FLUSH_REP", "WB_REP"} /\ s \in CStates
    BY <1>2, <2>2 DEF MissRequest, ToDirs, CoreReqs, CStates, TypeOK
  <2>6. Follows(c, t)
    BY <1>1, <1>2, <2>3, <2>4, <2>5, Sends DEF View
  <2>7. cstate' \in [Caches -> CStates] /\ cstate'[c] = s
        /\ \A d \in Caches : d # c => cstate'[d] = cstate[d]
    BY <1>2, <2>4, <2>5 DEF TypeOK
  <2>8. Moves(c)
    BY <1>2, <1>3, <1>4, <2>6, <2>7 DEF Moves, Follows, TypeOK, DataOK
  <2>9. Fits(cstate'[c], First(waiters'[c]), serving'[c], Types(toDir'[c]), Ahead(toCache'[c]),
             Reply(toCache'[c]), Behind(toCache'[c]), Y, ds, held, dem, prom)
    BY <1>3, <2>1, <2>3, <2>6, <2>7 DEF Follows
  <2>10. InSequence(toDir'[c]) /\ Inbox(toCache'[c])
    BY <1>1, <1>3, <2>6 DEF View, Follows
  <2>11. QED
    BY <1>1, <2>8, <2>9, <2>10, CacheMoves
<1>7. QED
  BY <1>5, <1>6

\* The cache moves to state s, and its inbox, if it sends a message of type t.
LEMMA Answers ==
  ASSUME CoherenceInv, NEW c \in Caches, NEW Y, NEW ds, NEW held, NEW dem, NEW prom,
         View(c, Y, ds, held, dem, prom), NEW s \in CStates, NEW t, Follows(c, t),
         cstate' = [cstate EXCEPT ![c] = s],
         Takes(c) \/ toCache' = toCache, Inbox(toCache'[c]),
         UNCHANGED <<cdata, waiters, serving, dirVars, memVars, latest>>,
         Fits(s, First(waiters[c]), serving[c], Types(toDir[c]) \cup {t}, Ahead(toCache'[c]),
              Reply(toCache'[c]), Behind(toCache'[c]), Y, ds, held, dem, prom)
  PROVE  CoherenceInv'
<1>1. TypeOK /\ DataOK
  BY DEF CoherenceInv
<1>2. cstate' \in [Caches -> CStates] /\ cstate'[c] = s
      /\ \A d \in Caches : d # c => cstate'[d] = cstate[d]
  BY <1>1 DEF TypeOK
<1>3. Moves(c)
  <2>1. /\ toCache' \in [Caches -> Seq(DirMsgs)] /\ ReplyData(toCache'[c])
        /\ \A d \in Caches : d # c => toCache'[d] = toCache[d]
    BY <1>1 DEF Takes, TypeOK, DataOK
  <2>2. QED
    BY <1>1, <1>2, <2>1 DEF Moves, Follows, TypeOK
<1>4. Fits(cstate'[c], First(waiters'[c]), serving'[c], Types(toDir'[c]), Ahead(toCache'[c]),
           Reply(toCache'[c]), Behind(toCache'[c]), Y, ds, held, dem, prom)
  BY <1>2 DEF Follows
<1>5. InSequence(toDir'[c])
  BY DEF Follows
<1>6. QED
  BY <1>3, <1>4, <1>5, CacheMoves

\* What the cache answers to the demand T, and the state its line goes to.
Answer(T, s) ==
  CASE T = "INV_REQ"   -> [type |-> "INV_REP", state |-> "I"]
    [] T = "FLUSH_REQ" -> [type |-> "FLUSH_REP", state |-> "I"]
    [] T = "WB_REQ"    -> [type |-> "WB_REP", state |-> IF s = "SU" THEN s ELSE "S"]

\* processInvReq, processFlushReq and processWbReq.
LEMMA ObeysStep ==
  ASSUME CoherenceInv, NEW c \in Caches, NEW T \in Demands, NEW t, NEW s,
         NEW d \in Data \cup {NoData},
         t \in {"FLUSH_REP", "WB_REP"} => d \in Data,
         t = Answer(T, cstate[c]).type, s = Answer(T, cstate[c]).state,
         ~serving[c], toCache[c] # <<>>, Head(toCache[c]).type = T, CacheReceive(c),
         IF cstate[c] = "I" THEN UNCHANGED <<cstate, toDir>>
         ELSE cstate' = [cstate EXCEPT ![c] = s] /\ Send(c, Msg(t, d)),
         UNCHANGED <<cdata, waiters, serving, dirVars, memVars, latest>>
  PROVE  CoherenceInv'
<1>1. PICK Y, ds, held, dem, prom : View(c, Y, ds, held, dem, prom)
  BY CacheView
<1>2. TypeOK /\ DataOK
  BY DEF CoherenceInv
<1>3. Takes(c)
  BY <1>2, TakesFirst
<1>4. toCache[c] \in Seq(DirMsgs) /\ Inbox(toCache[c])
  BY <1>1 DEF View
<1>5. /\ Inbox(toCache'[c]) /\ Ahead(toCache[c]) = T /\ Ahead(toCache'[c]) = "none"
      /\ Reply(toCache'[c]) = Reply(toCache[c]) /\ Behind(toCache'[c]) = Behind(toCache[c])
  <2>1. /\ Inbox(Tail(toCache[c])) /\ Ahead(toCache[c]) = T /\ Ahead(Tail(toCache[c])) = "none"
        /\ Reply(Tail(toCache[c])) = Reply(toCache[c])
        /\ Behind(Tail(toCache[c])) = Behind(toCache[c])
    BY <1>4, TailInbox
  <2>2. QED
    BY <1>3, <2>1 DEF Takes
<1>6. serving[c] = FALSE
  BY <1>2 DEF TypeOK
<1>7. /\ Typed(cstate[c], First(waiters[c]), FALSE, Types(toDir[c]), T,
               Reply(toCache[c]), Behind(toCache[c]), ds, held, dem)
      /\ Fits(cstate[c], First(waiters[c]), FALSE, Types(toDir[c]), T,
              Reply(toCache[c]), Behind(toCache[c]), Y, ds, held, dem, prom)
  BY <1>1, <1>5, <1>6 DEF View
<1>8. CASE cstate[c] = "I"
  <2>1. cstate' = cstate /\ toDir' = toDir
    BY <1>8
  <2>2. Fits("I", First(waiters[c]), FALSE, Types(toDir[c]), "none", Reply(toCache[c]),
             Behind(toCache[c]), Y, ds, held, dem, prom)
    BY <1>7, <1>8, LateFits
  <2>3. Fits(cstate'[c], First(waiters'[c]), serving'[c], Types(toDir'[c]), Ahead(toCache'[c]),
             Reply(toCache'[c]), Behind(toCache'[c]), Y, ds, held, dem, prom)
    BY <1>5, <1>6, <1>8, <2>1, <2>2
  <2>4. Moves(c)
    BY <1>2, <1>3, <2>1 DEF Moves, Takes, TypeOK, DataOK
  <2>5. InSequence(toDir'[c])
    BY <1>1, <2>1 DEF View
  <2>6. QED
    BY <1>1, <1>5, <2>3, <2>4, <2>5, CacheMoves
<1>9. CASE cstate[c] # "I"
  <2>1. cstate' = [cstate EXCEPT ![c] = s] /\ Send(c, Msg(t, d))
    BY <1>9
  <2>2. /\ t \in ToDirs /\ s \in CStates
        /\ T = "INV_REQ" => t = "INV_REP" /\ s = "I"
        /\ T = "FLUSH_REQ" => t = "FLUSH_REP" /\ s = "I"
        /\ T = "WB_REQ" => t = "WB_REP" /\ s = IF cstate[c] = "SU" THEN cstate[c] ELSE "S"
    BY DEF Answer, Demands, ToDirs, GiveUps, CStates
  <2>3. /\ MayAppend(Types(toDir[c]), t)
        /\ Fits(s, First(waiters[c]), FALSE, Types(toDir[c]) \cup {t}, "none",
                Reply(toCache[c]), Behind(toCache[c]), Y, ds, held, dem, prom)
    <3>1. CASE T = "INV_REQ"
      <4>1. /\ MayAppend(Types(toDir[c]), "INV_REP")
            /\ Fits("I", First(waiters[c]), FALSE, Types(toDir[c]) \cup {"INV_REP"},
                    "none", Reply(toCache[c]), Behind(toCache[c]), Y, ds, held, dem, prom)
        BY <1>7, <1>9, <3>1, GiveUpFits
      <4>2. QED
        BY <2>2, <3>1, <4>1
    <3>2. CASE T = "FLUSH_REQ"
      <4>1. /\ MayAppend(Types(toDir[c]), "FLUSH_REP")
            /\ Fits("I", First(waiters[c]), FALSE, Types(toDir[c]) \cup {"FLUSH_REP"},
                    "none", Reply(toCache[c]), Behind(toCache[c]), Y, ds, held, dem, prom)
        BY <1>7, <1>9, <3>2, GiveUpFits
      <4>2. QED
        BY <2>2, <3>2, <4>1
    <3>3. CASE T = "WB_REQ"
      <4>1. /\ MayAppend(Types(toDir[c]), "WB_REP")
            /\ Fits(IF cstate[c] = "SU" THEN cstate[c] ELSE "S", First(waiters[c]), FALSE,
                    Types(toDir[c]) \cup {"WB_REP"}, "none", Reply(toCache[c]),
                    Behind(toCache[c]), Y, ds, held, dem, prom)
        BY ZenonT(60), <1>7, <1>9, <3>3, GiveUpFits
      <4>2. QED
        BY <2>2, <3>3, <4>1
    <3>4. QED
      BY <3>1, <3>2, <3>3 DEF Demands
  <2>4. Follows(c, t)
    BY <1>1, <1>2, <2>1, <2>2, <2>3, Sends DEF View
  <2>5. Fits(s, First(waiters[c]), serving[c], Types(toDir[c]) \cup {t}, Ahead(toCache'[c]),
             Reply(toCache'[c]), Behind(toCache'[c]), Y, ds, held, dem, prom)
    BY <1>5, <1>6, <2>3
  <2>6. QED
    BY <1>1, <1>3, <1>5, <2>1, <2>2, <2>4, <2>5, Answers
<1>10. QED
  BY <1>8, <1>9

\* processInvReqFromDramDirectory.
LEMMA CacheHandleInvReqStep ==
  ASSUME CoherenceInv, NEW c \in Caches, CacheHandleInvReq(c)
  PROVE  CoherenceInv'
<1>1. PICK T, t, s : T = "INV_REQ" /\ t = "INV_REP" /\ s = "I"
  OBVIOUS
<1>2. T \in Demands /\ t = Answer(T, cstate[c]).type /\ s = Answer(T, cstate[c]).state
  BY <1>1 DEF Demands, Answer
<1>3. /\ ~serving[c] /\ toCache[c] # <<>> /\ Head(toCache[c]).type = T /\ CacheReceive(c)
      /\ IF cstate[c] = "I" THEN UNCHANGED <<cstate, toDir>>
         ELSE cstate' = [cstate EXCEPT ![c] = s] /\ Send(c, Msg(t, NoData))
      /\ UNCHANGED <<cdata, waiters, serving, dirVars, memVars, latest>>
  BY <1>1 DEF CacheHandleInvReq, CacheGets
<1>4. t \notin {"FLUSH_REP", "WB_REP"}
  BY <1>1
<1>5. QED
  BY <1>2, <1>3, <1>4, ObeysStep

\* processFlushReqFromDramDirectory.
LEMMA CacheHandleFlushReqStep ==
  ASSUME CoherenceInv, NEW c \in Caches, CacheHandleFlushReq(c)
  PROVE  CoherenceInv'
<1>1. PICK T, t, s : T = "FLUSH_REQ" /\ t = "FLUSH_REP" /\ s = "I"
  OBVIOUS
<1>2. T \in Demands /\ t = Answer(T, cstate[c]).type /\ s = Answer(T, cstate[c]).state
  BY <1>1 DEF Demands, Answer
<1>3. /\ ~serving[c] /\ toCache[c] # <<>> /\ Head(toCache[c]).type = T /\ CacheReceive(c)
      /\ IF cstate[c] = "I" THEN UNCHANGED <<cstate, toDir>>
         ELSE cstate' = [cstate EXCEPT ![c] = s] /\ Send(c, Msg(t, cdata[c]))
      /\ UNCHANGED <<cdata, waiters, serving, dirVars, memVars, latest>>
  BY <1>1 DEF CacheHandleFlushReq, CacheGets
<1>4. cdata[c] \in Data
  BY DEF CoherenceInv, TypeOK
<1>5. QED
  BY <1>2, <1>3, <1>4, ObeysStep

\* processWbReqFromDramDirectory.
LEMMA CacheHandleWbReqStep ==
  ASSUME CoherenceInv, NEW c \in Caches, CacheHandleWbReq(c)
  PROVE  CoherenceInv'
<1>1. PICK T, t, s, d : /\ T = "WB_REQ" /\ t = "WB_REP"
                        /\ s = IF cstate[c] = "SU" THEN cstate[c] ELSE "S"
                        /\ d = IF cstate[c] = "SU" THEN Garbage ELSE cdata[c]
  OBVIOUS
<1>2. T \in Demands /\ t = Answer(T, cstate[c]).type /\ s = Answer(T, cstate[c]).state
  BY <1>1 DEF Demands, Answer
<1>3. /\ ~serving[c] /\ toCache[c] # <<>> /\ Head(toCache[c]).type = T /\ CacheReceive(c)
      /\ UNCHANGED <<cdata, waiters, serving, dirVars, memVars, latest>>
  BY <1>1 DEF CacheHandleWbReq, CacheGets
<1>4. IF cstate[c] = "I" THEN UNCHANGED <<cstate, toDir>>
      ELSE cstate' = [cstate EXCEPT ![c] = s] /\ Send(c, Msg(t, d))
  BY <1>1 DEF CacheHandleWbReq
<1>5. d \in Data
  BY <1>1 DEF CoherenceInv, TypeOK, Data
<1>6. QED
  BY <1>2, <1>3, <1>4, <1>5, ObeysStep

\* The line is evicted.
LEMMA CacheEvictStep ==
  ASSUME CoherenceInv, NEW c \in Caches, CacheEvict(c)
  PROVE  CoherenceInv'
<1>1. PICK Y, ds, held, dem, prom : View(c, Y, ds, held, dem, prom)
  BY CacheView
<1>2. TypeOK /\ DataOK
  BY DEF CoherenceInv
<1>3. PICK t, d : IF cstate[c] = "M" THEN t = "FLUSH_REP" /\ d = cdata[c]
                  ELSE t = "INV_REP" /\ d = NoData
  OBVIOUS
<1>4. /\ ~serving[c] /\ cstate[c] \in {"S", "E", "M"}
      /\ cstate' = [cstate EXCEPT ![c] = "I"] /\ Send(c, Msg(t, d))
      /\ UNCHANGED <<cdata, waiters, serving, dirVars, memVars, toCache, latest>>
  BY <1>3 DEF CacheEvict
<1>5. /\ t \in ToDirs /\ d \in Data \cup {NoData} /\ "I" \in CStates
      /\ t \in {"FLUSH_REP", "WB_REP"} => d \in Data
  BY <1>2, <1>3 DEF ToDirs, GiveUps, CStates, TypeOK
<1>6. serving[c] = FALSE
  BY <1>2, <1>4 DEF TypeOK
<1>7. /\ Typed(cstate[c], First(waiters[c]), FALSE, Types(toDir[c]), Ahead(toCache[c]),
               Reply(toCache[c]), Behind(toCache[c]), ds, held, dem)
      /\ Fits(cstate[c], First(waiters[c]), FALSE, Types(toDir[c]), Ahead(toCache[c]),
              Reply(toCache[c]), Behind(toCache[c]), Y, ds, held, dem, prom)
  BY <1>1, <1>6 DEF View
<1>8. /\ MayAppend(Types(toDir[c]), t)
      /\ Fits("I", First(waiters[c]), FALSE, Types(toDir[c]) \cup {t}, Ahead(toCache[c]),
              Reply(toCache[c]), Behind(toCache[c]), Y, ds, held, dem, prom)
  <2>1. CASE cstate[c] = "M"
    BY <1>3, <1>4, <1>7, <2>1, EvictFits
  <2>2. CASE cstate[c] # "M"
    BY <1>3, <1>4, <1>7, <2>2, EvictFits
  <2>3. QED
    BY <2>1, <2>2
<1>9. Follows(c, t)
  BY <1>1, <1>2, <1>4, <1>5, <1>8, Sends DEF View
<1>10. toCache' = toCache /\ Inbox(toCache'[c])
  BY <1>1, <1>4 DEF View
<1>11. Fits("I", First(waiters[c]), serving[c], Types(toDir[c]) \cup {t}, Ahead(toCache'[c]),
            Reply(toCache'[c]), Behind(toCache'[c]), Y, ds, held, dem, prom)
  BY <1>6, <1>8, <1>10
<1>12. QED
  BY <1>1, <1>4, <1>5, <1>9, <1>10, <1>11, Answers

\* The cache is about to go on with its waiters ws, the line in state s or, if
\* the first of them writes, as good as MODIFIED: s0.
Serving(c, ws, s, s0, ds, held, dem) ==
  /\ s \in {"S", "E", "M"}
  /\ s0 = s \/ (s0 = "M" /\ First(ws) = "W" /\ s # "S")
  /\ Takes(c) \/ toCache' = toCache
  /\ Inbox(toCache'[c]) /\ Reply(toCache'[c]) = "none" /\ Behind(toCache'[c]) = "none"
  /\ Typed(s0, First(ws), FALSE, Types(toDir[c]), Ahead(toCache'[c]), "none", "none",
           ds, held, dem)
  /\ Fits(s0, "none", FALSE, Types(toDir[c]), Ahead(toCache'[c]), "none", "none", {},
          ds, held, dem, "no")

\* The line goes to state s1 with contents that are data, and the network
\* thread is between two waiters if sv.
Becomes(c, ws, s1, sv) ==
  /\ waiters' = [waiters EXCEPT ![c] = ws] /\ serving' = [serving EXCEPT ![c] = sv]
  /\ cstate' = [cstate EXCEPT ![c] = s1] /\ cdata' \in [Caches -> Data] /\ latest' \in Values
  /\ UNCHANGED <<dirVars, memVars>>

\* Whatever the cache does with its first waiter, if c still fits.
LEMMA Goes ==
  ASSUME CoherenceInv, NEW c \in Caches, NEW Y, NEW ds, NEW held, NEW dem, NEW prom,
         View(c, Y, ds, held, dem, prom), NEW ws \in Seq(Accesses), NEW s1 \in CStates,
         NEW sv \in BOOLEAN, NEW X, Becomes(c, ws, s1, sv),
         Takes(c) \/ toCache' = toCache,
         toDir' \in [Caches -> Seq(CacheMsgs)],
         \A d \in Caches : d # c => toDir'[d] = toDir[d],
         FlushData(toDir'[c]), InSequence(toDir'[c]), Types(toDir'[c]) = X,
         Inbox(toCache'[c]), Reply(toCache'[c]) = "none", Behind(toCache'[c]) = "none",
         Fits(s1, First(ws), sv, X, Ahead(toCache'[c]), "none", "none", Y, ds, held, dem, prom)
  PROVE  CoherenceInv'
<1>1. TypeOK /\ DataOK
  BY DEF CoherenceInv
<1>2. /\ cstate' \in [Caches -> CStates] /\ cstate'[c] = s1
      /\ \A d \in Caches : d # c => cstate'[d] = cstate[d]
  BY <1>1 DEF TypeOK, Becomes
<1>3. /\ waiters' \in [Caches -> Seq(Accesses)] /\ waiters'[c] = ws
      /\ \A d \in Caches : d # c => waiters'[d] = waiters[d]
  BY <1>1 DEF TypeOK, Becomes
<1>4. /\ serving' \in [Caches -> BOOLEAN] /\ serving'[c] = sv
      /\ \A d \in Caches : d # c => serving'[d] = serving[d]
  BY <1>1 DEF TypeOK, Becomes
<1>5. /\ toCache' \in [Caches -> Seq(DirMsgs)] /\ ReplyData(toCache'[c])
      /\ \A d \in Caches : d # c => toCache'[d] = toCache[d]
  BY <1>1 DEF Takes, TypeOK, DataOK
<1>6. Moves(c)
  BY <1>2, <1>3, <1>4, <1>5 DEF Moves, Becomes
<1>7. Fits(cstate'[c], First(waiters'[c]), serving'[c], Types(toDir'[c]), Ahead(toCache'[c]),
           Reply(toCache'[c]), Behind(toCache'[c]), Y, ds, held, dem, prom)
  BY <1>2, <1>3, <1>4
<1>8. QED
  BY <1>6, <1>7, CacheMoves

\* The first waiter is served or an upgrade is asked for on its behalf.
LEMMA Serves ==
  ASSUME CoherenceInv, NEW c \in Caches, NEW Y, NEW ds, NEW held, NEW dem, NEW prom,
         View(c, Y, ds, held, dem, prom), Y = {}, prom = "no",
         NEW ws \in Seq(Accesses), NEW s, NEW s0, NEW d \in Data,
         Serving(c, ws, s, s0, ds, held, dem),
         ServeFirst(c, ws, s, d), UNCHANGED <<dirVars, memVars>>
  PROVE  CoherenceInv'
<1>1. TypeOK /\ DataOK
  BY DEF CoherenceInv
<1>2. /\ toDir \in [Caches -> Seq(CacheMsgs)] /\ FlushData(toDir[c]) /\ InSequence(toDir[c])
      /\ s \in CStates
  BY <1>1 DEF TypeOK, DataOK, View, Serving, CStates
<1>3. /\ s0 \in {"S", "E", "M"} /\ First(ws) \in Accesses \cup {"none"}
      /\ First(ws) = "W" <=> ws # <<>> /\ Head(ws) = "W"
      /\ First(ws) = "R" <=> ws # <<>> /\ Head(ws) = "R"
      /\ First(ws) = "none" <=> ws = <<>>
  <2>1. ws # <<>> => Head(ws) \in Accesses
    BY SequenceFacts
  <2>2. QED
    BY <2>1 DEF First, Accesses, Serving
<1>4. PICK X, a : X = Types(toDir[c]) /\ a = Ahead(toCache'[c])
  OBVIOUS
<1>5. /\ Typed(s0, First(ws), FALSE, X, a, "none", "none", ds, held, dem)
      /\ Fits(s0, "none", FALSE, X, a, "none", "none", {}, ds, held, dem, "no")
  BY <1>4 DEF Serving
<1>6. /\ Takes(c) \/ toCache' = toCache
      /\ Inbox(toCache'[c]) /\ Reply(toCache'[c]) = "none" /\ Behind(toCache'[c]) = "none"
  BY DEF Serving
<1>7. cdata \in [Caches -> Data] /\ latest \in Values /\ Values \subseteq Data
  BY <1>1 DEF TypeOK, Data
<1>8. waiters' = [waiters EXCEPT ![c] = ws]
  BY DEF ServeFirst
<1>9. PICK yes \in BOOLEAN : yes = TRUE
  OBVIOUS
<1>10. PICK no \in BOOLEAN : no = FALSE
  OBVIOUS
<1>11. CASE /\ ws = <<>> /\ serving' = [serving EXCEPT ![c] = FALSE]
            /\ cstate' = [cstate EXCEPT ![c] = s] /\ cdata' = [cdata EXCEPT ![c] = d]
            /\ UNCHANGED <<toDir, latest>>
  <2>1. First(ws) = "none" /\ s0 = s
    BY <1>3, <1>11 DEF Serving
  <2>2. Fits(s, First(ws), no, X, a, "none", "none", Y, ds, held, dem, prom)
    BY <1>3, <1>5, <1>10, <2>1, ServeFits
  <2>3. Becomes(c, ws, s, no)
    BY <1>7, <1>8, <1>10, <1>11 DEF Becomes
  <2>4. /\ toDir' \in [Caches -> Seq(CacheMsgs)]
        /\ \A e \in Caches : e # c => toDir'[e] = toDir[e]
        /\ FlushData(toDir'[c]) /\ InSequence(toDir'[c]) /\ Types(toDir'[c]) = X
    BY <1>2, <1>4, <1>11
  <2>5. no \in BOOLEAN /\ a = Ahead(toCache'[c])
    BY <1>4, <1>10
  <2>6. QED
    BY <1>2, <1>6, <2>2, <2>3, <2>4, <2>5, Goes
<1>12. CASE /\ ws # <<>> /\ Head(ws) = "W" /\ s = "S"
            /\ Send(c, Msg("UPGRADE_REQ", NoData))
            /\ serving' = [serving EXCEPT ![c] = FALSE]
            /\ cstate' = [cstate EXCEPT ![c] = "SU"] /\ cdata' = [cdata EXCEPT ![c] = d]
            /\ UNCHANGED latest
  <2>1. First(ws) = "W" /\ s0 = "S"
    BY <1>3, <1>12 DEF Serving
  <2>2. PICK t : t = "UPGRADE_REQ"
    OBVIOUS
  <2>3. /\ MayAppend(X, t)
        /\ Fits("SU", First(ws), no, X \cup {t}, a, "none", "none", Y, ds, held, dem, prom)
    BY <1>3, <1>5, <1>10, <2>1, <2>2, ServeFits
  <2>4. Becomes(c, ws, "SU", no) /\ "SU" \in CStates
    BY <1>7, <1>8, <1>10, <1>12 DEF Becomes, CStates
  <2>5. Follows(c, t)
    <3>1. t \in ToDirs /\ t \notin {"FLUSH_REP", "WB_REP"} /\ Send(c, Msg(t, NoData))
      BY <1>12, <2>2 DEF ToDirs, CoreReqs
    <3>2. MayAppend(Types(toDir[c]), t)
      BY <1>4, <2>3
    <3>3. QED
      BY <1>1, <1>2, <3>1, <3>2, Sends
  <2>6. /\ toDir' \in [Caches -> Seq(CacheMsgs)]
        /\ \A e \in Caches : e # c => toDir'[e] = toDir[e]
        /\ FlushData(toDir'[c]) /\ InSequence(toDir'[c]) /\ Types(toDir'[c]) = X \cup {t}
    BY <1>4, <2>5 DEF Follows
  <2>7. no \in BOOLEAN /\ a = Ahead(toCache'[c])
    BY <1>4, <1>10
  <2>8. PICK Z : Z = X \cup {t}
    OBVIOUS
  <2>9. Fits("SU", First(ws), no, Z, a, "none", "none", Y, ds, held, dem, prom)
    BY <2>3, <2>8
  <2>10. /\ toDir' \in [Caches -> Seq(CacheMsgs)]
         /\ \A e \in Caches : e # c => toDir'[e] = toDir[e]
         /\ FlushData(toDir'[c]) /\ InSequence(toDir'[c]) /\ Types(toDir'[c]) = Z
    BY <2>6, <2>8
  <2>11. QED
    BY <1>2, <1>6, <2>4, <2>7, <2>9, <2>10, Goes
<1>13. CASE /\ ws # <<>> /\ Head(ws) = "R" /\ serving' = [serving EXCEPT ![c] = TRUE]
            /\ cstate' = [cstate EXCEPT ![c] = s] /\ cdata' = [cdata EXCEPT ![c] = d]
            /\ UNCHANGED <<toDir, latest>>
  <2>1. First(ws) = "R" /\ s0 = s
    BY <1>3, <1>13 DEF Serving
  <2>2. Fits(s, First(ws), yes, X, a, "none", "none", Y, ds, held, dem, prom)
    BY <1>3, <1>5, <1>9, <2>1, ServeFits
  <2>3. Becomes(c, ws, s, yes)
    BY <1>7, <1>8, <1>9, <1>13 DEF Becomes
  <2>4. /\ toDir' \in [Caches -> Seq(CacheMsgs)]
        /\ \A e \in Caches : e # c => toDir'[e] = toDir[e]
        /\ FlushData(toDir'[c]) /\ InSequence(toDir'[c]) /\ Types(toDir'[c]) = X
    BY <1>2, <1>4, <1>13
  <2>5. yes \in BOOLEAN /\ a = Ahead(toCache'[c])
    BY <1>4, <1>9
  <2>6. QED
    BY <1>2, <1>6, <2>2, <2>3, <2>4, <2>5, Goes
<1>14. CASE /\ ws # <<>> /\ Head(ws) = "W" /\ s # "S"
            /\ serving' = [serving EXCEPT ![c] = TRUE] /\ cstate' = [cstate EXCEPT ![c] = "M"]
            /\ \E v \in Values : cdata' = [cdata EXCEPT ![c] = v] /\ latest' = v
            /\ UNCHANGED toDir
  <2>1. First(ws) = "W" /\ s0 # "S"
    BY <1>3, <1>14 DEF Serving
  <2>2. Fits("M", First(ws), yes, X, a, "none", "none", Y, ds, held, dem, prom)
    BY <1>3, <1>5, <1>9, <2>1, ServeFits
  <2>3. Becomes(c, ws, "M", yes) /\ "M" \in CStates
    BY <1>7, <1>8, <1>9, <1>14 DEF Becomes, CStates
  <2>4. /\ toDir' \in [Caches -> Seq(CacheMsgs)]
        /\ \A e \in Caches : e # c => toDir'[e] = toDir[e]
        /\ FlushData(toDir'[c]) /\ InSequence(toDir'[c]) /\ Types(toDir'[c]) = X
    BY <1>2, <1>4, <1>14
  <2>5. yes \in BOOLEAN /\ a = Ahead(toCache'[c])
    BY <1>4, <1>9
  <2>6. QED
    BY <1>6, <2>2, <2>3, <2>4, <2>5, Goes
<1>15. QED
  BY <1>11, <1>12, <1>13, <1>14 DEF ServeFirst

\* processExRep, processShRep and processUpgradeRep.
LEMMA CacheHandleReplyStep ==
  ASSUME CoherenceInv, NEW c \in Caches, CacheHandleReply(c)
  PROVE  CoherenceInv'
<1>1. PICK Y, ds, held, dem, prom : View(c, Y, ds, held, dem, prom)
  BY CacheView
<1>2. TypeOK /\ DataOK
  BY DEF CoherenceInv
<1>3. PICK m, s, d : /\ m = Head(toCache[c])
                     /\ s = CASE m.type = "EX_REP" -> "E"
                              [] m.type = "SH_REP" -> "S"
                              [] m.type = "UPGRADE_REP" -> "M"
                     /\ d = IF m.type = "UPGRADE_REP" THEN cdata[c] ELSE m.data
  OBVIOUS
<1>4. /\ ~serving[c] /\ toCache[c] # <<>> /\ m.type \in {"EX_REP", "SH_REP", "UPGRADE_REP"}
      /\ CacheReceive(c) /\ ServeFirst(c, waiters[c], s, d)
      /\ UNCHANGED <<dirVars, memVars>>
  BY <1>3 DEF CacheHandleReply, CacheGets
<1>5. Takes(c) /\ (m.type \in {"EX_REP", "SH_REP"} => m.data \in Data)
  BY <1>2, <1>3, <1>4, TakesFirst
<1>6. m.type \in Replies /\ d \in Data
  BY <1>2, <1>3, <1>4, <1>5 DEF Replies, TypeOK
<1>7. toCache[c] \in Seq(DirMsgs) /\ Inbox(toCache[c])
  BY <1>1 DEF View
<1>8. /\ Inbox(toCache'[c]) /\ Ahead(toCache[c]) = "none" /\ Reply(toCache[c]) = m.type
      /\ Ahead(toCache'[c]) = Behind(toCache[c])
      /\ Reply(toCache'[c]) = "none" /\ Behind(toCache'[c]) = "none"
  <2>1. /\ Inbox(Tail(toCache[c])) /\ Ahead(toCache[c]) = "none" /\ Reply(toCache[c]) = m.type
        /\ Ahead(Tail(toCache[c])) = Behind(toCache[c])
        /\ Reply(Tail(toCache[c])) = "none" /\ Behind(Tail(toCache[c])) = "none"
    BY <1>3, <1>4, <1>6, <1>7, TailInbox
  <2>2. QED
    BY <1>5, <2>1 DEF Takes
<1>9. PICK w, X, z : w = First(waiters[c]) /\ X = Types(toDir[c]) /\ z = Behind(toCache[c])
  OBVIOUS
<1>10. /\ Typed(cstate[c], w, serving[c], X, "none", m.type, z, ds, held, dem)
       /\ Fits(cstate[c], w, serving[c], X, "none", m.type, z, Y, ds, held, dem, prom)
  BY <1>1, <1>8, <1>9 DEF View
<1>11. Y = {} /\ prom = "no" /\ w \in Accesses
  BY <1>6, <1>10, ReplyFits
<1>12. PICK s0 : s0 = IF m.type = "EX_REP" /\ w = "W" THEN "M" ELSE s
  OBVIOUS
<1>13. Fits(s0, "none", FALSE, X, z, "none", "none", {}, ds, held, dem, "no")
  <2>1. CASE m.type = "EX_REP" /\ w = "W"
    <3>1. Fits("M", "none", FALSE, X, z, "none", "none", {}, ds, held, dem, "no")
      BY <1>6, <1>10, <2>1, ReplyFits
    <3>2. QED
      BY <1>12, <2>1, <3>1
  <2>2. CASE m.type = "EX_REP" /\ w = "R"
    <3>1. Fits("E", "none", FALSE, X, z, "none", "none", {}, ds, held, dem, "no")
      BY ZenonT(60), <1>6, <1>10, <2>2, ReplyFits
    <3>2. QED
      BY <1>3, <1>12, <2>2, <3>1
  <2>3. CASE m.type = "SH_REP"
    <3>1. Fits("S", "none", FALSE, X, z, "none", "none", {}, ds, held, dem, "no")
      BY <1>6, <1>10, <2>3, ReplyFits
    <3>2. QED
      BY <1>3, <1>12, <2>3, <3>1
  <2>4. CASE m.type = "UPGRADE_REP"
    <3>1. Fits("M", "none", FALSE, X, z, "none", "none", {}, ds, held, dem, "no")
      BY <1>6, <1>10, <2>4, ReplyFits
    <3>2. QED
      BY <1>3, <1>12, <2>4, <3>1
  <2>5. QED
    BY <1>4, <1>11, <2>1, <2>2, <2>3, <2>4 DEF Accesses
<1>14. s \in {"S", "E", "M"} /\ (s0 = s \/ (s0 = "M" /\ w = "W" /\ s # "S"))
  BY <1>3, <1>4, <1>12
<1>15. Typed(s0, w, FALSE, X, z, "none", "none", ds, held, dem)
  <2>1. z \in Demands \cup {"none"} /\ s0 \in CStates
    BY <1>10, <1>14 DEF Typed, CStates
  <2>2. QED
    BY <1>10, <2>1 DEF Typed
<1>16. Serving(c, waiters[c], s, s0, ds, held, dem)
  BY <1>5, <1>8, <1>9, <1>13, <1>14, <1>15 DEF Serving
<1>17. waiters[c] \in Seq(Accesses)
  BY <1>2 DEF TypeOK
<1>18. QED
  BY <1>1, <1>4, <1>6, <1>11, <1>16, <1>17, Serves

\* The loop over m_directory_waiters goes on.
LEMMA CacheServeNextStep ==
  ASSUME CoherenceInv, NEW c \in Caches, CacheServeNext(c)
  PROVE  CoherenceInv'
<1>1. PICK Y, ds, held, dem, prom : View(c, Y, ds, held, dem, prom)
  BY CacheView
<1>2. TypeOK /\ DataOK
  BY DEF CoherenceInv
<1>3. /\ serving[c] /\ ServeFirst(c, Tail(waiters[c]), cstate[c], cdata[c])
      /\ UNCHANGED <<dirVars, memVars>> /\ toCache' = toCache
  BY DEF CacheServeNext
<1>4. serving[c] = TRUE
  BY <1>2, <1>3 DEF TypeOK
<1>5. PICK w, X, a, r, z : /\ w = First(waiters[c]) /\ X = Types(toDir[c])
                           /\ a = Ahead(toCache[c]) /\ r = Reply(toCache[c])
                           /\ z = Behind(toCache[c])
  OBVIOUS
<1>6. /\ Typed(cstate[c], w, TRUE, X, a, r, z, ds, held, dem)
      /\ Fits(cstate[c], w, TRUE, X, a, r, z, Y, ds, held, dem, prom)
  BY <1>1, <1>4, <1>5 DEF View
<1>7. /\ Y = {} /\ prom = "no" /\ r = "none" /\ z = "none"
      /\ w # "none" /\ cstate[c] \in {"S", "E", "M"}
      /\ Fits(cstate[c], "none", FALSE, X, a, "none", "none", {}, ds, held, dem, "no")
  BY <1>6, ServedFits
<1>8. waiters[c] \in Seq(Accesses) /\ waiters[c] # <<>>
  BY <1>2, <1>5, <1>7 DEF TypeOK, First
<1>9. PICK ws : ws = Tail(waiters[c])
  OBVIOUS
<1>10. ws \in Seq(Accesses) /\ First(ws) \in Accesses \cup {"none"}
  <2>1. ws \in Seq(Accesses)
    BY <1>8, <1>9, SequenceFacts
  <2>2. ws # <<>> => Head(ws) \in Accesses
    BY <2>1, SequenceFacts
  <2>3. QED
    BY <2>1, <2>2 DEF First
<1>11. Typed(cstate[c], First(ws), FALSE, X, a, "none", "none", ds, held, dem)
  BY <1>6, <1>10 DEF Typed
<1>12. /\ Inbox(toCache'[c]) /\ Ahead(toCache'[c]) = a /\ Reply(toCache'[c]) = "none"
       /\ Behind(toCache'[c]) = "none"
  BY <1>1, <1>3, <1>5, <1>7 DEF View
<1>13. Serving(c, ws, cstate[c], cstate[c], ds, held, dem)
  BY <1>3, <1>5, <1>7, <1>11, <1>12 DEF Serving
<1>14. cdata[c] \in Data /\ ServeFirst(c, ws, cstate[c], cdata[c])
  BY <1>2, <1>3, <1>9 DEF TypeOK
<1>15. QED
  BY <1>1, <1>3, <1>7, <1>10, <1>13, <1>14, Serves

-----------------------------------------------------------------------------
(* The theorems. *)

\* Nothing is cached, queued or in flight when the simulation starts.
LEMMA CoherenceInit == Init => CoherenceInv
<1> SUFFICES ASSUME Init PROVE CoherenceInv
  OBVIOUS
<1>1. Values \subseteq Data /\ NoCache \notin Caches /\ Uninit \notin Caches
  BY CoherenceAssumption DEF Data
<1>2. NoEntry \in Entries
  BY DEF NoEntry, Entries, DStates
<1>3. TypeOK
  <2>1. \A S : <<>> \in Seq(S)
    OBVIOUS
  <2>2. /\ cstate \in [Caches -> CStates] /\ cdata \in [Caches -> Data]
        /\ serving \in [Caches -> BOOLEAN]
    BY DEF Init, Data, CStates
  <2>3. waiters \in [Caches -> Seq(Accesses)]
    BY <2>1 DEF Init
  <2>4. toDir \in [Caches -> Seq(CacheMsgs)] /\ toCache \in [Caches -> Seq(DirMsgs)]
    BY <2>1 DEF Init
  <2>5. QED
    BY <1>1, <1>2, <2>1, <2>2, <2>3, <2>4 DEF Init, TypeOK
<1>4. DataOK
  BY DEF Init, DataOK, FlushData, ReplyData
<1>5. Pending = <<>> /\ Busy = FALSE
  BY DEF Init, Pending, Busy
<1>6. PICK b \in BOOLEAN : b = FALSE
  OBVIOUS
<1>7. EntryOK(entry, <<>>, b) /\ QueueOK(entry, <<>>, b) /\ MemoryOK(toDram, fromDram, <<>>, b)
  BY <1>6 DEF Init, EntryOK, QueueOK, MemoryOK, NoEntry
<1>8. ASSUME NEW c \in Caches
      PROVE  CacheOK(c, cstate, waiters, serving, toDir, toCache, entry, <<>>, b)
  <2>1. InSequence(toDir[c]) /\ Inbox(toCache[c]) /\ Types(toDir[c]) = {}
    BY DEF Init, InSequence, Inbox, Types
  <2>2. Ahead(toCache[c]) = "none" /\ Reply(toCache[c]) = "none" /\ Behind(toCache[c]) = "none"
    BY DEF Init, Ahead, Reply, Behind
  <2>3. /\ Asked(<<>>, c) = {} /\ Demanded(entry, <<>>, b, c) = {}
        /\ Due(<<>>, c) = "no"
    BY DEF Asked, Demanded, Due, Promised
  <2>4. Listed(entry, c) = "no" /\ entry.dstate = "UNCACHED"
    BY DEF Init, NoEntry, Listed
  <2>5. cstate[c] = "I" /\ First(waiters[c]) = "none" /\ serving[c] = FALSE
    BY DEF Init, First
  <2>6. Fits("I", "none", FALSE, {}, "none", "none", "none", {}, "UNCACHED", "no", {}, "no")
    BY DEF Fits, GiveUps, CoreReqs, Demands
  <2>7. QED
    BY <2>1, <2>2, <2>3, <2>4, <2>5, <2>6 DEF CacheOK
<1>9. CachesOK(cstate, waiters, serving, toDir, toCache, entry, <<>>, b)
  BY <1>8 DEF CachesOK
<1>10. QED
  BY <1>3, <1>4, <1>5, <1>6, <1>7, <1>9 DEF CoherenceInv, Init

\* A step of anything else in the simulator.
LEMMA CoherenceStutter ==
  ASSUME CoherenceInv, UNCHANGED vars
  PROVE  CoherenceInv'
<1>1. /\ Pending' = Pending /\ Busy' = Busy /\ entry' = entry
      /\ next' = next /\ queue' = queue
      /\ TypeOK' /\ DataOK'
      /\ cstate' = cstate /\ waiters' = waiters /\ serving' = serving
      /\ toDir' = toDir /\ toCache' = toCache /\ toDram' = toDram /\ fromDram' = fromDram
  BY DEF vars, Pending, Busy, CoherenceInv, TypeOK, DataOK
<1>2. QED
  BY <1>1 DEF CoherenceInv

\* Every handler of both controllers keeps the invariant.
LEMMA CoherenceNext ==
  ASSUME FullMap, CoherenceInv, [Next]_vars
  PROVE  CoherenceInv'
<1>1. ASSUME NEW c \in Caches, DirFrom(c) PROVE CoherenceInv'
  BY <1>1, DirHandleReqStep, DirHandleInvRepStep, DirHandleFlushRepStep, DirHandleWbRepStep
     DEF DirFrom
<1>2. ASSUME NEW c \in Caches, CacheStep(c) PROVE CoherenceInv'
  BY <1>2, CacheHandleReplyStep, CacheServeNextStep, CacheHandleInvReqStep,
     CacheHandleFlushReqStep, CacheHandleWbReqStep DEF CacheStep
<1>3. CASE DirNext
  BY <1>3, DirNextStep
<1>4. CASE DirHandleDramReply
  BY <1>4, DirHandleDramReplyStep
<1>5. CASE DramHandle
  BY <1>5, DramHandleStep
<1>6. CASE Environment
  <2>1. CASE DirReplaceEntry
    BY <2>1, DirReplaceEntryStep
  <2>2. ASSUME NEW c \in Caches, WriteHit(c) \/ CacheEvict(c) PROVE CoherenceInv'
    BY <2>2, WriteHitStep, CacheEvictStep
  <2>3. ASSUME NEW c \in Caches, NEW a \in Accesses, Miss(c, a) PROVE CoherenceInv'
    BY <2>3, MissStep
  <2>4. QED
    BY <1>6, <2>1, <2>2, <2>3 DEF Environment
<1>7. CASE UNCHANGED vars
  BY <1>7, CoherenceStutter
<1>8. QED
  BY <1>1, <1>2, <1>3, <1>4, <1>5, <1>6, <1>7 DEF Next

\* The invariant of the protocol: at any moment, the state of the line in each
\* cache, the messages on the way to and from it, what the directory entry
\* says of it and what the request being served asks of it fit together,
\* whatever order requests, evictions and demands were handled in.
THEOREM CoherenceInvariantHolds ==
  ASSUME FullMap
  PROVE  Spec => []CoherenceInv
<1>1. CoherenceInv /\ [Next]_vars => CoherenceInv'
  BY CoherenceNext
<1>2. QED
  BY <1>1, CoherenceInit, PTL DEF Spec

\* What the invariant says of one cache.
LEMMA OneCache ==
  ASSUME CoherenceInv, NEW c \in Caches
  PROVE  /\ toDir[c] \in Seq(CacheMsgs) /\ toCache[c] \in Seq(DirMsgs)
         /\ waiters[c] \in Seq(Accesses)
         /\ InSequence(toDir[c]) /\ Inbox(toCache[c])
         /\ CacheOK(c, cstate, waiters, serving, toDir, toCache, entry, Pending, Busy)
BY DEF CoherenceInv, TypeOK, CachesOK, CacheOK

\* Every copy is listed, and one that may be written is known to be exclusive.
LEMMA CopyListed ==
  ASSUME CoherenceInv, NEW c \in Caches
  PROVE  /\ cstate[c] # "I" => c \in entry.sharers
         /\ cstate[c] \in {"E", "M"} => entry.dstate \in {"EXCLUSIVE", "MODIFIED"}
<1>1. CacheOK(c, cstate, waiters, serving, toDir, toCache, entry, Pending, Busy)
  BY OneCache
<1>2. cstate[c] # "I" => Listed(entry, c) = "yes"
  BY <1>1 DEF CacheOK, Fits
<1>3. cstate[c] \in {"E", "M"} => entry.dstate \in {"EXCLUSIVE", "MODIFIED"}
  BY <1>1 DEF CacheOK, Fits
<1>4. QED
  BY <1>2, <1>3 DEF Listed

\* The directory knows of every copy: a cache leaves the entry only when its
\* message giving up the line is handled, never when that message is sent.
THEOREM DirectoryKnows ==
  ASSUME FullMap
  PROVE  Spec => []DirectoryKnowsCopies
<1>1. ASSUME CoherenceInv PROVE DirectoryKnowsCopies
  <2>1. entry.dstate \in {"EXCLUSIVE", "MODIFIED"} => entry.sharers = {entry.owner}
    BY <1>1 DEF CoherenceInv, EntryOK
  <2>2. QED
    BY <1>1, <2>1, CopyListed DEF DirectoryKnowsCopies
<1>2. QED
  BY <1>1, CoherenceInvariantHolds, PTL

\* No two caches have the line while one of them may write it: an EX_REP or
\* UPGRADE_REP is sent only when every other copy is known to be gone.
THEOREM OneWriter ==
  ASSUME FullMap
  PROVE  Spec => []SingleWriter
<1>1. ASSUME CoherenceInv PROVE SingleWriter
  <2>1. entry.dstate \in {"EXCLUSIVE", "MODIFIED"} => entry.sharers = {entry.owner}
    BY <1>1 DEF CoherenceInv, EntryOK
  <2>2. QED
    BY <1>1, <2>1, CopyListed DEF SingleWriter
<1>2. QED
  BY <1>1, CoherenceInvariantHolds, PTL

\* The entry agrees with itself and never names more caches than it has room
\* for, so that addSharer, setOwner and getOwner do what their callers expect.
THEOREM EntryIsCorrect ==
  ASSUME FullMap
  PROVE  Spec => []EntryCorrect
<1>1. ASSUME CoherenceInv PROVE EntryCorrect
  <2>1. /\ TypeOK /\ EntryOK(entry, Pending, Busy)
    BY <1>1 DEF CoherenceInv
  <2>2. /\ entry.sharers \subseteq Caches /\ next \in BOOLEAN /\ queue \in Seq(Requests)
    BY <2>1 DEF TypeOK, Entries
  <2>3. Cardinality(entry.sharers) <= MaxHwSharers
    <3>1. /\ IsFiniteSet(entry.sharers) /\ Cardinality(entry.sharers) <= Cardinality(Caches)
          /\ Cardinality(Caches) <= MaxHwSharers /\ IsFiniteSet(Caches)
      BY <2>2, FS_Subset DEF FullMap
    <3>2. /\ Cardinality(entry.sharers) \in Nat /\ Cardinality(Caches) \in Nat
          /\ MaxHwSharers \in Nat
      BY <3>1, FS_CardinalityType, CoherenceAssumption
    <3>3. QED
      BY <3>1, <3>2
  <2>4. entry.where = "none" => entry.dstate = "UNCACHED" /\ (queue = <<>> \/ next)
    BY <2>1 DEF EntryOK, Busy
  <2>5. entry.where = "replaced" => queue # <<>> /\ Head(queue).type = "NULLIFY_REQ"
    BY <2>1, <2>2, SequenceFacts DEF EntryOK, Busy, Pending
  <2>6. QED
    BY <2>1, <2>3, <2>4, <2>5 DEF EntryCorrect, EntryConsistent, EntryOK
<1>2. QED
  BY <1>1, CoherenceInvariantHolds, PTL

\* The message a cache gives the line up with, or writes it back with.
LEMMA GivenUp ==
  ASSUME CoherenceInv, NEW c \in Caches, ~next, toDir[c] # <<>>,
         Head(toDir[c]).type \in {"INV_REP", "FLUSH_REP", "WB_REP"}
  PROVE  /\ c \in entry.sharers
         /\ Head(toDir[c]).type = "INV_REP" => entry.dstate \in {"SHARED", "EXCLUSIVE"}
         /\ Head(toDir[c]).type = "WB_REP" => queue # <<>> /\ Head(queue).type = "SH_REQ"
<1>1. /\ toDir[c] \in Seq(CacheMsgs) /\ InSequence(toDir[c])
      /\ CacheOK(c, cstate, waiters, serving, toDir, toCache, entry, Pending, Busy)
  BY OneCache
<1>2. PICK X : X = Types(toDir[c])
  OBVIOUS
<1>3. /\ Head(toDir[c]).type \in X
      /\ \A T \in X \ {Head(toDir[c]).type} : T \in Followers(Head(toDir[c]).type)
  BY <1>1, <1>2, TailTypes
<1>4. PICK dem : dem = Demanded(entry, Pending, Busy, c)
  OBVIOUS
<1>5. /\ X \cap GiveUps # {} => Listed(entry, c) = "yes"
      /\ "INV_REP" \in X => entry.dstate \in {"SHARED", "EXCLUSIVE"} \/ "WB_REP" \in X
      /\ "WB_REP" \in X => "WB_REQ" \in dem
  BY <1>1, <1>2, <1>4 DEF CacheOK, Fits
<1>6. "WB_REQ" \in dem => /\ c \in entry.sharers
                          /\ queue # <<>> /\ Pending[1].type = "SH_REQ" /\ Pending = queue
  BY <1>4 DEF Demanded, Busy, Pending
<1>7. CASE Head(toDir[c]).type = "WB_REP"
  <2>1. queue \in Seq(Requests)
    BY DEF CoherenceInv, TypeOK
  <2>2. QED
    BY <1>3, <1>5, <1>6, <1>7, <2>1, SequenceFacts
<1>8. CASE Head(toDir[c]).type \in GiveUps
  <2>1. "WB_REP" \notin X
    BY <1>3, <1>8 DEF Followers, GiveUps
  <2>2. QED
    BY <1>3, <1>5, <1>8, <2>1 DEF Listed, GiveUps
<1>9. QED
  BY <1>7, <1>8 DEF GiveUps

\* A line flushed while others still have it was shared, and is to be upgraded.
LEMMA FlushedEarly ==
  ASSUME CoherenceInv, NEW c \in Caches, ~next, toDir[c] # <<>>,
         Head(toDir[c]).type = "FLUSH_REP", entry.sharers \ {c} # {}
  PROVE  /\ entry.dstate = "SHARED"
         /\ queue # <<>> => Head(queue).type = "UPGRADE_REQ"
<1>1. /\ TypeOK /\ EntryOK(entry, Pending, Busy)
      /\ CacheOK(c, cstate, waiters, serving, toDir, toCache, entry, Pending, Busy)
  BY OneCache DEF CoherenceInv
<1>2. entry \in Entries /\ queue \in Seq(Requests)
  BY <1>1 DEF TypeOK
<1>3. PICK A : A = Pending
  OBVIOUS
<1>4. PICK b \in BOOLEAN : b = Busy
  BY DEF Busy
<1>5. c \in entry.sharers
  BY GivenUp
<1>6. /\ entry.dstate # "UNCACHED"
      /\ entry.dstate \notin {"EXCLUSIVE", "MODIFIED"}
  BY <1>1, <1>5 DEF EntryOK
<1>7. entry.dstate = "UNCACHED" => entry.sharers = {}
  BY <1>6
<1>8. CacheOK(c, cstate, waiters, serving, toDir, toCache, entry, A, b)
  BY <1>1, <1>3, <1>4
<1>9. A # <<>> /\ A[1].type = "UPGRADE_REQ"
  BY <1>1, <1>2, <1>4, <1>6, <1>7, <1>8, FlushView
<1>10. A = queue
  BY <1>3 DEF Pending
<1>11. QED
  BY <1>2, <1>6, <1>9, <1>10, SequenceFacts DEF Entries, DStates

\* The request whose data DRAM has sent, or that an owner is asked for.
LEMMA Served ==
  ASSUME CoherenceInv
  PROVE  /\ fromDram # <<>> =>
              /\ queue # <<>> /\ Head(queue).wait
              /\ Head(queue).type = "SH_REQ" => entry.dstate \in {"SHARED", "EXCLUSIVE"}
              /\ Head(queue).type \in {"EX_REQ", "UPGRADE_REQ"} => entry.dstate = "MODIFIED"
         /\ ~next /\ queue # <<>> /\ Head(queue).type = "SH_REQ" /\ ~Head(queue).wait
              /\ entry.dstate = "EXCLUSIVE" => Head(queue).requester # entry.owner
<1>1. queue \in Seq(Requests) /\ next \in BOOLEAN
  BY DEF CoherenceInv, TypeOK
<1>2. ASSUME Busy
      PROVE  /\ queue # <<>> /\ ~next /\ Pending = queue /\ Head(queue) = queue[1]
             /\ HeadOK(entry, Head(queue))
  <2>1. /\ queue # <<>> /\ ~next /\ Pending = queue /\ Head(queue) = queue[1]
    BY <1>1, <1>2, SequenceFacts DEF Busy, Pending
  <2>2. HeadOK(entry, Pending[1])
    BY <1>2 DEF CoherenceInv, QueueOK
  <2>3. QED
    BY <2>1, <2>2
<1>3. ASSUME fromDram # <<>>
      PROVE  /\ queue # <<>> /\ Head(queue).wait
             /\ Head(queue).type = "SH_REQ" => entry.dstate \in {"SHARED", "EXCLUSIVE"}
             /\ Head(queue).type \in {"EX_REQ", "UPGRADE_REQ"} => entry.dstate = "MODIFIED"
  <2>1. Busy /\ Pending[1].wait
    BY <1>3 DEF CoherenceInv, MemoryOK
  <2>2. QED
    BY <1>2, <2>1 DEF HeadOK
<1>4. ASSUME ~next, queue # <<>>, Head(queue).type = "SH_REQ", ~Head(queue).wait,
             entry.dstate = "EXCLUSIVE"
      PROVE  Head(queue).requester # entry.owner
  <2>1. HeadOK(entry, Head(queue))
    BY <1>2, <1>4 DEF Busy
  <2>2. Head(queue).requester \notin entry.sharers
    BY <1>4, <2>1 DEF HeadOK
  <2>3. entry.sharers = {entry.owner}
    BY <1>4 DEF CoherenceInv, EntryOK
  <2>4. QED
    BY <2>2, <2>3
<1>5. QED
  BY <1>3, <1>4

\* The message a cache handles next and its line.
LEMMA Delivered ==
  ASSUME CoherenceInv, NEW c \in Caches, ~serving[c], toCache[c] # <<>>
  PROVE  /\ Head(toCache[c]).type \in {"EX_REP", "SH_REP"} => cstate[c] = "I"
         /\ Head(toCache[c]).type = "UPGRADE_REP" => cstate[c] = "SU"
         /\ Head(toCache[c]).type \in Replies => waiters[c] # <<>>
         /\ Head(toCache[c]).type = "INV_REQ" => cstate[c] # "M"
<1>1. PICK Y, ds, held, dem, prom : View(c, Y, ds, held, dem, prom)
  BY CacheView
<1>2. PICK t : t = Head(toCache[c]).type
  OBVIOUS
<1>3. /\ t \in Replies \cup Demands
      /\ t \in Replies => Reply(toCache[c]) = t
      /\ t \in Demands => Ahead(toCache[c]) = t
  BY <1>1, <1>2, TailInbox DEF View
<1>4. CASE t \in Replies
  <2>1. /\ t \in {"EX_REP", "SH_REP"} => cstate[c] = "I"
        /\ t = "UPGRADE_REP" => cstate[c] = "SU"
        /\ First(waiters[c]) # "none"
    BY <1>1, <1>3, <1>4 DEF View, Fits, Replies
  <2>2. t # "INV_REQ" /\ waiters[c] # <<>>
    BY <1>4, <2>1 DEF Replies, First
  <2>3. QED
    BY <1>2, <2>1, <2>2
<1>5. CASE t \in Demands
  <2>1. t = "INV_REQ" => cstate[c] # "M"
    BY <1>1, <1>3, <1>5 DEF View, Fits, Typed
  <2>2. t \notin Replies
    BY <1>5 DEF Demands, Replies
  <2>3. QED
    BY <1>2, <2>1, <2>2 DEF Replies
<1>6. QED
  BY <1>3, <1>4, <1>5

\* What a cache whose line is being upgraded, or that is between two waiters,
\* finds at the head of its waiters.
LEMMA WaiterFinds ==
  ASSUME CoherenceInv, NEW c \in Caches
  PROVE  /\ cstate[c] = "SU" => waiters[c] # <<>> /\ Head(waiters[c]) = "W"
         /\ serving[c] => IF Head(waiters[c]) = "R" THEN Readable(cstate[c])
                                                    ELSE Writable(cstate[c])
<1>1. PICK Y, ds, held, dem, prom : View(c, Y, ds, held, dem, prom)
  BY CacheView
<1>2. PICK w : w = First(waiters[c])
  OBVIOUS
<1>3. /\ cstate[c] = "SU" => w = "W"
      /\ serving[c] => (w = "R" /\ cstate[c] \in {"S", "E", "M"}) \/ (w = "W" /\ cstate[c] = "M")
  BY <1>1, <1>2 DEF View, Fits
<1>4. w # "none" => waiters[c] # <<>> /\ w = Head(waiters[c])
  BY <1>2 DEF First
<1>5. QED
  BY <1>3, <1>4 DEF Readable, Writable

\* The assertions of both controllers hold on whatever they handle next, for
\* any number of caches and in every order their messages can cross, and the
\* forwarder MESIF asks for a shared line is one of its sharers.
THEOREM AssertionsNeverFail ==
  ASSUME FullMap
  PROVE  Spec => []ControllerAssertions
<1>1. ASSUME CoherenceInv PROVE ControllerAssertions
  <2>1. DirectoryAssertions
    BY <1>1, GivenUp, FlushedEarly, Served DEF DirectoryAssertions
  <2>2. CacheAssertions
    BY <1>1, Delivered, WaiterFinds DEF CacheAssertions, Replies
  <2>3. ForwarderUsable
    BY <1>1 DEF CoherenceInv, EntryOK, ForwarderUsable
  <2>4. QED
    BY <2>1, <2>2, <2>3 DEF ControllerAssertions
<1>2. QED
  BY <1>1, CoherenceInvariantHolds, PTL
=============================================================================
