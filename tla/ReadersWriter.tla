---------------------------- MODULE ReadersWriter ----------------------------
(***************************************************************************)
(* What a cache-set lock promises to the cache controllers: first-level    *)
(* accesses of different cores share a set, anything that touches a lower  *)
(* level of the stack has the set for itself.  This is the "Lock design"   *)
(* of CacheCntlr, stated without the mutexes that implement it.            *)
(***************************************************************************)
CONSTANT Threads                \* every thread that uses the lock

VARIABLES readers,              \* threads that may touch their own L1
          writers               \* threads that may touch the whole stack

vars == <<readers, writers>>

Init == /\ readers = {}
        /\ writers = {}

StartRead(t) == /\ writers = {}
                /\ t \notin readers
                /\ readers' = readers \cup {t}
                /\ UNCHANGED writers

EndRead(t) == /\ t \in readers
              /\ readers' = readers \ {t}
              /\ UNCHANGED writers

StartWrite(t) == /\ readers = {}
                 /\ writers = {}
                 /\ writers' = {t}
                 /\ UNCHANGED readers

EndWrite(t) == /\ writers = {t}
               /\ writers' = {}
               /\ UNCHANGED readers

\* A writer becomes a reader without letting another writer in between.
Downgrade(t) == /\ writers = {t}
                /\ writers' = {}
                /\ readers' = {t}

\* A writer hands the whole stack over to another thread.
Pass(t, u) == /\ writers = {t}
              /\ writers' = {u}
              /\ UNCHANGED readers

Next == \E t \in Threads :
           \/ StartRead(t) \/ EndRead(t)
           \/ StartWrite(t) \/ EndWrite(t)
           \/ Downgrade(t)
           \/ \E u \in Threads : Pass(t, u)

Spec == Init /\ [][Next]_vars
=============================================================================
