-------------------------- MODULE MCSyscallServer --------------------------
(* An instance of SyscallServer for TLC. *)
EXTENDS SyscallServer

(* FUTEX_WAKE_OP the way glibc uses it: clear the second word, and wake its *)
(* waiters if it was set.                                                   *)
GlibcWakeOp == {[op |-> "SET", oparg |-> 0, cmp |-> "GT", cmparg |-> 0]}
=============================================================================
