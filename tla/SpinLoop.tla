------------------------------ MODULE SpinLoop ------------------------------
(***************************************************************************)
(* Spin-loop detection for one thread: backward branches are kept in a     *)
(* spin detection table (SDT), registers that changed in a register update *)
(* buffer (RUB).  The front end reports register writes and stores only    *)
(* while the table is not empty.                                           *)
(***************************************************************************)
EXTENDS Integers, Sequences, FiniteSets, SequencesExt

CONSTANTS SpLoops,     \* addresses of backward branches
          SpRegisters, SpValues,
          SDTMaxSize,  \* SDT_MAX_SIZE
          MaxSpIns     \* instructions

VARIABLES sp_reg,      \* the program's registers
          sp_rub,      \* m_rub: register -> [old, ids]
          sp_sdt,      \* m_sdt: [eip, id, icount] records
          sp_mask,     \* m_sdt_bitmask, as a set of ids
          sp_nextid,   \* m_sdt_nextid
          sp_icount,   \* instructions of the core
          sp_stored,   \* when the last store changed memory
          sp_quiet,    \* loops found since a register or memory last changed
          sp_last      \* the last branch of a known loop

spVars == <<sp_reg, sp_rub, sp_sdt, sp_mask, sp_nextid, sp_icount, sp_stored, sp_quiet, sp_last>>

NoBranch == [from |-> 0, stored |-> 0, spinning |-> FALSE, quiet |-> FALSE]

InCandidateSpin == sp_sdt # <<>>

Step == sp_icount < MaxSpIns /\ sp_icount' = sp_icount + 1

Ids(sdt) == {sdt[i].id : i \in DOMAIN sdt}

-----------------------------------------------------------------------------
(* commitBCT for a loop that is not in the table.                          *)
NewBCT(eip) ==
  LET all == Append(sp_sdt, [eip |-> eip, id |-> sp_nextid, icount |-> sp_icount'])
      kept == IF Len(all) > SDTMaxSize THEN Tail(all) ELSE all
  IN /\ sp_sdt' = kept /\ sp_mask' = Ids(kept)
     /\ sp_nextid' = (sp_nextid + 1) % SDTMaxSize
     /\ sp_quiet' = sp_quiet \cap {kept[i].eip : i \in DOMAIN kept}
     /\ UNCHANGED <<sp_rub, sp_last>>

(* Mutant: the bits of the loop stay in the buffer.                        *)
ResetLoopNot(id) == sp_rub
ResetLoop(id) == [r \in DOMAIN sp_rub |-> [sp_rub[r] EXCEPT !.ids = @ \ {id}]]

(* ... and for one that is: it spins if no register in the buffer carries  *)
(* its id.                                                                 *)
KnownBCT(i) ==
  LET entry == sp_sdt[i]
      spinning == \A r \in DOMAIN sp_rub : entry.id \notin sp_rub[r].ids
  IN /\ sp_rub' = ResetLoop(entry.id)
     /\ sp_sdt' = [sp_sdt EXCEPT ![i].icount = sp_icount']
     /\ sp_last' = [from |-> entry.icount, stored |-> sp_stored, spinning |-> spinning,
                    quiet |-> entry.eip \in sp_quiet]
     /\ sp_quiet' = sp_quiet \cup {entry.eip}
     /\ UNCHANGED <<sp_mask, sp_nextid>>

(* spinloopHandleBranch for a taken backward branch.                       *)
CommitBCT(eip) ==
  /\ Step
  /\ IF \E i \in DOMAIN sp_sdt : sp_sdt[i].eip = eip
       THEN KnownBCT(SelectInSeq(sp_sdt, LAMBDA e : e.eip = eip))
       ELSE NewBCT(eip)
  /\ UNCHANGED <<sp_reg, sp_stored>>

(* Mutant: the table survives the store.                                   *)
NonSilentKeepsTable == sp_rub' = <<>> /\ UNCHANGED sp_sdt

CommitNonSilentStore == sp_rub' = <<>> /\ sp_sdt' = <<>>

(* A store that changes memory; silent stores only count as instructions.  *)
Store(silent) ==
  /\ Step
  /\ IF InCandidateSpin /\ ~silent THEN CommitNonSilentStore
     ELSE UNCHANGED <<sp_rub, sp_sdt>>
  /\ sp_stored' = IF silent THEN sp_stored ELSE sp_icount'
  /\ sp_quiet' = IF silent THEN sp_quiet ELSE {}
  /\ UNCHANGED <<sp_reg, sp_mask, sp_nextid, sp_last>>

(* commitRegisterWrite.                                                    *)
CommitRegisterWrite(reg, old, value) ==
  LET entry == sp_rub[reg]
      without == [r \in DOMAIN sp_rub \ {reg} |-> sp_rub[r]]
      known == [r \in DOMAIN sp_rub \cup {reg} |->
                  IF r # reg THEN sp_rub[r]
                  ELSE IF reg \in DOMAIN sp_rub THEN [entry EXCEPT !.ids = @ \cup sp_mask]
                  ELSE [old |-> old, ids |-> sp_mask]]
  IN sp_rub' = IF reg \in DOMAIN sp_rub /\ value = entry.old THEN without
               ELSE IF value # old THEN known
               ELSE sp_rub

RegisterWrite(reg, value) ==
  /\ Step
  /\ IF InCandidateSpin THEN CommitRegisterWrite(reg, sp_reg[reg], value)
     ELSE UNCHANGED sp_rub
  /\ sp_reg' = [sp_reg EXCEPT ![reg] = value]
  /\ sp_quiet' = IF value = sp_reg[reg] THEN sp_quiet ELSE {}
  /\ UNCHANGED <<sp_sdt, sp_mask, sp_nextid, sp_stored, sp_last>>

-----------------------------------------------------------------------------
SpInit ==
  /\ sp_reg \in [SpRegisters -> SpValues]
  /\ sp_rub = <<>> /\ sp_sdt = <<>> /\ sp_mask = {} /\ sp_nextid = 0
  /\ sp_icount = 0 /\ sp_stored = 0 /\ sp_quiet = {} /\ sp_last = NoBranch

SpNext ==
  \/ \E eip \in SpLoops : CommitBCT(eip)
  \/ \E silent \in BOOLEAN : Store(silent)
  \/ \E reg \in SpRegisters, value \in SpValues : RegisterWrite(reg, value)

-----------------------------------------------------------------------------
(* Variables have the types the C++ members give them; the ids of the      *)
(* entries are different and, in a candidate spin, the mask is theirs.     *)
SpTypeOK ==
  /\ DOMAIN sp_rub \subseteq SpRegisters /\ sp_nextid \in 0 .. SDTMaxSize - 1
  /\ Len(sp_sdt) <= SDTMaxSize /\ Cardinality(Ids(sp_sdt)) = Len(sp_sdt)
  /\ InCandidateSpin => sp_mask = Ids(sp_sdt)

(* An iteration that is counted as spinning contains no store that changed *)
(* memory, although stores outside candidate spins are not looked at       *)
(* (commitNonSilentStore).                                                 *)
NoStoreInSpin == sp_last.spinning => sp_last.from >= sp_last.stored

(* A loop that has been seen twice and changes neither memory nor a        *)
(* register is counted at its next branch, whatever other loops came and   *)
(* went in the table and whoever had its id before (commitBCT).            *)
QuietLoopsSpin == sp_last.quiet => sp_last.spinning

(* Iterations counted as spinning changed no memory, and a loop that       *)
(* changes nothing is counted.                                             *)
SpinsCorrect == SpTypeOK /\ NoStoreInSpin /\ QuietLoopsSpin
=============================================================================
