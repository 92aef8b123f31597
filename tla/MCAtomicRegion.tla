-------------------------- MODULE MCAtomicRegion --------------------------
(* Small instances of AtomicRegion: programs of one or two instructions.   *)
EXTENDS AtomicRegion

(* A read-modify-write of one location: two operands.                      *)
OneInstruction == {<<Op("a", "read"), Op("a", "write")>>}

(* Two instructions that have no location in common.                       *)
TwoLocations == {<<Op("a", "write")>>, <<Op("b", "write")>>}
=============================================================================
