-------------------------- MODULE MCAsidAllocator --------------------------
(***************************************************************************)
(* AsidAllocator for TLC: two CPUs and three usable ASIDs, the fewest that *)
(* asids_init accepts without a warning.  A process that exits makes the   *)
(* next one ask for a new ASID, so generations roll over.                  *)
(***************************************************************************)
EXTENDS AsidInvariant

CONSTANTS m1, m2, m3

Mms      == {m1, m2, m3}
Exiting  == {m3}
(* m2 has threads on both CPUs; on one of them m3 comes and goes.          *)
Shared   == [c \in CPU |-> IF c = 0 THEN {m2, m3} ELSE {m2}]
(* CPU 0 alternates between its process and the identity map.              *)
Separate == [c \in CPU |-> IF c = 0 THEN {m1} ELSE {m2, m3}]
=============================================================================
