-------------------------- MODULE MCTlbShootdown --------------------------
(***************************************************************************)
(* TlbShootdown for TLC: two CPUs, two processes, one of which may exit.   *)
(***************************************************************************)
EXTENDS TlbShootdown

CONSTANTS m1, m2

Mms     == {m1, m2}
Exiting == {m2}
Pinned  == [c \in CPU |-> IF c = 0 THEN {m1} ELSE {m1, m2}]
=============================================================================
