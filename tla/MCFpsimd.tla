------------------------------ MODULE MCFpsimd ------------------------------
(* Fpsimd on one or two tasks and CPUs.                                    *)
EXTENDS Fpsimd, TLC

CONSTANTS t1, t2, c1, c2

(* Registers left by the kernel differ from zero everywhere.               *)
MCNoise == {<<1, 1>>}

(* A program that uses everything; a traced program with SVE that forks,   *)
(* and its tracer, which exits.                                            *)
Everything == [t \in Task |-> Feature]
Traced     == [t \in Task |-> IF t \in Tracer THEN {"exit"} ELSE {"sve", "fork"}]

CpuSymmetry == Permutations(CPU)
=============================================================================
