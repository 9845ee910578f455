--------------------------- MODULE MCStackMemory ---------------------------
(* Seven pages: two guarded stacks, or a guarded one and two others, fit    *)
(* side by side and can be laid over pages freed by one another.            *)
EXTENDS StackMemory, TLC

CONSTANTS t1, t2

MCThreads == {t1, t2}

Symmetry == Permutations(MCThreads)
=============================================================================
