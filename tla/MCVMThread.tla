---------------------------- MODULE MCVMThread ----------------------------
(* Two OS threads sharing two VMThreads, each started at most twice and     *)
(* yielding at most twice per activation.                                   *)
EXTENDS VMThread, TLC

CONSTANTS h1, h2, t1, t2

MCHosts == {h1, h2}
MCThreads == {t1, t2}

\* Hosts and VMThreads are interchangeable, and only safety is checked.
Symmetry == Permutations(MCHosts) \cup Permutations(MCThreads)
=============================================================================
