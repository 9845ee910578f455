------------------------------- MODULE MCVM -------------------------------
(* One or two hosts, one or two VMs and up to three calls of Invoke.        *)
EXTENDS VM

CONSTANTS h1, h2, v1, v2, c1, c2, c3

OneHost == {h1}
TwoHosts == {h1, h2}
OneVM == {v1}
TwoVMs == {v1, v2}
ThreeComps == {c1, c2, c3}
=============================================================================
