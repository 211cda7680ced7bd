----------------------------- MODULE MCVirtioGpu -----------------------------
(* Constants of the VirtioGpu run. *)
EXTENDS VirtioGpu, TLC

CONSTANTS v1, v2

TwoVcpus == {v1, v2}
OneId    == {1}
Symmetry == Permutations(TwoVcpus)
==============================================================================
