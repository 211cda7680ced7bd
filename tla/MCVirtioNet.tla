----------------------------- MODULE MCVirtioNet -----------------------------
(* Constants of the VirtioNet runs. *)
EXTENDS VirtioNet, TLC

CONSTANTS v1, v2, p1

OneVcpu  == {v1}
TwoVcpus == {v1, v2}
VcpuSymmetry == Permutations({v1, v2})
OnePeer  == {p1}
NoPeers  == {}
NoFrames == {}
FirstFrame == {1}
LastFrame == {MaxTx}
==============================================================================
