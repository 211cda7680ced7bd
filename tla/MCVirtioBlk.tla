----------------------------- MODULE MCVirtioBlk -----------------------------
(* Constants of the VirtioBlk runs. *)
EXTENDS VirtioBlk, TLC

CONSTANTS v1, v2

TwoVcpus == {v1, v2}
VcpuSymmetry == Permutations(TwoVcpus)
Bits == {"a", "b"}

ShortBlocks == {1}

Request(type, start, n, skipped, val) ==
    [type |-> type, start |-> start, n |-> n, skipped |-> skipped, val |-> val]
Single == {Request("IN", 1, 1, 1, "a"), Request("FLUSH", 0, 1, 0, "a"), Request("BAD", 0, 0, 0, "a")}
Mixed == {Request("IN", 1, 1, 0, "a"), Request("OUT", 0, 2, 1, "b"),
          Request("OTHER", 0, 1, 0, "a"), Request("BAD", 0, 0, 0, "a")}
==============================================================================
