---------------------------- MODULE MCVirtioInput ----------------------------
(* Constants of the VirtioInput run.  One host thread stands for all: each   *)
(* holds mtx_ from its first step to its last.                               *)
EXTENDS VirtioInput

CONSTANT host

OneHost == {host}
==============================================================================
