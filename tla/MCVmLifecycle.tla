---------------------------- MODULE MCVmLifecycle ----------------------------
(***************************************************************************)
(* Instances of VmLifecycle for TLC.                                       *)
(***************************************************************************)
EXTENDS VmLifecycle, TLC

CONSTANTS c1, c2

OneCaller  == {c1}
TwoCallers == {c1, c2}
CallerSymmetry == Permutations(TwoCallers)
=============================================================================
