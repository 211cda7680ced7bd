---------------------------- MODULE MCIpcChannel ----------------------------
(* Constants of the IpcChannel runs. *)
EXTENDS IpcChannel, TLC

CONSTANTS w1, w2

OneSender  == {w1}
TwoSenders == {w1, w2}
SenderSymmetry == Permutations(TwoSenders)
ClientTalks == {"client"}
NoMessages == {}
First  == {1}
Second == {2}
Third  == {3}
==============================================================================
