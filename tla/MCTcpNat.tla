------------------------------- MODULE MCTcpNat -------------------------------
(***************************************************************************)
(* Instances of TcpNat for TLC.                                            *)
(***************************************************************************)
EXTENDS TcpNat

OneOut  == {"out1"}
OneIn   == {"in1"}
NoKeys  == {}

\* Constraint: when the host has sent all it may, the guest stays below what it
\* may, and the other way round.  It cuts off steps of the two peers only,
\* which no fairness asks for: every behaviour it leaves is one of the model.
FewBytes ==
    \A k \in Keys, c \in Conns :
        host[c].sent = MaxHost =>
            guest[k].nxt < guest[k].isn + MaxGuest + (IF guest[k].st = "est" THEN 1 ELSE 2)
=============================================================================
