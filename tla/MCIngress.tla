----------------------------- MODULE MCIngress -----------------------------
(***************************************************************************)
(* Small instances of Ingress: the connections of one agent that            *)
(* reconnects, and forwards that race with them.                            *)
(***************************************************************************)
EXTENDS Ingress

CONSTANTS a1, c1, c2, f1, f2, f3

MCAgents == {a1}
MCTwoConns == {c1, c2}
MCTwoForwards == {f1, f2}
MCOneForward == {f1}
MCAgentOf == [c \in Conns |-> a1]
MCTargetOf == [f \in Forwards |-> a1]
=============================================================================
