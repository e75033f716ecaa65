--------------------------- MODULE MCTunnelAgent ---------------------------
(***************************************************************************)
(* Small instances of TunnelAgent.                                         *)
(***************************************************************************)
EXTENDS TunnelAgent

MCLimits == {None, 0, 1}
MCNoLimit == {None}
=============================================================================
