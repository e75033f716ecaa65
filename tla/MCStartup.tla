----------------------------- MODULE MCStartup -----------------------------
(***************************************************************************)
(* Two workers on one audit database, one of them with ingress enabled.    *)
(***************************************************************************)
EXTENDS Startup

CONSTANTS p1, p2

MCProcs == {p1, p2}
MCIngressProcs == {p1}
=============================================================================
