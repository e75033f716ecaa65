------------------------ MODULE MCRequestLifecycle ------------------------
(***************************************************************************)
(* RequestLifecycle has no parameters: one request, and streams of every   *)
(* length, since what came before an item is in a few flags.               *)
(***************************************************************************)
EXTENDS RequestLifecycle
=============================================================================
