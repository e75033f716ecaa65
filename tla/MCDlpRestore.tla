---------------------------- MODULE MCDlpRestore ----------------------------
(***************************************************************************)
(* A small instance of DlpRestore: two detectors, two random parts, values *)
(* of one or two letters, and deltas that cut a token at every place, open *)
(* a bracket that never closes, or run on past the hold-back limit.        *)
(***************************************************************************)
EXTENDS DlpRestore

CONSTANTS email, phone, hex1, hex2, a, x

MCLetters == {a}
MCOthers == {x}
MCProfile == <<email, phone>>
MCHexes == {hex1, hex2}
MCDeltas ==
    {<<"[">>, <<"[", email, hex1>>, <<email>>, <<hex1>>,
     <<hex1, "]">>, <<"]">>, <<email, hex1, "]">>, <<x>>,
     <<"[", phone, hex1, "]", x, "[">>}
=============================================================================
