----------------------------- MODULE MCSelfTest -----------------------------
(***************************************************************************)
(* The self-test script, and before it the pure functions the host tools   *)
(* share with it: each is called once, on every input of a small domain.   *)
(*                                                                         *)
(* Short texts have the shape of the real ones: a banner with its prefix,  *)
(* a help text with the marker inside, and leftovers of earlier sessions.  *)
(* Addresses have five bits, with all six netmasks; strings have up to     *)
(* four bytes of two values, and agree, differ and end at every position.  *)
(***************************************************************************)
EXTENDS SelfTest, HostAlgorithms

MCChars == {"8", "_", "M", "H", "CR", "e", "l", "p"}
MCPrefix == <<"8", "_">>
MCBanner == <<"8", "_", "M">>
MCCommand == <<"H", "CR">>
MCMarker == <<"e", "l">>
MCHelp == <<"H", "e", "l", "p">>
MCBacklog == {<<>>, MCBanner, <<"8">>, <<"M">>, MCBanner \o MCHelp}
MCPatterns == <<5, 10, 8008>>

HostInit == Init /\ NoCall
HostNext == NoCall /\ ((Next /\ UNCHANGED call) \/ (Init /\ Call /\ UNCHANGED vars))
HostSpec == HostInit /\ [][HostNext]_<<vars, call>>
=============================================================================
