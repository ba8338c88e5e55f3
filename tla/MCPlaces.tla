------------------------------- MODULE MCPlaces -------------------------------
(***************************************************************************)
(* Places for TLC, for two places and a program whose regions close        *)
(* together three and four threads.                                        *)
(***************************************************************************)
EXTENDS Places

ThreeAndFour == {[policies |-> {"close"}, outer |-> {3, 4}, nested |-> {1}]}
=============================================================================
