--------------------------- MODULE MCBeastServer ---------------------------
(* Small values for BeastServer: data and welcome frames that can be told   *)
(* apart, a channel of two frames.                                         *)
EXTENDS BeastServer

CONSTANTS a, b, d, w

MCFrames == {d, w}
MCWelcomes == {<<w>>}
=============================================================================
