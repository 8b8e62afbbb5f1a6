-------------------------- MODULE MCRadarcapeFeed --------------------------
(* Small values for RadarcapeFeed: the frames and welcomes the feeder makes. *)
EXTENDS RadarcapeFeed

CONSTANT c1

MCFrames == AllFrames
MCWelcomes == AllWelcomes
=============================================================================
