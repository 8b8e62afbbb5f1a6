---------------------------- MODULE MCFeederLoop ----------------------------
(* Small values for FeederLoop: a window of two units, entries that expire  *)
(* between two messages, a buffer that holds two messages of four.         *)
EXTENDS FeederLoop

CONSTANT a1

MCTOAs == 0..MaxTime
=============================================================================
