------------------------ MODULE MCMessageAggregator ------------------------
(* MessageAggregator for TLC: its constants are numbers, given in the cfg.  *)
EXTENDS MessageAggregator
=============================================================================
