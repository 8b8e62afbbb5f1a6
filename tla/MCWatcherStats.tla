--------------------------- MODULE MCWatcherStats ---------------------------
(* Small values for WatcherStats: intervals a little and far too short or  *)
(* long.                                                                    *)
EXTENDS WatcherStats
MCJitters == {-3, -1, 0, 2}
=============================================================================
