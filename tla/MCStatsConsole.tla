--------------------------- MODULE MCStatsConsole ---------------------------
(* Small values for StatsConsole: a few events of some kinds at a time.       *)
EXTENDS StatsConsole

MCDefaults == [f \in Settings |-> 1]

Some(messages, keys, clears, faults, restarts, posts) ==
  [messages |-> messages, keys |-> keys, clears |-> clears, faults |-> faults,
   restarts |-> restarts, posts |-> posts]

MCBudgets ==
  {Some(3, 0, 1, 1, 1, 0), Some(2, 1, 0, 1, 0, 0), Some(0, 2, 0, 1, 0, 0), Some(0, 1, 0, 0, 1, 1)}
=============================================================================
