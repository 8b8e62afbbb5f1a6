---------------------------- MODULE MCGpsMonitor ----------------------------
(* Small values for GpsMonitor.                                              *)
EXTENDS GpsMonitor

Try(p, gen, mode, pos, isNamed, faults, errors, others, reports) ==
  [prog |-> p, gen |-> gen, mode |-> mode, pos |-> pos, named |-> isNamed,
   budget |-> [faults |-> faults, errors |-> errors, others |-> others, reports |-> reports]]

MCScenarios ==
  {Try("monitor", "F9", 1, "old", FALSE, 1, TRUE, 0, 0),
   Try("monitor", "M8", 2, "old", TRUE, 1, FALSE, 1, 0),
   Try("monitor", "F9", 2, "LLH", TRUE, 0, FALSE, 0, 1),
   Try("monitor", "unknown", 2, "old", TRUE, 1, TRUE, 0, 0),
   Try("status", "M8", 2, "old", TRUE, 1, TRUE, 0, 0),
   Try("status", "M8", 1, "old", FALSE, 1, FALSE, 0, 0)}
=============================================================================
