---------------------------- MODULE MCPpsWatcher ----------------------------
(* Small values for PpsWatcher: a unit of a quarter of a second, the ticker *)
(* out of phase with the seconds, eight seconds.                            *)
EXTENDS PpsWatcher

(* The statistics do not influence what is published, the count matters by  *)
(* its difference to the last one seen, and a count of ticks by its place   *)
(* in the chrony cycle: states that differ in no more are explored once.    *)
View ==
  <<clock, CountDelta(hwCount), hwCounter, edgeTime, glitches, tick, pc, now,
    tickCount <= 1, tickCount % ChronyInterval, chronySynced,
    IF chronySynced THEN lastChronyOK ELSE 0, IF pc = "check" THEN checkStart ELSE 0,
    refEdge, refChecked, confirmedAt, troubleAt, hasPrev, prevCounter,
    lastPpsAdvance, [ref EXCEPT !.count = 0]>>
=============================================================================
