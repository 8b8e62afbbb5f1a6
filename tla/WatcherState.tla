---------------------------- MODULE WatcherState ----------------------------
(***************************************************************************)
(* ps/internal/pps/pps.go, watcherState: what the PPS watcher computes     *)
(* from one sample of the PPS registers, the wall clock and the cached     *)
(* state of chrony.                                                        *)
(*                                                                         *)
(* Counts and counters keep their width, scaled down: the PPS count is     *)
(* modulo CountMod (uint32) and the tick counter modulo TickMod (uint64,   *)
(* converted to int64 for the carryover).  Wall-clock time is in units     *)
(* fixed by the module that samples.  prevWall is never read: left out.    *)
(***************************************************************************)
EXTENDS Integers, Sequences, FiniteSetsExt

CONSTANTS CountMod,        \* 2^32
          TickMod,         \* 2^64
          NominalTicks,    \* nominalTicksPerSec
          MaxCarryover,    \* maxCarryover
          StaleAfter,      \* two seconds, in units of the wall clock
          WindowSize       \* rollingWindowSize

ASSUME WatcherAssumption ==
  /\ {CountMod, TickMod, NominalTicks, StaleAfter, WindowSize} \subseteq Nat \ {0}
  /\ MaxCarryover \in Nat
  /\ TickMod % 2 = 0 /\ 2 * NominalTicks < TickMod

VARIABLES hasPrev,         \* a sample was taken
          prevCount,       \* w.prev.Count
          prevCounter,     \* w.prev.CounterAtPps()
          lastPpsAdvance,  \* wall-clock time the count last advanced
          ref,             \* w.ref, the ClockRef
          skippedEdges,
          carryoverMin, carryoverMax,
          window, windowIdx, windowLen, carryoverSum

statVars == <<skippedEdges, carryoverMin, carryoverMax, window, windowIdx,
              windowLen, carryoverSum>>
watcherVars == <<hasPrev, prevCount, prevCounter, lastPpsAdvance, ref, statVars>>

Ticks == 0..(TickMod - 1)
Carryovers == (-(TickMod \div 2) - NominalTicks)..(TickMod \div 2)

ClockRef == [count : 0..(CountMod - 1), counterAtPps : Ticks, measured : Ticks,
             carryover : Carryovers, wallUTC : Nat, gpsSync : BOOLEAN,
             degraded : BOOLEAN]

WatcherTypeOK ==
  /\ hasPrev \in BOOLEAN
  /\ prevCount \in 0..(CountMod - 1)
  /\ prevCounter \in Ticks
  /\ lastPpsAdvance \in Nat
  /\ ref \in ClockRef
  /\ skippedEdges \in Nat
  /\ carryoverMin \in Carryovers
  /\ carryoverMax \in Carryovers
  /\ window \in [0..(WindowSize - 1) -> Carryovers]
  /\ windowIdx \in 0..(WindowSize - 1)
  /\ windowLen \in 0..WindowSize
  /\ carryoverSum \in Int

----------------------------------------------------------------------------

WatcherInit ==
  /\ hasPrev = FALSE
  /\ prevCount = 0
  /\ prevCounter = 0
  /\ lastPpsAdvance = 0
  /\ ref = [count |-> 0, counterAtPps |-> 0, measured |-> 0, carryover |-> 0,
            wallUTC |-> 0, gpsSync |-> FALSE, degraded |-> FALSE]
  /\ skippedEdges = 0
  /\ carryoverMin = 0 /\ carryoverMax = 0
  /\ window = [i \in 0..(WindowSize - 1) |-> 0]
  /\ windowIdx = 0 /\ windowLen = 0 /\ carryoverSum = 0

(* The first sample only gives later ones something to compare with. *)
FirstSample(count, counter, wall) ==
  /\ ~hasPrev
  /\ hasPrev' = TRUE
  /\ prevCount' = count
  /\ prevCounter' = counter
  /\ lastPpsAdvance' = wall
  /\ ref' = [count |-> count, counterAtPps |-> counter, measured |-> 0,
             carryover |-> 0, wallUTC |-> wall, gpsSync |-> FALSE,
             degraded |-> FALSE]
  /\ UNCHANGED statVars

(* Mutant: a poll without an edge refreshes the wall-clock time. *)
NoAdvanceRestamps(count, wall, chronySynced) ==
  /\ hasPrev
  /\ count = prevCount
  /\ ref' = [ref EXCEPT !.wallUTC = wall,
                        !.gpsSync = @ /\ wall - lastPpsAdvance <= StaleAfter
                                      /\ chronySynced]
  /\ UNCHANGED <<hasPrev, prevCount, prevCounter, lastPpsAdvance, statVars>>

(* Mutant: the age of the last edge is not looked at. *)
NoAdvanceIgnoresAge(count, wall, chronySynced) ==
  /\ hasPrev
  /\ count = prevCount
  /\ ref' = [ref EXCEPT !.gpsSync = @ /\ chronySynced]
  /\ UNCHANGED <<hasPrev, prevCount, prevCounter, lastPpsAdvance, statVars>>

(* No edge since the last sample: sync may be lost, never gained. *)
NoAdvance(count, wall, chronySynced) ==
  /\ hasPrev
  /\ count = prevCount
  /\ ref' = [ref EXCEPT !.gpsSync = @ /\ wall - lastPpsAdvance <= StaleAfter
                                    /\ chronySynced]
  /\ UNCHANGED <<hasPrev, prevCount, prevCounter, lastPpsAdvance, statVars>>

(* Mutant: the counts are subtracted as if they could not wrap. *)
CountDeltaNoWrap(count) == IF count >= prevCount THEN count - prevCount ELSE 1

(* uint32 and uint64 subtraction, and the conversion of uint64 to int64 *)
CountDelta(count) == (count - prevCount) % CountMod
TickDelta(counter) == (counter - prevCounter) % TickMod
Signed(n) == IF n < TickMod \div 2 THEN n ELSE n - TickMod

(* Mutant: the bound is checked on one side only. *)
SaneAbove(carryover) == carryover <= MaxCarryover

Sane(carryover) == carryover >= -MaxCarryover /\ carryover <= MaxCarryover

(* The rolling window: filled from 0, then overwritten oldest first. *)
RollWindow(carryover) ==
  IF windowLen < WindowSize
  THEN /\ window' = [window EXCEPT ![windowLen] = carryover]
       /\ windowLen' = windowLen + 1
       /\ carryoverSum' = carryoverSum + carryover
       /\ UNCHANGED windowIdx
  ELSE /\ window' = [window EXCEPT ![windowIdx] = carryover]
       /\ carryoverSum' = carryoverSum - window[windowIdx] + carryover
       /\ windowIdx' = (windowIdx + 1) % WindowSize
       /\ UNCHANGED windowLen

(* One edge or more since the last sample.  An interval of several edges is *)
(* averaged and marked degraded.                                            *)
Advance(count, counter, wall, chronySynced) ==
  LET delta == CountDelta(count)
      measured == TickDelta(counter) \div delta
      carryover == Signed(measured) - NominalTicks
  IN /\ hasPrev
     /\ count # prevCount
     /\ lastPpsAdvance' = wall
     /\ skippedEdges' = skippedEdges + delta - 1
     /\ carryoverMin' = IF windowLen = 0 \/ carryover < carryoverMin
                        THEN carryover ELSE carryoverMin
     /\ carryoverMax' = IF windowLen = 0 \/ carryover > carryoverMax
                        THEN carryover ELSE carryoverMax
     /\ RollWindow(carryover)
     /\ prevCount' = count
     /\ prevCounter' = counter
     /\ ref' = [count |-> count, counterAtPps |-> counter, measured |-> measured,
                carryover |-> carryover, wallUTC |-> wall,
                gpsSync |-> delta = 1 /\ Sane(carryover) /\ chronySynced,
                degraded |-> delta # 1]
     /\ UNCHANGED hasPrev

(* update: processes one PPS register snapshot *)
Update(count, counter, wall, chronySynced) ==
  \/ FirstSample(count, counter, wall)
  \/ NoAdvance(count, wall, chronySynced)
  \/ Advance(count, counter, wall, chronySynced)
=============================================================================
