---------------------------- MODULE WatcherStats ----------------------------
(***************************************************************************)
(* The statistics of ps/internal/pps/pps.go, watcherState, over any        *)
(* sequence of samples: between two samples come no edge, one or several,  *)
(* the counter and the PPS count wrap, intervals are good or bad, and      *)
(* chrony is synced or not.                                                *)
(***************************************************************************)
EXTENDS WatcherState

CONSTANTS MaxEdges,      \* bound of the model: edges between two samples
          Jitters,       \* by how many ticks edges deviate from nominal
          MaxSamples     \* bound of the model: samples taken

ASSUME StatsAssumption == /\ {MaxEdges, MaxSamples} \subseteq Nat
                          /\ MaxEdges < CountMod
                          /\ Jitters \subseteq Int
                          /\ \A j \in Jitters : NominalTicks + j >= 0

VARIABLES samples,       \* history: samples taken
          edges,         \* history: edges since the first sample
          carryovers     \* history: the carryover of every advance

sampleVars == <<samples, edges, carryovers, watcherVars>>

StatsInit ==
  /\ WatcherInit
  /\ samples = 0 /\ edges = 0 /\ carryovers = <<>>

(* The registers may hold anything when the watcher starts. *)
Start ==
  /\ \E count \in {0, CountMod - 1}, counter \in {0, TickMod - 1} :
       Update(count, counter, 0, FALSE)
  /\ samples = 0
  /\ samples' = 1
  /\ UNCHANGED <<edges, carryovers>>

(* n edges, spread over n intervals that deviate by jitter altogether. *)
Sample(n, jitter, chronySynced) ==
  /\ samples \in 1..(MaxSamples - 1)
  /\ samples' = samples + 1
  /\ Update((prevCount + n) % CountMod,
            (prevCounter + (IF n = 0 THEN 0 ELSE n * NominalTicks + jitter)) % TickMod,
            samples, chronySynced)
  /\ edges' = edges + n
  /\ carryovers' = IF n = 0 THEN carryovers
                   ELSE Append(carryovers, (n * NominalTicks + jitter) \div n - NominalTicks)

StatsNext ==
  \/ Start
  \/ \E n \in 0..MaxEdges, jitter \in Jitters, chronySynced \in BOOLEAN :
       Sample(n, jitter, chronySynced)

StatsSpec == StatsInit /\ [][StatsNext]_sampleVars

----------------------------------------------------------------------------

(* Every edge is either published in a ref of its own or counted as         *)
(* skipped, over the wrap of the 32-bit count.                              *)
EdgesAccounted == skippedEdges + Len(carryovers) = edges

(* A ref is synced only if its interval is one edge long and within the     *)
(* bound on both sides, computed over the wrap of the tick counter.         *)
SyncedIntervalIsGood ==
  ref.gpsSync => LET last == carryovers[Len(carryovers)]
                 IN ~ref.degraded /\ ref.carryover = last /\ last \in (-MaxCarryover)..MaxCarryover
=============================================================================
