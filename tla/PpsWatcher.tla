----------------------------- MODULE PpsWatcher -----------------------------
(***************************************************************************)
(* ps/internal/pps/pps.go, Watcher.run, in real time: a goroutine that a   *)
(* ticker wakes every 500 ms, that asks chrony on every fourth tick, reads *)
(* the PPS registers and publishes a ClockRef.  The PPS edges, chrony's    *)
(* answers and the time chronyc takes to give them come from outside.      *)
(*                                                                         *)
(* Time passes in units of a fraction of a second.  It passes while the    *)
(* goroutine waits for a tick or for chronyc; the rest of an iteration is  *)
(* short against a unit and takes none.                                    *)
(***************************************************************************)
EXTENDS WatcherState

CONSTANTS Second,         \* units in a second
          Poll,           \* pollInterval
          Phase,          \* when within a poll interval the ticker fires
          ChronyInterval, \* chronyInterval, in ticks
          ChronyExpiry,   \* chronyExpiry
          CheckTimeout,   \* the timeout of the chronyc command (chrony.go:39)
          TicksPerUnit,   \* FPGA ticks in a unit
          MaxTime,        \* bound of the model: how long it runs
          MaxGlitches,    \* bound of the model: spurious edges
          None

ASSUME TimeAssumption ==
  /\ {Second, Poll, ChronyInterval, ChronyExpiry, TicksPerUnit} \subseteq Nat \ {0}
  /\ Phase \in 0..(Poll - 1)
  /\ {CheckTimeout, MaxTime, MaxGlitches} \subseteq Nat
  /\ StaleAfter = 2 * Second /\ NominalTicks = Second * TicksPerUnit
  /\ MaxTime * TicksPerUnit < TickMod
  /\ None \notin Nat

(* What the constants of pps.go have to do with each other: half a second   *)
(* to a second, every fourth tick, and a sanity bound (100 us) that is less *)
(* than a unit of time.                                                     *)
ASSUME PollAssumption ==
  Poll <= Second /\ ChronyInterval > 3 /\ MaxCarryover < TicksPerUnit

VARIABLES clock,         \* true time (UTC)
          hwCount,       \* PPS_COUNT register
          hwCounter,     \* PPS_CTR registers: the counter at the last edge
          edgeTime,      \* when that edge was
          glitches,      \* spurious edges so far
          tick,          \* the ticker's channel: a time, or None
          pc,            \* "wait", "check" or "read"
          now,           \* the tick being handled
          tickCount,
          chronySynced, lastChronyOK,
          checkStart,    \* when the running or last chronyc was started
          refEdge,       \* history: when the edge of ref was
          refChecked,    \* history: chronyc ran in the iteration that saw it
          confirmedAt,   \* history: when chronyc last said it was synced
          troubleAt      \* history: when something last was not in order

envVars == <<hwCount, hwCounter, edgeTime, glitches>>
runVars == <<tick, pc, now, tickCount, chronySynced, lastChronyOK, checkStart>>
history == <<refEdge, refChecked, confirmedAt, troubleAt>>
vars == <<clock, envVars, runVars, history, watcherVars>>

TypeOK ==
  /\ WatcherTypeOK
  /\ clock \in 0..MaxTime
  /\ hwCount \in 0..(CountMod - 1)
  /\ hwCounter \in Ticks
  /\ {edgeTime, now, tickCount, lastChronyOK, checkStart, refEdge, confirmedAt,
      troubleAt} \subseteq Nat
  /\ glitches \in 0..MaxGlitches
  /\ tick \in 0..MaxTime \cup {None}
  /\ pc \in {"wait", "check", "read"}
  /\ {chronySynced, refChecked} \subseteq BOOLEAN

----------------------------------------------------------------------------

(* The watcher starts when some edges may have been counted. *)
Init ==
  /\ WatcherInit
  /\ clock = 0 /\ edgeTime = 0 /\ hwCounter = 0 /\ glitches = 0
  /\ hwCount \in {0, CountMod - 1}
  /\ tick = None /\ pc = "wait" /\ now = 0 /\ tickCount = 0
  /\ chronySynced = FALSE /\ lastChronyOK = 0 /\ checkStart = 0
  /\ refEdge = 0 /\ refChecked = FALSE /\ confirmedAt = 0 /\ troubleAt = 0

(* timestamp_counter.vhd: an edge counts and latches the counter at once. *)
PpsEdge(t) ==
  /\ hwCount' = (hwCount + 1) % CountMod
  /\ hwCounter' = t * TicksPerUnit
  /\ edgeTime' = t

(* A second may start without an edge (no GPS fix, a bad cable), and noise  *)
(* may make one within it.                                                  *)
EdgeAt(t) ==
  \/ /\ t % Second = 0
     /\ PpsEdge(t)
     /\ UNCHANGED <<glitches, troubleAt>>
  \/ /\ t % Second = 0
     /\ troubleAt' = t
     /\ UNCHANGED envVars
  \/ /\ t % Second # 0
     /\ UNCHANGED <<envVars, troubleAt>>
  \/ /\ t % Second # 0
     /\ glitches < MaxGlitches
     /\ PpsEdge(t)
     /\ glitches' = glitches + 1
     /\ troubleAt' = t

(* Time.Ticker: the channel holds one tick, and a tick that finds it full   *)
(* is dropped.                                                              *)
TickAt(t) ==
  tick' = IF t % Poll = Phase /\ tick = None THEN t ELSE tick

Pass ==
  /\ clock < MaxTime
  /\ \/ pc = "wait" /\ tick = None
     \/ pc = "check" /\ clock < checkStart + CheckTimeout
  /\ clock' = clock + 1
  /\ EdgeAt(clock')
  /\ TickAt(clock')
  /\ UNCHANGED <<pc, now, tickCount, chronySynced, lastChronyOK, checkStart,
                 refEdge, refChecked, confirmedAt, watcherVars>>

(* case now := <-ticker.C *)
TakeTick ==
  /\ pc = "wait" /\ tick # None
  /\ now' = tick
  /\ tick' = None
  /\ tickCount' = tickCount + 1
  /\ IF tickCount' = 1 \/ tickCount' % ChronyInterval = 0
     THEN pc' = "check" /\ checkStart' = clock
     ELSE pc' = "read" /\ UNCHANGED checkStart
  /\ UNCHANGED <<clock, envVars, chronySynced, lastChronyOK, history, watcherVars>>

(* Mutant: the time of the answer is kept only when it changes the cache. *)
CheckedOnChange(synced) ==
  /\ pc = "check"
  /\ clock = checkStart + CheckTimeout => ~synced
  /\ pc' = "read"
  /\ IF synced
     THEN /\ chronySynced' = TRUE
          /\ lastChronyOK' = IF chronySynced THEN lastChronyOK ELSE now
          /\ confirmedAt' = clock
     ELSE UNCHANGED <<chronySynced, lastChronyOK, confirmedAt>>
  /\ troubleAt' = IF ~synced \/ clock > checkStart + 1 THEN clock ELSE troubleAt
  /\ UNCHANGED <<clock, envVars, tick, now, tickCount, checkStart, refEdge,
                 refChecked, watcherVars>>

(* w.sync.IsSynced() returns.  An answer of no, or none in time, does not   *)
(* clear chronySynced: only its age does.                                   *)
Checked(synced) ==
  /\ pc = "check"
  /\ clock = checkStart + CheckTimeout => ~synced
  /\ pc' = "read"
  /\ IF synced
     THEN chronySynced' = TRUE /\ lastChronyOK' = now /\ confirmedAt' = clock
     ELSE UNCHANGED <<chronySynced, lastChronyOK, confirmedAt>>
  /\ troubleAt' = IF ~synced \/ clock > checkStart + 1 THEN clock ELSE troubleAt
  /\ UNCHANGED <<clock, envVars, tick, now, tickCount, checkStart, refEdge,
                 refChecked, watcherVars>>

(* Mutant: the cached answer never expires. *)
ReadWithoutExpiry ==
  /\ pc = "read"
  /\ pc' = "wait"
  /\ UNCHANGED chronySynced
  /\ Update(hwCount, hwCounter, now, chronySynced')
  /\ IF hasPrev /\ hwCount = prevCount
     THEN UNCHANGED <<refEdge, refChecked>>
     ELSE /\ refEdge' = edgeTime
          /\ refChecked' = (tickCount = 1 \/ tickCount % ChronyInterval = 0)
  /\ UNCHANGED <<clock, envVars, tick, now, tickCount, lastChronyOK, checkStart,
                 confirmedAt, troubleAt>>

(* The cached answer expires; the registers are read, stably, and the ref   *)
(* is updated and published.                                                *)
ReadAndPublish ==
  /\ pc = "read"
  /\ pc' = "wait"
  /\ chronySynced' = (chronySynced /\ now - lastChronyOK <= ChronyExpiry)
  /\ Update(hwCount, hwCounter, now, chronySynced')
  /\ IF hasPrev /\ hwCount = prevCount
     THEN UNCHANGED <<refEdge, refChecked>>
     ELSE /\ refEdge' = edgeTime
          /\ refChecked' = (tickCount = 1 \/ tickCount % ChronyInterval = 0)
  /\ UNCHANGED <<clock, envVars, tick, now, tickCount, lastChronyOK, checkStart,
                 confirmedAt, troubleAt>>

Next ==
  \/ Pass
  \/ TakeTick
  \/ \E synced \in BOOLEAN : Checked(synced)
  \/ ReadAndPublish

Spec == Init /\ [][Next]_vars

----------------------------------------------------------------------------

(* What encodeGPSTimestamp does with a synced ref: its wall-clock second is *)
(* taken for the UTC second of the edge.                                    *)
Mislabelled == ref.gpsSync /\ ref.wallUTC \div Second # refEdge \div Second

(* A synced ref labels its edge with a later second never, and with an      *)
(* earlier one only if chronyc was running between the tick and the read.   *)
MislabelNeedsCheck ==
  ref.gpsSync => /\ ref.wallUTC - refEdge < Second
                 /\ Mislabelled => refChecked /\ ref.wallUTC < refEdge

(* A synced ref is dropped in bounded time once the edges stop: two seconds *)
(* after the watcher saw the last one, plus two polls and a slow chronyc.   *)
PpsLossNoticed ==
  ref.gpsSync => clock - edgeTime < StaleAfter + 2 * Poll + CheckTimeout

(* It is dropped in bounded time once chrony stops confirming: the expiry,  *)
(* plus a poll and the chronyc calls at either end.                         *)
ChronyLossNoticed ==
  ref.gpsSync => clock - confirmedAt <= ChronyExpiry + Poll + CheckTimeout

(* Sync is gained in bounded time when all is in order: an edge every       *)
(* second, no noise, and chronyc answering yes within a unit.               *)
AcquireTime == (ChronyInterval + 1) * Poll + 2 * Second
SyncAcquired == clock - troubleAt >= AcquireTime => ref.gpsSync
=============================================================================
