------------------------- MODULE PpsWatcher_proofs -------------------------
(***************************************************************************)
(* A synced clock reference labels its edge with the right second, and is  *)
(* dropped in bounded time once the edges or chrony's confirmations stop,  *)
(* for any phase of the ticker, any length of a chronyc call and any run.  *)
(*                                                                         *)
(* The proofs follow three times: c, when the last tick was taken, r, when *)
(* the registers were last read, and m, the tick of the last published     *)
(* reference.                                                              *)
(*                                                                         *)
(* The last part is about the statistics: the counts are right for any     *)
(* widths of the two hardware counters, any number of edges between two    *)
(* samples that is less than the count's modulus, and any number of them.  *)
(***************************************************************************)
EXTENDS PpsWatcher, WatcherStats, TLAPS

----------------------------------------------------------------------------
(* Remainders.                                                              *)

LEMMA SmallMod ==
  ASSUME NEW m \in Nat \ {0}, NEW x \in 0..(m - 1)
  PROVE  x % m = x
BY SMT

LEMMA Division ==
  ASSUME NEW m \in Nat \ {0}, NEW x \in Int
  PROVE  /\ x \div m \in Int /\ x % m \in 0..(m - 1)
         /\ x = m * (x \div m) + (x % m)
BY SMT

(* Quotient and remainder are the only numbers that divide.                 *)
LEMMA Divided ==
  ASSUME NEW m \in Nat \ {0}, NEW q \in Int, NEW p \in 0..(m - 1)
  PROVE  (m * q + p) \div m = q /\ (m * q + p) % m = p
<1> DEFINE e == m * q + p
           k == e \div m
           h == e % m
<1>1. e \in Int
  BY SMT
<1>2. k \in Int /\ h \in 0..(m - 1) /\ e = m * k + h
  BY <1>1, Division
<1> HIDE DEF k, h
<1>3. m * q + p = m * k + h
  BY <1>2
<1> HIDE DEF e
<1>4. CASE q < k
  <2>1. k >= q + 1
    BY <1>2, <1>4
  <2>2. m * k >= m * (q + 1)
    BY <1>2, <2>1
  <2>3. m * (q + 1) = m * q + m
    BY SMT
  <2>4. QED
    BY <1>2, <1>3, <2>2, <2>3
<1>5. CASE q > k
  <2>1. q >= k + 1
    BY <1>2, <1>5
  <2>2. m * q >= m * (k + 1)
    BY <1>2, <2>1
  <2>3. m * (k + 1) = m * k + m
    BY <1>2
  <2>4. QED
    BY <1>2, <1>3, <2>2, <2>3
<1>6. CASE q = k
  BY <1>2, <1>3, <1>6 DEF e, k, h
<1> QED
  BY <1>2, <1>4, <1>5, <1>6

(* Every m numbers in a row have one of each remainder.                     *)
LEMMA EveryRemainder ==
  ASSUME NEW m \in Nat \ {0}, NEW p \in 0..(m - 1), NEW c \in Nat
  PROVE  \E t \in (c + 1)..(c + m) : t % m = p
<1> DEFINE s == p - (c + 1)
           k == s \div m
           h == s % m
           t == c + 1 + h
<1>1. s \in Int
  OBVIOUS
<1>2. k \in Int /\ h \in 0..(m - 1) /\ s = m * k + h
  BY <1>1, Division
<1> HIDE DEF k, h
<1>3. t \in (c + 1)..(c + m)
  BY <1>2
<1>4. -k \in Int /\ m * (-k) = -(m * k)
  BY <1>2
<1>5. t = m * (-k) + p
  BY <1>2, <1>4
<1>6. (m * (-k) + p) % m = p
  BY <1>4, Divided
<1> QED
  BY <1>3, <1>5, <1>6

(* Two numbers a step of m apart have the same remainder.                   *)
LEMMA SameRemainder ==
  ASSUME NEW m \in Nat \ {0}, NEW x \in Int
  PROVE  (x + m) % m = x % m
<1> DEFINE k == x \div m
           h == x % m
<1>1. k \in Int /\ h \in 0..(m - 1) /\ x = m * k + h
  BY Division
<1> HIDE DEF k, h
<1>2. m * (k + 1) = m * k + m
  BY <1>1
<1>3. x + m = m * (k + 1) + h /\ k + 1 \in Int
  BY <1>1, <1>2
<1>4. (m * (k + 1) + h) % m = h
  BY <1>1, <1>3, Divided
<1> QED
  BY <1>3, <1>4 DEF h

(* A number and one less than m above it do not both divide by m.           *)
LEMMA NextMultiple ==
  ASSUME NEW m \in Nat \ {0}, NEW x \in Int, NEW d \in 1..(m - 1), x % m = 0
  PROVE  (x + d) % m = d /\ (x + d) % m # 0
<1> DEFINE k == x \div m
<1>1. k \in Int /\ x = m * k + 0
  BY Division
<1> HIDE DEF k
<1>2. x + d = m * k + d /\ d \in 0..(m - 1)
  BY <1>1
<1>3. (m * k + d) % m = d
  BY <1>1, <1>2, Divided
<1> QED
  BY <1>2, <1>3

(* Within a second of its start it is the same second.                      *)
LEMMA SameSecond ==
  ASSUME NEW m \in Nat \ {0}, NEW x \in Nat, x % m = 0, NEW w \in Nat, x <= w, w < x + m
  PROVE  w \div m = x \div m
<1> DEFINE k == x \div m
<1>1. k \in Int /\ x = m * k + 0
  BY Division
<1> HIDE DEF k
<1>2. w - x \in 0..(m - 1) /\ w = m * k + (w - x)
  BY <1>1
<1>3. (m * k + (w - x)) \div m = k
  BY <1>1, <1>2, Divided
<1> QED
  BY <1>2, <1>3 DEF k

(* What holds up to a bound holds up to a later one.                        *)
LEMMA Later ==
  ASSUME NEW x \in Int, NEW a \in Int, NEW b \in Int, NEW d \in Int, a <= b
  PROVE  (x <= a + d => x <= b + d) /\ (x < a + d => x < b + d)
OBVIOUS

(* Two counts that differ are 1..(CountMod - 1) apart.                      *)
LEMMA Apart ==
  ASSUME NEW m \in Nat \ {0}, NEW a \in 0..(m - 1), NEW b \in 0..(m - 1), a # b
  PROVE  (a - b) % m \in 1..(m - 1)
<1>1. CASE a > b
  <2>1. a - b \in 0..(m - 1)
    BY <1>1
  <2>2. (a - b) % m = a - b
    BY <2>1, SmallMod
  <2>3. QED
    BY <1>1, <2>2
<1>2. CASE a < b
  <2>1. a - b + m \in 1..(m - 1) /\ a - b \in Int
    BY <1>2
  <2>2. (a - b + m) % m = a - b + m
    BY <2>1, SmallMod
  <2>3. QED
    BY <2>1, <2>2, SameRemainder
<1> QED
  BY <1>1, <1>2

----------------------------------------------------------------------------

RefRecord == [count : Int, counterAtPps : Int, measured : Int, carryover : Int,
              wallUTC : Int, gpsSync : BOOLEAN, degraded : BOOLEAN]

PpsTypes ==
  /\ clock \in 0..MaxTime /\ glitches \in 0..MaxGlitches
  /\ hwCount \in 0..(CountMod - 1) /\ prevCount \in 0..(CountMod - 1)
  /\ hwCounter \in Nat /\ prevCounter \in Nat
  /\ edgeTime \in Nat /\ now \in Nat /\ tickCount \in Nat /\ checkStart \in Nat
  /\ lastChronyOK \in Nat /\ confirmedAt \in Nat /\ refEdge \in Nat
  /\ lastPpsAdvance \in Nat
  /\ tick \in Nat \cup {None}
  /\ pc \in {"wait", "check", "read"}
  /\ chronySynced \in BOOLEAN /\ refChecked \in BOOLEAN /\ hasPrev \in BOOLEAN
  /\ ref \in RefRecord

(* The registers and the history agree on the edges; an edge that starts no *)
(* second is spurious; an answer is not newer than the moment it came.      *)
EdgeInv ==
  /\ hwCounter = edgeTime * TicksPerUnit
  /\ hasPrev => prevCounter = refEdge * TicksPerUnit
  /\ refEdge <= edgeTime /\ edgeTime <= clock
  /\ edgeTime % Second # 0 => glitches >= 1
  /\ refEdge % Second # 0 => glitches >= 1
  /\ (refEdge < edgeTime /\ refEdge % Second # 0 /\ edgeTime % Second # 0) => glitches >= 2
  /\ confirmedAt <= clock
  /\ chronySynced => lastChronyOK <= confirmedAt

(* chronyc runs on the first tick and on every ChronyInterval-th.           *)
ChecksAt(n) == n = 1 \/ (n > 0 /\ n % ChronyInterval = 0)

(* How far the loop can lag: a tick is late only behind a chronyc call, and *)
(* neither of the next two iterations makes another.                        *)
LoopAt(c, r, m) ==
  /\ c <= clock /\ r <= clock /\ now <= c /\ c <= now + CheckTimeout
  /\ tick = None => \A t \in (c + 1)..clock : t % Poll # Phase
  /\ tick # None => c < tick /\ tick <= c + Poll /\ tick <= clock
  /\ c # now => ChecksAt(tickCount - 1)
  /\ pc = "wait" =>
       /\ m = now /\ c <= r /\ r <= c + CheckTimeout
       /\ ~ChecksAt(tickCount) => r = c
       /\ tick # None => clock \in {r, tick}
  /\ pc # "wait" =>
       /\ tickCount > 0 /\ r <= c /\ c \in {now, r} /\ now <= r + Poll
       /\ ChecksAt(tickCount) => c <= m + Poll /\ clock <= c + CheckTimeout /\ checkStart = c
       /\ ~ChecksAt(tickCount) =>
            pc = "read" /\ clock = c /\ c <= m + Poll + CheckTimeout

(* What was published fits the times, and an edge not yet seen is new.      *)
RefAt(r, m) ==
  /\ (hasPrev /\ hwCount # prevCount) => edgeTime > r
  /\ ref.gpsSync =>
       /\ hasPrev
       /\ m <= lastPpsAdvance + StaleAfter /\ m <= confirmedAt + ChronyExpiry
       /\ lastPpsAdvance < edgeTime + Poll
       /\ ref.wallUTC < refEdge + Poll
       /\ ref.wallUTC < refEdge => refChecked
       /\ MaxGlitches <= 1 => refEdge % Second = 0

PpsAt(c, r, m) == LoopAt(c, r, m) /\ RefAt(r, m)

PpsInv == PpsTypes /\ EdgeInv /\ \E c, r, m \in Nat : PpsAt(c, r, m)

LEMMA Constants ==
  /\ Second \in Nat \ {0} /\ Poll \in Nat \ {0} /\ ChronyInterval \in Nat \ {0}
  /\ ChronyExpiry \in Nat \ {0} /\ TicksPerUnit \in Nat \ {0}
  /\ Phase \in 0..(Poll - 1) /\ CheckTimeout \in Nat /\ MaxTime \in Nat /\ MaxGlitches \in Nat
  /\ StaleAfter = 2 * Second /\ NominalTicks = Second * TicksPerUnit
  /\ MaxTime * TicksPerUnit < TickMod /\ None \notin Nat
  /\ CountMod \in Nat \ {0} /\ TickMod \in Nat \ {0} /\ MaxCarryover \in Nat
  /\ TickMod % 2 = 0 /\ 2 * NominalTicks < TickMod
  /\ Poll <= Second /\ ChronyInterval > 3 /\ MaxCarryover < TicksPerUnit
BY TimeAssumption, PollAssumption, WatcherAssumption

(* The two iterations before one that calls chronyc do not call it.         *)
LEMMA ChecksAreRare ==
  ASSUME NEW n \in Nat, ChecksAt(n)
  PROVE  ~ChecksAt(n - 1) /\ ~ChecksAt(n - 2)
<1>1. CASE n = 1
  BY <1>1 DEF ChecksAt
<1>2. CASE n # 1
  <2>1. n > 0 /\ n % ChronyInterval = 0 /\ ChronyInterval \in Nat \ {0} /\ ChronyInterval > 3
    BY <1>2, Constants DEF ChecksAt
  <2>2. n >= ChronyInterval
    <3>1. CASE n < ChronyInterval
      <4>1. n \in 0..(ChronyInterval - 1)
        BY <2>1, <3>1
      <4>2. n % ChronyInterval = n
        BY <2>1, <4>1, SmallMod
      <4>3. QED
        BY <2>1, <4>2
    <3>2. QED
      BY <2>1, <3>1
  <2>3. ASSUME NEW d \in 1..2, (n - d) % ChronyInterval = 0
        PROVE  FALSE
    <3>1. d \in 1..(ChronyInterval - 1) /\ n - d \in Int /\ n - d + d = n
      BY <2>1
    <3>2. (n - d + d) % ChronyInterval # 0
      BY <2>1, <2>3, <3>1, NextMultiple
    <3>3. QED
      BY <2>1, <3>1, <3>2
  <2>4. (n - 1) % ChronyInterval # 0 /\ (n - 2) % ChronyInterval # 0
    BY <2>3
  <2>5. n - 1 # 1 /\ n - 2 # 1
    BY <2>1, <2>2
  <2>6. QED
    BY <2>4, <2>5 DEF ChecksAt
<1> QED
  BY <1>1, <1>2

LEMMA InitPpsInv == Init => PpsInv
<1> SUFFICES ASSUME Init PROVE PpsInv
  OBVIOUS
<1>1. /\ clock = 0 /\ edgeTime = 0 /\ hwCounter = 0 /\ glitches = 0
      /\ hwCount \in {0, CountMod - 1} /\ tick = None /\ pc = "wait" /\ now = 0
      /\ tickCount = 0 /\ chronySynced = FALSE /\ lastChronyOK = 0 /\ checkStart = 0
      /\ refEdge = 0 /\ refChecked = FALSE /\ confirmedAt = 0
      /\ hasPrev = FALSE /\ prevCount = 0 /\ prevCounter = 0 /\ lastPpsAdvance = 0
      /\ ref = [count |-> 0, counterAtPps |-> 0, measured |-> 0, carryover |-> 0,
                wallUTC |-> 0, gpsSync |-> FALSE, degraded |-> FALSE]
  BY DEF Init, WatcherInit
<1>2. ref \in RefRecord /\ ~ref.gpsSync
  BY <1>1 DEF RefRecord
<1>3. PpsTypes
  <2>1. hwCount \in 0..(CountMod - 1) /\ prevCount \in 0..(CountMod - 1)
    BY <1>1, Constants
  <2>2. clock \in 0..MaxTime /\ glitches \in 0..MaxGlitches
    BY <1>1, Constants
  <2>3. QED
    BY <1>1, <1>2, <2>1, <2>2 DEF PpsTypes
<1>4. 0 % Second = 0 /\ 0 * TicksPerUnit = 0
  <2>1. 0 \in 0..(Second - 1)
    BY Constants
  <2>2. QED
    BY <2>1, Constants, SmallMod
<1>5. EdgeInv
  BY <1>1, <1>4, Constants DEF EdgeInv
<1>6. LoopAt(0, 0, 0)
  BY <1>1, Constants DEF LoopAt
<1>7. RefAt(0, 0)
  BY <1>1, <1>2 DEF RefAt
<1> QED
  BY <1>3, <1>5, <1>6, <1>7 DEF PpsInv, PpsAt

LEMMA TakeTickStep ==
  ASSUME PpsTypes, EdgeInv, NEW c \in Nat, NEW r \in Nat, NEW m \in Nat, PpsAt(c, r, m),
         TakeTick, NEW x \in Nat, x = clock
  PROVE  PpsTypes' /\ EdgeInv' /\ PpsAt(x, r, m)'
<1>1. /\ pc = "wait" /\ tick # None /\ now' = tick /\ tick' = None
      /\ tickCount' = tickCount + 1
      /\ UNCHANGED <<clock, envVars, chronySynced, lastChronyOK, history, watcherVars>>
  BY DEF TakeTick
<1>2. /\ ChecksAt(tickCount') => pc' = "check" /\ checkStart' = clock
      /\ ~ChecksAt(tickCount') => pc' = "read" /\ checkStart' = checkStart
  BY <1>1 DEF TakeTick, ChecksAt, PpsTypes
<1>3. /\ clock \in Nat /\ tick \in Nat /\ now \in Nat /\ tickCount \in Nat
      /\ checkStart \in Nat /\ tickCount + 1 \in Nat
      /\ Poll \in Nat /\ CheckTimeout \in Nat
  BY <1>1, Constants DEF PpsTypes
<1>4. PpsTypes'
  BY <1>1, <1>2, <1>3 DEF PpsTypes, envVars, history, watcherVars
<1>5. EdgeInv'
  BY <1>1 DEF EdgeInv, envVars, history, watcherVars
<1>6. RefAt(r, m)'
  BY <1>1 DEF PpsAt, RefAt, envVars, history, watcherVars
<1>7. /\ c <= clock /\ r <= clock /\ c < tick /\ tick <= c + Poll /\ tick <= clock
      /\ m = now /\ c <= r /\ r <= c + CheckTimeout /\ clock \in {r, tick}
      /\ now <= c /\ c <= now + CheckTimeout
      /\ (c # now) => ChecksAt(tickCount - 1)
      /\ ~ChecksAt(tickCount) => r = c
  BY <1>1 DEF PpsAt, LoopAt
<1>8. ChecksAt(tickCount') => ~ChecksAt(tickCount) /\ ~ChecksAt(tickCount - 1)
  <2>1. tickCount + 1 - 1 = tickCount /\ tickCount + 1 - 2 = tickCount - 1
    BY <1>3
  <2>2. QED
    BY <1>1, <1>3, <2>1, ChecksAreRare
<1>9. clock # tick => ChecksAt(tickCount)
  BY <1>3, <1>7
<1>10. LoopAt(x, r, m)'
  <2>1. /\ x <= clock' /\ r <= clock' /\ now' <= x /\ x <= now' + CheckTimeout
        /\ r <= x /\ x \in {now', r} /\ now' <= r + Poll
    BY <1>1, <1>3, <1>7
  <2>2. \A t \in (x + 1)..clock' : t % Poll # Phase
    BY <1>1, <1>3
  <2>3. x # now' => ChecksAt(tickCount' - 1)
    <3>1. tickCount' - 1 = tickCount
      BY <1>1, <1>3
    <3>2. QED
      BY <1>1, <1>9, <3>1
  <2>4. ChecksAt(tickCount') => x <= m + Poll /\ clock' <= x + CheckTimeout /\ checkStart' = x
    <3> SUFFICES ASSUME ChecksAt(tickCount')
                 PROVE  x <= m + Poll /\ clock' <= x + CheckTimeout /\ checkStart' = x
      OBVIOUS
    <3>1. clock = tick /\ c = now
      BY <1>7, <1>8, <1>9
    <3>2. QED
      BY <1>1, <1>2, <1>3, <1>7, <3>1
  <2>5. ~ChecksAt(tickCount') => pc' = "read" /\ clock' = x /\ x <= m + Poll + CheckTimeout
    <3>1. x <= m + Poll + CheckTimeout
      <4>1. CASE ChecksAt(tickCount)
        <5>1. ~ChecksAt(tickCount - 1)
          BY <1>3, <4>1, ChecksAreRare
        <5>2. c = now
          BY <1>7, <5>1
        <5>3. QED
          BY <1>3, <1>7, <5>2
      <4>2. CASE ~ChecksAt(tickCount)
        BY <1>3, <1>7, <1>9, <4>2
      <4>3. QED
        BY <4>1, <4>2
    <3>2. QED
      BY <1>1, <1>2, <3>1
  <2>6. tickCount' > 0 /\ pc' # "wait" /\ tick' = None
    BY <1>1, <1>2, <1>3
  <2>7. QED
    BY <2>1, <2>2, <2>3, <2>4, <2>5, <2>6 DEF LoopAt
<1> QED
  BY <1>4, <1>5, <1>6, <1>10 DEF PpsAt

LEMMA CheckedStep ==
  ASSUME PpsTypes, EdgeInv, NEW c \in Nat, NEW r \in Nat, NEW m \in Nat, PpsAt(c, r, m),
         NEW synced \in BOOLEAN, Checked(synced)
  PROVE  PpsTypes' /\ EdgeInv' /\ PpsAt(c, r, m)'
<1>1. /\ pc = "check" /\ pc' = "read"
      /\ UNCHANGED <<clock, envVars, tick, now, tickCount, checkStart, refEdge,
                     refChecked, watcherVars>>
  BY DEF Checked
<1>2. \/ chronySynced' = TRUE /\ lastChronyOK' = now /\ confirmedAt' = clock
      \/ UNCHANGED <<chronySynced, lastChronyOK, confirmedAt>>
  BY DEF Checked
<1>3. /\ clock \in Nat /\ now \in Nat /\ confirmedAt \in Nat /\ lastChronyOK \in Nat
      /\ ChronyExpiry \in Nat /\ CheckTimeout \in Nat
  BY Constants DEF PpsTypes
<1>4. PpsTypes'
  BY <1>1, <1>2, <1>3 DEF PpsTypes, envVars, watcherVars
<1>5. now <= clock /\ confirmedAt <= clock
  <2>1. now <= c /\ c <= clock
    BY DEF PpsAt, LoopAt
  <2>2. QED
    BY <1>3, <2>1 DEF EdgeInv
<1>6. /\ confirmedAt' \in Nat /\ confirmedAt <= confirmedAt' /\ confirmedAt' <= clock
      /\ chronySynced' => lastChronyOK' <= confirmedAt'
  <2>1. chronySynced => lastChronyOK <= confirmedAt
    BY DEF EdgeInv
  <2>2. QED
    BY <1>2, <1>3, <1>5, <2>1
<1>7. EdgeInv'
  BY <1>1, <1>6 DEF EdgeInv, envVars, watcherVars
<1>8. LoopAt(c, r, m)'
  <2>1. ChecksAt(tickCount) /\ pc # "wait"
    BY <1>1 DEF PpsAt, LoopAt
  <2>2. QED
    BY <1>1, <2>1 DEF PpsAt, LoopAt
<1>9. RefAt(r, m)'
  <2>1. ASSUME m <= confirmedAt + ChronyExpiry PROVE m <= confirmedAt' + ChronyExpiry
    <3>1. /\ m \in Int /\ confirmedAt' \in Int /\ confirmedAt \in Int /\ ChronyExpiry \in Int
          /\ confirmedAt <= confirmedAt'
      BY <1>3, <1>6
    <3>2. QED
      BY <2>1, <3>1, Later
  <2>2. QED
    BY <1>1, <2>1 DEF PpsAt, RefAt, envVars, watcherVars
<1> QED
  BY <1>4, <1>7, <1>8, <1>9 DEF PpsAt

LEMMA PassStep ==
  ASSUME PpsTypes, EdgeInv, NEW c \in Nat, NEW r \in Nat, NEW m \in Nat, PpsAt(c, r, m), Pass
  PROVE  PpsTypes' /\ EdgeInv' /\ PpsAt(c, r, m)'
<1>1. /\ clock < MaxTime /\ clock' = clock + 1
      /\ (pc = "wait" /\ tick = None) \/ (pc = "check" /\ clock < checkStart + CheckTimeout)
      /\ tick' = IF clock' % Poll = Phase /\ tick = None THEN clock' ELSE tick
      /\ UNCHANGED <<pc, now, tickCount, chronySynced, lastChronyOK, checkStart,
                     refEdge, refChecked, confirmedAt, watcherVars>>
  BY DEF Pass, TickAt
<1>2. /\ clock \in Nat /\ clock + 1 \in Nat /\ clock' \in 0..MaxTime
      /\ glitches \in Nat /\ MaxGlitches \in Nat /\ glitches <= MaxGlitches
      /\ edgeTime \in Nat /\ refEdge \in Nat /\ confirmedAt \in Nat /\ checkStart \in Nat
      /\ Poll \in Nat \ {0} /\ CheckTimeout \in Nat /\ TicksPerUnit \in Nat /\ Second \in Nat \ {0}
  BY <1>1, Constants DEF PpsTypes
<1>3. \/ UNCHANGED envVars
      \/ /\ PpsEdge(clock')
         /\ glitches' \in {glitches, glitches + 1} /\ glitches' \in 0..MaxGlitches
         /\ clock' % Second # 0 => glitches' = glitches + 1
  <2>1. EdgeAt(clock')
    BY DEF Pass
  <2>2. glitches \in 0..MaxGlitches /\ (glitches < MaxGlitches => glitches + 1 \in 0..MaxGlitches)
    BY <1>2
  <2>3. CASE clock' % Second = 0 /\ PpsEdge(clock') /\ glitches' = glitches
    BY <2>2, <2>3
  <2>4. CASE UNCHANGED envVars
    BY <2>4
  <2>5. CASE glitches < MaxGlitches /\ PpsEdge(clock') /\ glitches' = glitches + 1
    BY <2>2, <2>5
  <2>6. QED
    BY <2>1, <2>3, <2>4, <2>5 DEF EdgeAt
<1>4. tick' \in Nat \cup {None}
  BY <1>1, <1>2 DEF PpsTypes
<1>5. /\ edgeTime' \in {edgeTime, clock'} /\ hwCounter' \in Nat
      /\ hwCount' \in 0..(CountMod - 1) /\ glitches' \in 0..MaxGlitches
  <2>1. CASE UNCHANGED envVars
    BY <2>1 DEF envVars, PpsTypes
  <2>2. CASE PpsEdge(clock') /\ glitches' \in 0..MaxGlitches
    <3>1. (clock + 1) * TicksPerUnit \in Nat
      BY <1>2
    <3>2. (hwCount + 1) % CountMod \in 0..(CountMod - 1)
      <4>1. hwCount + 1 \in Int /\ CountMod \in Nat \ {0}
        BY Constants DEF PpsTypes
      <4>2. QED
        BY <4>1, Division
    <3>3. QED
      BY <1>1, <2>2, <3>1, <3>2 DEF PpsEdge
  <2>3. QED
    BY <1>3, <2>1, <2>2
<1>6. PpsTypes'
  <2>1. edgeTime' \in Nat
    BY <1>1, <1>2, <1>5
  <2>2. QED
    BY <1>1, <1>2, <1>4, <1>5, <2>1 DEF PpsTypes, watcherVars
<1>7. /\ edgeTime <= clock /\ refEdge <= edgeTime /\ confirmedAt <= clock
      /\ edgeTime' <= clock' /\ edgeTime <= edgeTime' /\ edgeTime' \in Nat
  <2>1. edgeTime <= clock /\ refEdge <= edgeTime /\ confirmedAt <= clock
    BY DEF EdgeInv
  <2>2. QED
    BY <1>1, <1>2, <1>5, <2>1
<1>8. EdgeInv'
  <2>1. hwCounter' = edgeTime' * TicksPerUnit
    BY <1>3 DEF EdgeInv, PpsEdge, envVars
  <2>2. /\ edgeTime' % Second # 0 => glitches' >= 1
        /\ refEdge' % Second # 0 => glitches' >= 1
        /\ (refEdge' < edgeTime' /\ refEdge' % Second # 0 /\ edgeTime' % Second # 0) => glitches' >= 2
    <3>1. /\ edgeTime % Second # 0 => glitches >= 1
          /\ refEdge % Second # 0 => glitches >= 1
          /\ (refEdge < edgeTime /\ refEdge % Second # 0 /\ edgeTime % Second # 0) => glitches >= 2
          /\ refEdge' = refEdge
      BY <1>1 DEF EdgeInv
    <3>2. CASE UNCHANGED envVars
      BY <3>1, <3>2 DEF envVars
    <3>3. CASE /\ PpsEdge(clock')
               /\ glitches' \in {glitches, glitches + 1} /\ glitches' \in 0..MaxGlitches
               /\ clock' % Second # 0 => glitches' = glitches + 1
      <4>1. edgeTime' = clock'
        BY <3>3 DEF PpsEdge
      <4>2. edgeTime' % Second # 0 => glitches' = glitches + 1
        BY <3>3, <4>1
      <4>3. glitches' >= glitches
        BY <1>2, <3>3
      <4> HIDE <3>3
      <4>4. CASE edgeTime' % Second # 0
        <5>1. glitches' = glitches + 1
          BY <4>2, <4>4
        <5>2. glitches' >= 1 /\ (glitches >= 1 => glitches' >= 2)
          BY <1>2, <5>1
        <5>3. QED
          BY <3>1, <5>2
      <4>5. CASE edgeTime' % Second = 0
        <5>1. glitches >= 1 => glitches' >= 1
          BY <1>2, <3>3, <4>3
        <5>2. QED
          BY <3>1, <4>5, <5>1
      <4>6. QED
        BY <4>4, <4>5
    <3>4. QED
      BY <1>3, <3>2, <3>3
  <2>3. refEdge' <= edgeTime' /\ confirmedAt' <= clock'
    BY <1>1, <1>2, <1>7
  <2>4. QED
    BY <1>1, <1>7, <2>1, <2>2, <2>3 DEF EdgeInv, watcherVars
<1>9. LoopAt(c, r, m)'
  <2>1. /\ c <= clock /\ r <= clock
        /\ tick = None => \A t \in (c + 1)..clock : t % Poll # Phase
        /\ tick # None => c < tick /\ tick <= c + Poll /\ tick <= clock
    BY DEF PpsAt, LoopAt
  <2>2. c <= clock' /\ r <= clock'
    BY <1>1, <1>2, <2>1
  <2>3. tick' = None => \A t \in (c + 1)..clock' : t % Poll # Phase
    <3> SUFFICES ASSUME tick' = None PROVE \A t \in (c + 1)..clock' : t % Poll # Phase
      OBVIOUS
    <3>1. tick = None /\ clock' % Poll # Phase
      BY <1>1, <1>2, Constants
    <3>2. TAKE t \in (c + 1)..clock'
    <3>3. t = clock' \/ t \in (c + 1)..clock
      BY <1>1, <1>2, <3>2
    <3>4. QED
      BY <2>1, <3>1, <3>3
  <2>4. tick' # None => c < tick' /\ tick' <= c + Poll /\ tick' <= clock'
    <3>1. CASE tick # None
      <4>1. tick' = tick /\ tick \in Nat
        BY <1>1, <3>1 DEF PpsTypes
      <4>2. QED
        BY <1>1, <1>2, <2>1, <3>1, <4>1
    <3>2. CASE tick = None /\ tick' # None
      <4>1. tick' = clock'
        BY <1>1, <3>2
      <4>2. PICK t \in (c + 1)..(c + Poll) : t % Poll = Phase
        BY <1>2, Constants, EveryRemainder
      <4>3. ~(t \in (c + 1)..clock)
        BY <2>1, <3>2, <4>2
      <4>4. clock' <= c + Poll
        BY <1>1, <1>2, <4>2, <4>3
      <4>5. c <= clock
        BY <2>1
      <4>6. c < clock' /\ clock' <= c + Poll
        BY <1>1, <1>2, <4>4, <4>5
      <4>7. QED
        BY <1>2, <4>1, <4>6
    <3>3. QED
      BY <3>1, <3>2
  <2>5. CASE pc = "wait" /\ tick = None
    <3>1. tick' # None => clock' = tick'
      BY <1>1, <2>5
    <3>2. QED
      BY <1>1, <2>2, <2>3, <2>4, <2>5, <3>1 DEF PpsAt, LoopAt
  <2>6. CASE pc = "check" /\ clock < checkStart + CheckTimeout
    <3>1. ChecksAt(tickCount) /\ checkStart = c
      BY <2>6 DEF PpsAt, LoopAt
    <3>2. clock' <= c + CheckTimeout
      BY <1>1, <1>2, <2>6, <3>1
    <3>3. QED
      BY <1>1, <2>2, <2>3, <2>4, <2>6, <3>1, <3>2 DEF PpsAt, LoopAt
  <2>7. QED
    BY <1>1, <2>5, <2>6
<1>10. RefAt(r, m)'
  <2>1. (hasPrev' /\ hwCount' # prevCount') => edgeTime' > r
    <3>1. CASE UNCHANGED envVars
      BY <1>1, <3>1 DEF PpsAt, RefAt, envVars, watcherVars
    <3>2. CASE PpsEdge(clock')
      <4>1. r <= clock /\ edgeTime' = clock'
        BY <3>2 DEF PpsAt, LoopAt, PpsEdge
      <4>2. QED
        BY <1>1, <1>2, <4>1
    <3>3. QED
      BY <1>3, <3>1, <3>2
  <2>2. ASSUME lastPpsAdvance < edgeTime + Poll PROVE lastPpsAdvance' < edgeTime' + Poll
    <3>1. lastPpsAdvance \in Nat /\ lastPpsAdvance' = lastPpsAdvance
      BY <1>1 DEF PpsTypes, watcherVars
    <3>2. /\ edgeTime \in Int /\ edgeTime' \in Int /\ Poll \in Int /\ lastPpsAdvance \in Int
          /\ edgeTime <= edgeTime'
      BY <1>2, <1>7, <3>1
    <3>3. QED
      BY <2>2, <3>1, <3>2, Later
  <2>3. QED
    BY <1>1, <2>1, <2>2 DEF PpsAt, RefAt, watcherVars
<1> QED
  BY <1>6, <1>8, <1>9, <1>10 DEF PpsAt

(* A read that finds no edge: sync may only be lost, and is if the last edge *)
(* or the last confirmation is too old.                                      *)
NothingNew ==
  /\ hasPrev /\ hwCount = prevCount
  /\ UNCHANGED <<hasPrev, prevCount, prevCounter, lastPpsAdvance, refEdge, refChecked>>
  /\ ref'.wallUTC = ref.wallUTC
  /\ ref'.gpsSync <=> ref.gpsSync /\ chronySynced' /\ now - lastPpsAdvance <= StaleAfter

(* A read that finds an edge, or the first one.                              *)
NewEdge ==
  /\ ~(hasPrev /\ hwCount = prevCount)
  /\ hasPrev' = TRUE /\ prevCount' = hwCount /\ prevCounter' = hwCounter
  /\ lastPpsAdvance' = now /\ refEdge' = edgeTime
  /\ refChecked' = (tickCount = 1 \/ tickCount % ChronyInterval = 0)
  /\ ref'.wallUTC = now
  /\ ref'.gpsSync <=>
       /\ hasPrev /\ hwCount # prevCount /\ chronySynced'
       /\ CountDelta(hwCount) = 1 /\ Sane(Signed(TickDelta(hwCounter)) - NominalTicks)

LEMMA ReadFacts ==
  ASSUME PpsTypes, ReadAndPublish
  PROVE  /\ pc = "read" /\ pc' = "wait"
         /\ chronySynced' = (chronySynced /\ now - lastChronyOK <= ChronyExpiry)
         /\ UNCHANGED <<clock, envVars, tick, now, tickCount, lastChronyOK, checkStart, confirmedAt>>
         /\ ref' \in RefRecord
         /\ NothingNew \/ NewEdge
<1>1. /\ pc = "read" /\ pc' = "wait"
      /\ chronySynced' = (chronySynced /\ now - lastChronyOK <= ChronyExpiry)
      /\ UNCHANGED <<clock, envVars, tick, now, tickCount, lastChronyOK, checkStart, confirmedAt>>
      /\ Update(hwCount, hwCounter, now, chronySynced')
      /\ IF hasPrev /\ hwCount = prevCount
         THEN UNCHANGED <<refEdge, refChecked>>
         ELSE /\ refEdge' = edgeTime
              /\ refChecked' = (tickCount = 1 \/ tickCount % ChronyInterval = 0)
  BY DEF ReadAndPublish
<1>2. /\ hwCount \in 0..(CountMod - 1) /\ prevCount \in 0..(CountMod - 1)
      /\ CountMod \in Nat \ {0} /\ TickMod \in Nat \ {0} /\ NominalTicks \in Nat \ {0}
      /\ hwCounter \in Int /\ prevCounter \in Int /\ hwCounter - prevCounter \in Int
      /\ hwCount \in Int /\ now \in Int /\ ref \in RefRecord
  BY Constants DEF PpsTypes
<1>3. CASE FirstSample(hwCount, hwCounter, now)
  <2>1. /\ ~hasPrev /\ hasPrev' = TRUE /\ prevCount' = hwCount /\ prevCounter' = hwCounter
        /\ lastPpsAdvance' = now
        /\ ref' = [count |-> hwCount, counterAtPps |-> hwCounter, measured |-> 0,
                   carryover |-> 0, wallUTC |-> now, gpsSync |-> FALSE, degraded |-> FALSE]
    BY <1>3 DEF FirstSample
  <2>2. ref' \in RefRecord /\ ~ref'.gpsSync /\ ref'.wallUTC = now
    BY <1>2, <2>1 DEF RefRecord
  <2>3. NewEdge
    BY <1>1, <2>1, <2>2 DEF NewEdge
  <2>4. QED
    BY <1>1, <2>2, <2>3
<1>4. CASE NoAdvance(hwCount, now, chronySynced')
  <2>1. /\ hasPrev /\ hwCount = prevCount
        /\ ref' = [ref EXCEPT !.gpsSync = @ /\ now - lastPpsAdvance <= StaleAfter /\ chronySynced']
        /\ UNCHANGED <<hasPrev, prevCount, prevCounter, lastPpsAdvance>>
    BY <1>4 DEF NoAdvance
  <2>2. /\ ref' \in RefRecord /\ ref'.wallUTC = ref.wallUTC
        /\ ref'.gpsSync = (ref.gpsSync /\ now - lastPpsAdvance <= StaleAfter /\ chronySynced')
    BY <1>2, <2>1 DEF RefRecord
  <2>3. NothingNew
    BY <1>1, <2>1, <2>2 DEF NothingNew
  <2>4. QED
    BY <1>1, <2>2, <2>3
<1>5. CASE Advance(hwCount, hwCounter, now, chronySynced')
  <2> DEFINE delta     == CountDelta(hwCount)
             measured  == TickDelta(hwCounter) \div delta
             carryover == Signed(measured) - NominalTicks
  <2>1. /\ hasPrev /\ hwCount # prevCount /\ hasPrev' = hasPrev
        /\ prevCount' = hwCount /\ prevCounter' = hwCounter /\ lastPpsAdvance' = now
        /\ ref' = [count |-> hwCount, counterAtPps |-> hwCounter, measured |-> measured,
                   carryover |-> carryover, wallUTC |-> now,
                   gpsSync |-> delta = 1 /\ Sane(carryover) /\ chronySynced',
                   degraded |-> delta # 1]
    BY <1>5 DEF Advance
  <2>2. delta \in Nat \ {0}
    BY <1>2, <2>1, Apart DEF CountDelta
  <2>3. TickDelta(hwCounter) \in Int
    BY <1>2, Division DEF TickDelta
  <2>4. measured \in Int /\ (delta = 1 => measured = TickDelta(hwCounter))
    <3> DEFINE x == TickDelta(hwCounter)
    <3>1. x \in Int
      BY <2>3
    <3> HIDE DEF x, delta
    <3>2. x \div delta \in Int
      BY <2>2, <3>1, Division
    <3>3. x \div 1 = x
      BY <3>1
    <3>4. QED
      BY <3>2, <3>3 DEF x
  <2>5. carryover \in Int
    BY <1>2, <2>4 DEF Signed
  <2>6. ref'.wallUTC = now /\ ref'.gpsSync = (delta = 1 /\ Sane(carryover) /\ chronySynced')
    BY <2>1
  <2>7. ref' \in RefRecord
    <3> HIDE DEF delta, measured, carryover
    <3>1. (delta = 1 /\ Sane(carryover) /\ chronySynced') \in BOOLEAN /\ (delta # 1) \in BOOLEAN
      OBVIOUS
    <3>2. QED
      BY <1>2, <2>1, <2>4, <2>5, <3>1 DEF RefRecord
  <2>8. ref'.gpsSync <=> chronySynced' /\ delta = 1 /\ Sane(Signed(TickDelta(hwCounter)) - NominalTicks)
    <3>1. delta = 1 => carryover = Signed(TickDelta(hwCounter)) - NominalTicks
      BY <2>4
    <3> HIDE DEF delta, measured, carryover
    <3>2. QED
      BY <2>6, <3>1
  <2>9. NewEdge
    <3>1. QED
      BY <1>1, <2>1, <2>6, <2>8 DEF NewEdge
  <2>10. QED
    BY <1>1, <2>7, <2>9
<1> QED
  BY <1>1, <1>3, <1>4, <1>5 DEF Update

(* The counter at an edge fits its width: the difference of two is exact, and *)
(* an interval within the sanity bound is a second long.                      *)
LEMMA SaneIsASecond ==
  ASSUME NEW a \in 0..MaxTime, NEW b \in 0..a, NEW n \in Int,
         n = (a * TicksPerUnit - b * TicksPerUnit) % TickMod,
         Sane(Signed(n) - NominalTicks)
  PROVE  a = b + Second
<1> DEFINE d == a - b
<1>1. /\ TicksPerUnit \in Nat \ {0} /\ MaxTime \in Nat /\ TickMod \in Nat \ {0}
      /\ Second \in Nat \ {0} /\ MaxCarryover \in Nat /\ MaxCarryover < TicksPerUnit
      /\ MaxTime * TicksPerUnit < TickMod /\ NominalTicks = Second * TicksPerUnit
  BY Constants
<1>2. d \in 0..MaxTime /\ a \in Nat /\ b \in Nat /\ a = b + d
  BY <1>1
<1>3. a * TicksPerUnit - b * TicksPerUnit = d * TicksPerUnit
  BY <1>1, <1>2
<1> HIDE DEF d
<1>4. d * TicksPerUnit \in 0..(TickMod - 1)
  <2>1. d * TicksPerUnit <= MaxTime * TicksPerUnit /\ d * TicksPerUnit \in Nat
    BY <1>1, <1>2
  <2>2. MaxTime * TicksPerUnit \in Nat
    BY <1>1
  <2>3. QED
    BY <1>1, <2>1, <2>2
<1>5. n = d * TicksPerUnit
  BY <1>1, <1>3, <1>4, SmallMod
<1>6. /\ Signed(n) \in {n, n - TickMod} /\ NominalTicks \in Nat /\ NominalTicks >= TicksPerUnit
      /\ Signed(n) >= NominalTicks - MaxCarryover /\ Signed(n) <= NominalTicks + MaxCarryover
  <2>1. Signed(n) \in {n, n - TickMod}
    BY DEF Signed
  <2>2. NominalTicks \in Nat /\ NominalTicks >= TicksPerUnit
    BY <1>1
  <2>3. Signed(n) \in Int
    BY <1>1, <2>1
  <2>4. Signed(n) - NominalTicks >= -MaxCarryover /\ Signed(n) - NominalTicks <= MaxCarryover
    BY DEF Sane
  <2>5. QED
    BY <1>1, <2>1, <2>2, <2>3, <2>4
<1>7. n < NominalTicks + TicksPerUnit /\ n > NominalTicks - TicksPerUnit
  <2>1. n \in 0..(TickMod - 1)
    BY <1>4, <1>5
  <2>2. Signed(n) = n
    BY <1>1, <1>6, <2>1
  <2>3. QED
    BY <1>1, <1>6, <2>1, <2>2
<1>8. ~(d > Second)
  <2> SUFFICES ASSUME d > Second PROVE FALSE
    OBVIOUS
  <2>1. d >= Second + 1
    BY <1>1, <1>2
  <2>2. d * TicksPerUnit >= (Second + 1) * TicksPerUnit
    BY <1>1, <1>2, <2>1
  <2>3. (Second + 1) * TicksPerUnit = NominalTicks + TicksPerUnit
    BY <1>1
  <2>4. QED
    BY <1>1, <1>4, <1>5, <1>6, <1>7, <2>2, <2>3
<1>9. ~(d < Second)
  <2> SUFFICES ASSUME d < Second PROVE FALSE
    OBVIOUS
  <2>1. Second >= d + 1
    BY <1>1, <1>2
  <2>2. Second * TicksPerUnit >= (d + 1) * TicksPerUnit
    BY <1>1, <1>2, <2>1
  <2>3. (d + 1) * TicksPerUnit = d * TicksPerUnit + TicksPerUnit
    BY <1>1, <1>2
  <2>4. QED
    BY <1>1, <1>4, <1>5, <1>6, <1>7, <2>2, <2>3
<1> QED
  BY <1>1, <1>2, <1>8, <1>9

LEMMA ReadStep ==
  ASSUME PpsTypes, EdgeInv, NEW c \in Nat, NEW r \in Nat, NEW m \in Nat, PpsAt(c, r, m),
         ReadAndPublish, NEW x \in Nat, x = clock, NEW y \in Nat, y = now
  PROVE  PpsTypes' /\ EdgeInv' /\ PpsAt(c, x, y)'
<1>1. /\ pc = "read" /\ pc' = "wait"
      /\ chronySynced' = (chronySynced /\ now - lastChronyOK <= ChronyExpiry)
      /\ clock' = clock /\ hwCount' = hwCount /\ hwCounter' = hwCounter
      /\ edgeTime' = edgeTime /\ glitches' = glitches
      /\ tick' = tick /\ now' = now /\ tickCount' = tickCount
      /\ lastChronyOK' = lastChronyOK /\ checkStart' = checkStart
      /\ confirmedAt' = confirmedAt
      /\ ref' \in RefRecord
  BY ReadFacts DEF envVars
<1>2. NothingNew \/ NewEdge
  BY ReadFacts
<1>3. PpsTypes'
  <2>1. chronySynced' \in BOOLEAN
    BY <1>1
  <2>2. CASE NothingNew
    BY <1>1, <2>1, <2>2 DEF PpsTypes, NothingNew
  <2>3. CASE NewEdge
    BY <1>1, <2>1, <2>3 DEF PpsTypes, NewEdge
  <2>4. QED
    BY <1>2, <2>2, <2>3
<1>4. EdgeInv'
  <2>1. CASE NothingNew
    BY <1>1, <2>1 DEF EdgeInv, NothingNew
  <2>2. CASE NewEdge
    <3>1. ~(edgeTime < edgeTime) /\ edgeTime <= edgeTime
      BY DEF PpsTypes
    <3>2. QED
      BY <1>1, <2>2, <3>1 DEF EdgeInv, NewEdge
  <2>3. QED
    BY <1>2, <2>1, <2>2
<1>5. /\ clock \in Nat /\ now \in Nat /\ edgeTime \in Nat /\ confirmedAt \in Nat
      /\ lastChronyOK \in Nat /\ lastPpsAdvance \in Nat
      /\ Poll \in Nat \ {0} /\ CheckTimeout \in Nat /\ ChronyExpiry \in Nat /\ StaleAfter \in Nat
  BY Constants DEF PpsTypes
<1>6. /\ c <= clock /\ r <= clock /\ now <= c /\ c <= now + CheckTimeout
      /\ r <= c /\ c \in {now, r} /\ now <= r + Poll
      /\ ChecksAt(tickCount) => clock <= c + CheckTimeout
      /\ ~ChecksAt(tickCount) => clock = c
      /\ tickCount > 0
  BY <1>1 DEF PpsAt, LoopAt
<1>7. LoopAt(c, x, y)'
  <2>1. tick # None => clock \in {x, tick}
    OBVIOUS
  <2>2. x <= clock' /\ y = now' /\ c <= x /\ x <= c + CheckTimeout /\ (~ChecksAt(tickCount') => x = c)
    BY <1>1, <1>5, <1>6
  <2>3. QED
    BY <1>1, <2>1, <2>2 DEF PpsAt, LoopAt
<1>8. chronySynced' => y <= confirmedAt + ChronyExpiry
  <2> SUFFICES ASSUME chronySynced' PROVE y <= confirmedAt + ChronyExpiry
    OBVIOUS
  <2>1. now - lastChronyOK <= ChronyExpiry /\ lastChronyOK <= confirmedAt
    BY <1>1 DEF EdgeInv
  <2>2. QED
    BY <1>5, <2>1
<1>9. (hasPrev' /\ hwCount' # prevCount') => edgeTime' > x
  BY <1>1, <1>2 DEF NothingNew, NewEdge
<1>10. CASE NothingNew
  <2>1. (ref'.gpsSync => ref.gpsSync /\ chronySynced' /\ now - lastPpsAdvance <= StaleAfter)
    BY <1>10 DEF NothingNew
  <2>2. now - lastPpsAdvance <= StaleAfter => y <= lastPpsAdvance + StaleAfter
    BY <1>5
  <2>3. /\ UNCHANGED <<hasPrev, lastPpsAdvance, refEdge, refChecked>>
        /\ ref'.wallUTC = ref.wallUTC
    BY <1>10 DEF NothingNew
  <2>4. ref.gpsSync =>
          /\ hasPrev /\ lastPpsAdvance < edgeTime + Poll
          /\ ref.wallUTC < refEdge + Poll
          /\ ref.wallUTC < refEdge => refChecked
          /\ MaxGlitches <= 1 => refEdge % Second = 0
    BY DEF PpsAt, RefAt
  <2>5. RefAt(x, y)'
    BY <1>1, <1>8, <1>9, <2>1, <2>2, <2>3, <2>4 DEF RefAt
  <2>6. QED
    BY <1>3, <1>4, <1>7, <2>5 DEF PpsAt
<1>11. CASE NewEdge
  <2>1. /\ hasPrev' = TRUE /\ lastPpsAdvance' = now /\ refEdge' = edgeTime /\ ref'.wallUTC = now
        /\ refChecked' = (tickCount = 1 \/ tickCount % ChronyInterval = 0)
        /\ ref'.gpsSync => hasPrev /\ hwCount # prevCount /\ chronySynced'
    BY <1>11 DEF NewEdge
  <2>2. (hasPrev /\ hwCount # prevCount) => edgeTime > r
    BY DEF PpsAt, RefAt
  <2>3. edgeTime > r => now < edgeTime + Poll
    BY <1>5, <1>6
  <2>4. (edgeTime > r /\ now < edgeTime) => refChecked'
    <3> SUFFICES ASSUME edgeTime > r, now < edgeTime PROVE refChecked'
      OBVIOUS
    <3>1. edgeTime <= clock
      BY DEF EdgeInv
    <3>2. ChecksAt(tickCount)
      BY <1>5, <1>6, <3>1
    <3>3. QED
      BY <2>1, <3>2 DEF ChecksAt
  <2>5. ref'.gpsSync /\ MaxGlitches <= 1 => edgeTime % Second = 0
    <3> SUFFICES ASSUME ref'.gpsSync, MaxGlitches <= 1, edgeTime % Second # 0 PROVE FALSE
      OBVIOUS
    <3> DEFINE n == TickDelta(hwCounter)
    <3>1. Sane(Signed(n) - NominalTicks)
      BY <1>11 DEF NewEdge
    <3>2. n \in Int /\ n = (edgeTime * TicksPerUnit - refEdge * TicksPerUnit) % TickMod
      <4>1. hasPrev /\ n = (hwCounter - prevCounter) % TickMod
        BY <2>1 DEF TickDelta
      <4>2. hwCounter - prevCounter \in Int /\ TickMod \in Nat \ {0}
        BY Constants DEF PpsTypes
      <4>3. n \in Int
        BY <4>1, <4>2, Division
      <4>4. QED
        BY <4>1, <4>3 DEF EdgeInv
    <3> HIDE DEF n
    <3>3. edgeTime \in 0..MaxTime /\ refEdge \in 0..edgeTime
      <4>1. /\ refEdge <= edgeTime /\ edgeTime <= clock /\ clock \in 0..MaxTime
            /\ refEdge \in Nat /\ MaxTime \in Nat
        BY Constants DEF EdgeInv, PpsTypes
      <4>2. QED
        BY <1>5, <4>1
    <3>4. edgeTime = refEdge + Second
      BY <3>1, <3>2, <3>3, SaneIsASecond
    <3>5. Second \in Nat \ {0} /\ refEdge \in Int
      BY Constants DEF PpsTypes
    <3>6. refEdge % Second # 0 /\ refEdge < edgeTime
      <4>1. (refEdge + Second) % Second = refEdge % Second
        BY <3>5, SameRemainder
      <4>2. QED
        BY <1>5, <3>4, <3>5, <4>1
    <3>7. glitches >= 2
      BY <3>6 DEF EdgeInv
    <3>8. glitches \in 0..MaxGlitches /\ MaxGlitches \in Nat
      BY Constants DEF PpsTypes
    <3>9. QED
      BY <3>7, <3>8
  <2>6. RefAt(x, y)'
    <3>1. ref'.gpsSync => y <= lastPpsAdvance' + StaleAfter
      BY <1>5, <2>1
    <3>2. QED
      BY <1>1, <1>8, <1>9, <2>1, <2>2, <2>3, <2>4, <2>5, <3>1 DEF RefAt
  <2>7. QED
    BY <1>3, <1>4, <1>7, <2>6 DEF PpsAt
<1> QED
  BY <1>2, <1>10, <1>11

LEMMA NextPpsInv == PpsInv /\ [Next]_vars => PpsInv'
<1> SUFFICES ASSUME PpsInv, [Next]_vars PROVE PpsInv'
  OBVIOUS
<1>1. PICK c \in Nat, r \in Nat, m \in Nat : PpsAt(c, r, m)
  BY DEF PpsInv
<1>2. PpsTypes /\ EdgeInv
  BY DEF PpsInv
<1>3. PICK x \in Nat, y \in Nat : x = clock /\ y = now
  BY <1>2 DEF PpsTypes
<1>4. CASE Pass
  <2>1. PpsTypes' /\ EdgeInv' /\ PpsAt(c, r, m)'
    BY <1>1, <1>2, <1>4, PassStep
  <2>2. QED
    BY <2>1 DEF PpsInv
<1>5. CASE TakeTick
  <2>1. PpsTypes' /\ EdgeInv' /\ PpsAt(x, r, m)'
    BY <1>1, <1>2, <1>3, <1>5, TakeTickStep
  <2>2. QED
    BY <2>1 DEF PpsInv
<1>6. ASSUME NEW synced \in BOOLEAN, Checked(synced) PROVE PpsInv'
  <2>1. PpsTypes' /\ EdgeInv' /\ PpsAt(c, r, m)'
    BY <1>1, <1>2, <1>6, CheckedStep
  <2>2. QED
    BY <2>1 DEF PpsInv
<1>7. CASE ReadAndPublish
  <2>1. PpsTypes' /\ EdgeInv' /\ PpsAt(c, x, y)'
    BY <1>1, <1>2, <1>3, <1>7, ReadStep
  <2>2. QED
    BY <2>1 DEF PpsInv
<1>8. CASE UNCHANGED vars
  BY <1>8 DEF vars, envVars, runVars, history, watcherVars, PpsInv, PpsTypes, EdgeInv, PpsAt,
              LoopAt, RefAt
<1> QED
  BY <1>4, <1>5, <1>6, <1>7, <1>8 DEF Next

LEMMA AlwaysPpsInv == Spec => []PpsInv
BY InitPpsInv, NextPpsInv, PTL DEF Spec

(* The loop is never further behind what it published than a poll and a      *)
(* chronyc call.                                                             *)
LEMMA LoopKeepsUp ==
  ASSUME PpsTypes, NEW c \in Nat, NEW r \in Nat, NEW m \in Nat, LoopAt(c, r, m)
  PROVE  clock <= m + Poll + CheckTimeout
<1>1. /\ clock \in Nat /\ now \in Nat /\ Poll \in Nat \ {0} /\ CheckTimeout \in Nat
      /\ Phase \in 0..(Poll - 1)
  BY Constants DEF PpsTypes
<1>2. /\ c <= clock /\ r <= clock /\ now <= c /\ c <= now + CheckTimeout
      /\ tick # None => tick \in Nat /\ tick <= c + Poll
      /\ (c # now) => ChecksAt(tickCount - 1)
  BY DEF LoopAt, PpsTypes
<1>3. CASE pc = "wait"
  <2>1. m = now /\ r <= c + CheckTimeout /\ (~ChecksAt(tickCount) => r = c)
    BY <1>3 DEF LoopAt
  <2>2. CASE tick = None
    <3>1. PICK t \in (c + 1)..(c + Poll) : t % Poll = Phase
      BY <1>1, EveryRemainder
    <3>2. ~(t \in (c + 1)..clock)
      BY <2>2, <3>1 DEF LoopAt
    <3>3. clock <= c + Poll
      BY <1>1, <3>1, <3>2
    <3>4. QED
      BY <1>1, <1>2, <2>1, <3>3
  <2>3. CASE tick # None
    <3>1. clock \in {r, tick}
      BY <1>3, <2>3 DEF LoopAt
    <3>2. CASE clock = tick
      BY <1>1, <1>2, <2>1, <2>3, <3>2
    <3>3. CASE clock = r /\ ChecksAt(tickCount)
      <4>1. ~ChecksAt(tickCount - 1)
        BY <3>3, ChecksAreRare DEF PpsTypes
      <4>2. QED
        BY <1>1, <1>2, <2>1, <3>3, <4>1
    <3>4. CASE clock = r /\ ~ChecksAt(tickCount)
      BY <1>1, <1>2, <2>1, <3>4
    <3>5. QED
      BY <3>1, <3>2, <3>3, <3>4
  <2>4. QED
    BY <2>2, <2>3
<1>4. CASE pc # "wait"
  <2>1. /\ ChecksAt(tickCount) => c <= m + Poll /\ clock <= c + CheckTimeout
        /\ ~ChecksAt(tickCount) => clock = c /\ c <= m + Poll + CheckTimeout
    BY <1>4 DEF LoopAt
  <2>2. QED
    BY <1>1, <2>1
<1> QED
  BY <1>3, <1>4

(* A synced ref is dropped at most two seconds, two polls and a chronyc call *)
(* after the last edge, wherever in the loop the edges stop (pps.go, run and *)
(* update).                                                                  *)
THEOREM SyncEndsWithoutEdges == Spec => []PpsLossNoticed
<1>1. PpsInv => PpsLossNoticed
  <2> SUFFICES ASSUME PpsInv, ref.gpsSync
               PROVE  clock - edgeTime < StaleAfter + 2 * Poll + CheckTimeout
    BY DEF PpsLossNoticed
  <2>1. PICK c \in Nat, r \in Nat, m \in Nat : PpsAt(c, r, m)
    BY DEF PpsInv
  <2>2. /\ clock \in Nat /\ edgeTime \in Nat /\ lastPpsAdvance \in Nat
        /\ StaleAfter \in Nat /\ Poll \in Nat /\ CheckTimeout \in Nat
    BY Constants DEF PpsInv, PpsTypes
  <2>3. m <= lastPpsAdvance + StaleAfter /\ lastPpsAdvance < edgeTime + Poll
    BY <2>1 DEF PpsAt, RefAt
  <2>4. clock <= m + Poll + CheckTimeout
    BY <2>1, LoopKeepsUp DEF PpsInv, PpsAt
  <2>5. QED
    BY <2>2, <2>3, <2>4
<1> QED
  BY AlwaysPpsInv, <1>1, PTL

(* A synced ref is dropped at most the expiry, a poll and a chronyc call     *)
(* after chrony's last confirmation (pps.go, run).                           *)
THEOREM SyncEndsWithoutChrony == Spec => []ChronyLossNoticed
<1>1. PpsInv => ChronyLossNoticed
  <2> SUFFICES ASSUME PpsInv, ref.gpsSync
               PROVE  clock - confirmedAt <= ChronyExpiry + Poll + CheckTimeout
    BY DEF ChronyLossNoticed
  <2>1. PICK c \in Nat, r \in Nat, m \in Nat : PpsAt(c, r, m)
    BY DEF PpsInv
  <2>2. /\ clock \in Nat /\ confirmedAt \in Nat
        /\ ChronyExpiry \in Nat /\ Poll \in Nat /\ CheckTimeout \in Nat
    BY Constants DEF PpsInv, PpsTypes
  <2>3. m <= confirmedAt + ChronyExpiry
    BY <2>1 DEF PpsAt, RefAt
  <2>4. clock <= m + Poll + CheckTimeout
    BY <2>1, LoopKeepsUp DEF PpsInv, PpsAt
  <2>5. QED
    BY <2>2, <2>3, <2>4
<1> QED
  BY AlwaysPpsInv, <1>1, PTL

(* A synced ref never labels its edge with a later second, and with an       *)
(* earlier one only if chronyc ran between the tick and the read, as long as *)
(* at most one edge is spurious: two of them a second apart are a label for  *)
(* an edge that starts no second (pps.go, run and update; encoder.go,        *)
(* encodeGPSTimestamp).                                                      *)
THEOREM LabelsAreRight == ASSUME MaxGlitches <= 1 PROVE Spec => []MislabelNeedsCheck
<1>1. PpsInv => MislabelNeedsCheck
  <2> SUFFICES ASSUME PpsInv, ref.gpsSync
               PROVE  /\ ref.wallUTC - refEdge < Second
                      /\ Mislabelled => refChecked /\ ref.wallUTC < refEdge
    BY DEF MislabelNeedsCheck
  <2>1. PICK c \in Nat, r \in Nat, m \in Nat : PpsAt(c, r, m)
    BY DEF PpsInv
  <2>2. /\ refEdge \in Nat /\ ref.wallUTC \in Int
        /\ Second \in Nat \ {0} /\ Poll \in Nat /\ Poll <= Second
    BY Constants DEF PpsInv, PpsTypes, RefRecord
  <2>3. /\ ref.wallUTC < refEdge + Poll /\ refEdge % Second = 0
        /\ ref.wallUTC < refEdge => refChecked
    BY <2>1 DEF PpsAt, RefAt
  <2> DEFINE w == ref.wallUTC
  <2>4. w \in Int /\ w < refEdge + Poll
    BY <2>2, <2>3
  <2>5. w >= refEdge => w \div Second = refEdge \div Second
    <3> HIDE DEF w
    <3> SUFFICES ASSUME w >= refEdge PROVE w \div Second = refEdge \div Second
      OBVIOUS
    <3>1. w \in Nat /\ refEdge <= w /\ w < refEdge + Second
      BY <2>2, <2>4
    <3>2. QED
      BY <2>2, <2>3, <3>1, SameSecond
  <2>6. w < refEdge \/ w >= refEdge
    <3> HIDE DEF w
    <3>1. QED
      BY <2>2, <2>4
  <2>7. w - refEdge < Second
    <3> HIDE DEF w
    <3>1. QED
      BY <2>2, <2>4
  <2>8. QED
    BY <2>3, <2>5, <2>6, <2>7 DEF Mislabelled
<1> QED
  BY AlwaysPpsInv, <1>1, PTL

----------------------------------------------------------------------------
(* Sync is gained.  Further numbers are followed: d, the edges since the last *)
(* read; s, the iteration in which there was trouble last; k, the iteration   *)
(* of the last confirmation since, or s; and q, the time of the read before   *)
(* that one.                                                                  *)

(* When the second of t began.                                               *)
SecondOf(t) == t - (t % Second)

LEMMA SecondIs ==
  ASSUME NEW t \in Nat
  PROVE  /\ SecondOf(t) \in Nat /\ SecondOf(t) <= t /\ t < SecondOf(t) + Second
         /\ \E i \in Nat : SecondOf(t) = Second * i
<1>1. Second \in Nat \ {0}
  BY Constants
<1> DEFINE i == t \div Second
           p == t % Second
<1>2. i \in Int /\ p \in 0..(Second - 1) /\ t = Second * i + p
  BY <1>1, Division
<1>3. i \in Nat
  BY <1>1
<1>4. SecondOf(t) = t - p
  BY DEF SecondOf
<1> HIDE DEF i, p
<1>5. Second * i \in Nat
  BY <1>1, <1>3
<1>6. SecondOf(t) = Second * i
  BY <1>2, <1>4, <1>5
<1>7. SecondOf(t) \in Nat /\ SecondOf(t) <= t /\ t < SecondOf(t) + Second
  BY <1>1, <1>2, <1>5, <1>6
<1> QED
  BY <1>3, <1>6, <1>7

(* Seconds follow each other by Second.                                      *)
LEMMA SecondsApart ==
  ASSUME NEW a \in Nat, NEW b \in Nat, a <= b
  PROVE  SecondOf(b) = SecondOf(a) \/ SecondOf(b) >= SecondOf(a) + Second
<1>1. Second \in Nat \ {0}
  BY Constants
<1>2. PICK i \in Nat : SecondOf(a) = Second * i
  BY SecondIs
<1>3. PICK j \in Nat : SecondOf(b) = Second * j
  BY SecondIs
<1>4. SecondOf(a) \in Nat /\ SecondOf(b) \in Nat /\ SecondOf(a) <= a /\ b < SecondOf(b) + Second
  BY SecondIs
<1>5. CASE j < i
  <2>1. i >= j + 1
    BY <1>5
  <2>2. Second * i >= Second * (j + 1)
    BY <1>1, <2>1
  <2>3. Second * (j + 1) = Second * j + Second
    BY <1>1
  <2>4. QED
    BY <1>1, <1>2, <1>3, <1>4, <2>2, <2>3
<1>6. CASE j > i
  <2>1. j >= i + 1
    BY <1>6
  <2>2. Second * j >= Second * (i + 1)
    BY <1>1, <2>1
  <2>3. Second * (i + 1) = Second * i + Second
    BY <1>1
  <2>4. QED
    BY <1>1, <1>2, <1>3, <1>4, <2>2, <2>3
<1>7. CASE i = j
  BY <1>2, <1>3, <1>7
<1> QED
  BY <1>5, <1>6, <1>7

LEMMA NextSecond ==
  ASSUME NEW t \in Nat
  PROVE  /\ (t + 1) % Second = 0 => SecondOf(t + 1) = t + 1 /\ SecondOf(t + 1) = SecondOf(t) + Second
         /\ (t + 1) % Second # 0 => SecondOf(t + 1) = SecondOf(t)
<1>1. Second \in Nat \ {0}
  BY Constants
<1> DEFINE u == t + 1
           h == u % Second
<1>2. h \in 0..(Second - 1) /\ u \in Nat
  BY <1>1, Division
<1>3. SecondOf(u) = u - h
  BY DEF SecondOf
<1>4. SecondOf(t) \in Nat /\ SecondOf(t) <= t /\ t < SecondOf(t) + Second
  BY SecondIs
<1>5. SecondOf(u) = SecondOf(t) \/ SecondOf(u) >= SecondOf(t) + Second
  <2>1. t <= u
    OBVIOUS
  <2>2. QED
    BY <1>2, <2>1, SecondsApart
<1> HIDE DEF h
<1>6. CASE h = 0
  <2>1. SecondOf(u) = u
    BY <1>2, <1>3, <1>6
  <2>2. u > SecondOf(t) /\ u <= SecondOf(t) + Second
    BY <1>1, <1>4
  <2> HIDE DEF u
  <2>3. SecondOf(u) = SecondOf(t) + Second
    BY <1>1, <1>2, <1>4, <1>5, <2>1, <2>2
  <2>4. QED
    BY <1>6, <2>1, <2>3 DEF u, h
<1>7. CASE h # 0
  <2>1. SecondOf(u) < u /\ SecondOf(u) \in Int
    BY <1>1, <1>2, <1>3, <1>7
  <2>2. u <= SecondOf(t) + Second
    BY <1>1, <1>4
  <2> HIDE DEF u
  <2>3. SecondOf(u) = SecondOf(t)
    BY <1>1, <1>2, <1>4, <1>5, <2>1, <2>2
  <2>4. QED
    BY <1>7, <2>3 DEF u, h
<1> QED
  BY <1>6, <1>7

(* Multiples do not change a remainder.                                      *)
LEMMA PlusMultiple ==
  ASSUME NEW m \in Nat \ {0}, NEW i \in Int, NEW x \in Int
  PROVE  (m * i + x) % m = x % m
<1> DEFINE k == x \div m
           h == x % m
<1>1. k \in Int /\ h \in 0..(m - 1) /\ x = m * k + h
  BY Division
<1> HIDE DEF k, h
<1>2. m * (i + k) = m * i + m * k /\ i + k \in Int
  BY <1>1
<1>3. m * i + x = m * (i + k) + h
  BY <1>1, <1>2
<1>4. (m * (i + k) + h) % m = h
  BY <1>1, <1>2, Divided
<1> QED
  BY <1>3, <1>4 DEF h

(* Counting on, over a wrap.                                                 *)
LEMMA CountOn ==
  ASSUME NEW m \in Nat \ {0}, NEW x \in Int
  PROVE  ((x % m) + 1) % m = (x + 1) % m
<1> DEFINE k == x \div m
           h == x % m
<1>1. k \in Int /\ h \in 0..(m - 1) /\ x = m * k + h
  BY Division
<1> HIDE DEF k, h
<1>2. x + 1 = m * k + (h + 1) /\ h + 1 \in Int
  BY <1>1
<1>3. (m * k + (h + 1)) % m = (h + 1) % m
  BY <1>1, <1>2, PlusMultiple
<1> QED
  BY <1>2, <1>3 DEF h

LEMMA CountBack ==
  ASSUME NEW m \in Nat \ {0}, NEW a \in 0..(m - 1), NEW d \in 0..(m - 1)
  PROVE  /\ (((a + d) % m) - a) % m = d
         /\ (a + d) % m = a => d = 0
<1> DEFINE k == (a + d) \div m
           h == (a + d) % m
<1>1. k \in Int /\ h \in 0..(m - 1) /\ a + d = m * k + h
  BY Division
<1> HIDE DEF k, h
<1>2. -k \in Int /\ m * (-k) = -(m * k) /\ d \in Int
  BY <1>1
<1>3. h - a = m * (-k) + d
  BY <1>1, <1>2
<1>4. (m * (-k) + d) % m = d % m
  BY <1>2, PlusMultiple
<1>5. d % m = d
  BY SmallMod
<1>6. (h - a) % m = d
  BY <1>3, <1>4, <1>5
<1>7. h = a => d = 0
  <2> SUFFICES ASSUME h = a PROVE d = 0
    OBVIOUS
  <2>1. h - a = 0 /\ 0 \in 0..(m - 1)
    BY <1>1
  <2>2. QED
    BY <1>6, <2>1, SmallMod
<1> QED
  BY <1>6, <1>7 DEF h

(* Equal remainders are a multiple apart.                                    *)
LEMMA NextTick ==
  ASSUME NEW m \in Nat \ {0}, NEW a \in Nat, NEW b \in Nat, a % m = b % m, a < b
  PROVE  b >= a + m
<1> SUFFICES ASSUME b < a + m PROVE FALSE
  OBVIOUS
<1> DEFINE i == a \div m
           j == b \div m
           h == a % m
<1>1. i \in Int /\ h \in 0..(m - 1) /\ a = m * i + h
  BY Division
<1>2. j \in Int /\ b = m * j + h
  BY Division
<1> HIDE DEF i, j, h
<1>3. m * i < m * j /\ m * j < m * i + m
  BY <1>1, <1>2
<1>4. CASE j <= i
  <2>1. m * j <= m * i
    BY <1>1, <1>2, <1>4
  <2>2. QED
    BY <1>1, <1>2, <1>3, <2>1
<1>5. CASE j > i
  <2>1. j >= i + 1
    BY <1>1, <1>2, <1>5
  <2>2. m * j >= m * (i + 1)
    BY <1>1, <1>2, <2>1
  <2>3. m * (i + 1) = m * i + m
    BY <1>1
  <2>4. QED
    BY <1>1, <1>2, <1>3, <2>2, <2>3
<1> QED
  BY <1>1, <1>2, <1>4, <1>5

(* The constants of the code: a poll is longer than a unit and shorter than a *)
(* second, chronyc is run every other second at least and may take as long,   *)
(* the expiry is longer than that, and the PPS count does not wrap in a poll. *)
Prompt ==
  /\ 1 < Poll /\ Poll < Second /\ Poll + 1 < CountMod
  /\ Second <= (ChronyInterval - 2) * Poll
  /\ CheckTimeout <= ChronyInterval * Poll /\ CheckTimeout <= 2 * Second
  /\ (ChronyInterval - 1) * Poll <= ChronyExpiry

(* After trouble every second has its edge, and what was read is up to date.  *)
EdgesAt(r, d) ==
  /\ troubleAt \in Nat /\ troubleAt <= clock
  /\ SecondOf(clock) > troubleAt => edgeTime = SecondOf(clock)
  /\ SecondOf(r) > troubleAt => refEdge = SecondOf(r) /\ lastPpsAdvance >= refEdge - 1
  /\ ~hasPrev => r = 0
  /\ hasPrev =>
       /\ d <= clock - r /\ hwCount = (prevCount + d) % CountMod
       /\ edgeTime > r => d >= 1
       /\ troubleAt <= r => d * Second = SecondOf(clock) - SecondOf(r)

(* After trouble there is an iteration every poll interval, and no lag.       *)
TicksAt(c, r, s) ==
  /\ s <= tickCount /\ c <= troubleAt + (tickCount - s) * Poll
  /\ tickCount > s => troubleAt <= c
  /\ tick # None => tick % Poll = Phase
  /\ tickCount > 0 => now % Poll = Phase
  /\ c # now => troubleAt >= c
  /\ pc = "wait" => r <= c + 1 \/ r <= troubleAt
  /\ pc = "read" => clock <= c + 1 \/ clock = troubleAt

(* The last iteration whose chronyc call, if any, is over                     *)
LastDone == IF pc = "check" THEN tickCount - 1 ELSE tickCount

(* After a confirmation the cached answer is fresh, and sync is on but while  *)
(* the second after the trouble, or the edge after the confirmation, is due.  *)
ConfirmedAt(c, r, s, k, q) ==
  /\ s <= k /\ k <= tickCount
  /\ \A j \in (k + 1)..LastDone : ~ChecksAt(j)
  /\ k > s =>
       /\ k <= LastDone /\ ChecksAt(k) /\ chronySynced
       /\ c <= lastChronyOK + (tickCount - k) * Poll
       /\ q + (tickCount - k) * Poll <= now
       /\ ~ref.gpsSync =>
            \/ SecondOf(r) <= troubleAt + Second
            \/ SecondOf(r) <= q /\ q <= troubleAt + ChronyInterval * Poll

SyncAt(c, r) ==
  /\ \E d \in Nat : EdgesAt(r, d)
  /\ \E s, k, q \in Nat : TicksAt(c, r, s) /\ ConfirmedAt(c, r, s, k, q)

SyncInv == PpsTypes /\ EdgeInv /\ \E c, r, m \in Nat : PpsAt(c, r, m) /\ SyncAt(c, r)

(* Of ChronyInterval iterations one runs chronyc.                            *)
LEMMA ChecksCome ==
  ASSUME NEW s \in Nat
  PROVE  \E j \in (s + 1)..(s + ChronyInterval) : ChecksAt(j)
<1>1. ChronyInterval \in Nat \ {0} /\ 0 \in 0..(ChronyInterval - 1)
  BY Constants
<1>2. PICK j \in (s + 1)..(s + ChronyInterval) : j % ChronyInterval = 0
  BY <1>1, EveryRemainder
<1>3. j > 0
  BY <1>1
<1> QED
  BY <1>2, <1>3 DEF ChecksAt

(* Two that do are ChronyInterval - 1 apart at least.                        *)
LEMMA ChecksApart ==
  ASSUME NEW k \in Nat, NEW n \in Nat, k < n, ChecksAt(k), ChecksAt(n)
  PROVE  n >= k + (ChronyInterval - 1)
<1>1. ChronyInterval \in Nat \ {0} /\ ChronyInterval > 3
  BY Constants
<1>2. k >= 1 /\ n > 1 /\ n % ChronyInterval = 0
  BY DEF ChecksAt
<1>3. 0 \in 0..(ChronyInterval - 1) /\ 0 % ChronyInterval = 0
  BY <1>1, SmallMod
<1>4. CASE k = 1
  <2>1. n >= 0 + ChronyInterval
    <3>1. 0 % ChronyInterval = n % ChronyInterval /\ 0 < n /\ 0 \in Nat
      BY <1>2, <1>3
    <3>2. QED
      BY <1>1, <3>1, NextTick
  <2>2. QED
    BY <1>1, <1>4, <2>1
<1>5. CASE k # 1
  <2>1. k % ChronyInterval = 0
    BY <1>5 DEF ChecksAt
  <2>2. n >= k + ChronyInterval
    BY <1>1, <1>2, <2>1, NextTick
  <2>3. QED
    BY <1>1, <2>2
<1> QED
  BY <1>4, <1>5

(* A poll interval more for every iteration more                             *)
LEMMA Intervals ==
  ASSUME NEW i \in Int, NEW j \in Int
  PROVE  /\ i * Poll \in Int /\ j * Poll \in Int
         /\ (i + 1) * Poll = i * Poll + Poll
         /\ i <= j => i * Poll <= j * Poll
         /\ 0 * Poll = 0 /\ 1 * Poll = Poll
<1>1. Poll \in Nat
  BY Constants
<1>2. i <= j => i * Poll <= j * Poll
  BY <1>1
<1>3. (i + 1) * Poll = i * Poll + Poll
  BY <1>1
<1> QED
  BY <1>1, <1>2, <1>3

LEMMA InitSyncInv == Init => SyncInv
<1> SUFFICES ASSUME Init PROVE SyncInv
  OBVIOUS
<1>1. PpsInv
  BY InitPpsInv
<1>2. /\ clock = 0 /\ edgeTime = 0 /\ tick = None /\ pc = "wait" /\ now = 0
      /\ tickCount = 0 /\ refEdge = 0 /\ troubleAt = 0
      /\ hasPrev = FALSE
  BY DEF Init, WatcherInit
<1>3. SecondOf(0) = 0
  <2>1. SecondOf(0) \in Nat /\ SecondOf(0) <= 0
    BY SecondIs
  <2>2. QED
    BY <2>1
<1>4. EdgesAt(0, 0)
  BY <1>2, <1>3 DEF EdgesAt
<1>5. TicksAt(0, 0, 0)
  <2>1. 0 - 0 = 0 /\ 0 * Poll = 0
    BY Intervals
  <2>2. QED
    BY <1>2, <2>1 DEF TicksAt
<1>6. ConfirmedAt(0, 0, 0, 0, 0)
  BY <1>2 DEF ConfirmedAt, LastDone
<1>7. LoopAt(0, 0, 0)
  BY <1>2, Constants DEF LoopAt
<1>8. RefAt(0, 0)
  <2>1. ~ref.gpsSync
    BY DEF Init, WatcherInit
  <2>2. QED
    BY <1>2, <2>1 DEF RefAt
<1> QED
  BY <1>1, <1>4, <1>5, <1>6, <1>7, <1>8 DEF SyncInv, SyncAt, PpsInv, PpsAt

(* Trouble in this moment: the count of iterations begins anew.              *)
LEMMA TroubleNow ==
  ASSUME NEW c \in Nat, NEW r \in Nat, NEW s \in Nat, TicksAt(c, r, s),
         PpsTypes, PpsTypes', c <= clock', r <= clock', tickCount' = tickCount, now' = now,
         troubleAt' = clock', pc' = pc \/ pc' = "read",
         tick' # None => tick' % Poll = Phase
  PROVE  \E t, k, q \in Nat : TicksAt(c, r, t)' /\ ConfirmedAt(c, r, t, k, q)'
<1>1. PICK n \in Nat : n = tickCount'
  BY DEF PpsTypes
<1>2. /\ clock' \in Nat /\ n - n = 0 /\ 0 * Poll = 0 /\ tickCount = n
  BY <1>1, Constants, Intervals DEF PpsTypes
<1>3. c <= troubleAt' + (tickCount' - n) * Poll
  BY <1>1, <1>2
<1>4. now' % Poll = Phase \/ tickCount' = 0
  BY <1>1, <1>2 DEF TicksAt, PpsTypes
<1>5. TicksAt(c, r, n)'
  BY <1>1, <1>2, <1>3, <1>4 DEF TicksAt
<1>6. \A j \in (n + 1)..LastDone' : ~ChecksAt(j)
  <2>1. LastDone' <= n /\ LastDone' \in Int
    BY <1>1, <1>2 DEF LastDone
  <2>2. QED
    BY <2>1
<1>7. ConfirmedAt(c, r, n, n, 0)'
  BY <1>1, <1>6 DEF ConfirmedAt
<1> QED
  BY <1>5, <1>7

LEMMA PassSync ==
  ASSUME PpsTypes, PpsTypes', EdgeInv, NEW c \in Nat, NEW r \in Nat, NEW m \in Nat, PpsAt(c, r, m),
         SyncAt(c, r), Pass
  PROVE  SyncAt(c, r)'
<1>1. /\ clock' = clock + 1
      /\ (pc = "wait" /\ tick = None) \/ (pc = "check" /\ clock < checkStart + CheckTimeout)
      /\ tick' = IF clock' % Poll = Phase /\ tick = None THEN clock' ELSE tick
      /\ UNCHANGED <<pc, now, tickCount, chronySynced, lastChronyOK, refEdge, watcherVars>>
  BY DEF Pass, TickAt
<1>2. /\ clock \in Nat /\ clock' \in Nat /\ edgeTime \in Nat /\ clock <= clock'
      /\ c <= clock /\ r <= clock /\ c <= clock' /\ r < clock'
      /\ edgeTime <= clock
      /\ CountMod \in Nat \ {0} /\ Second \in Nat \ {0} /\ prevCount \in Int
  <2>1. c <= clock /\ r <= clock /\ edgeTime <= clock
    BY DEF PpsAt, LoopAt, EdgeInv
  <2>2. clock \in Nat /\ edgeTime \in Nat /\ prevCount \in Int
    BY Constants DEF PpsTypes
  <2>3. QED
    BY <1>1, <2>1, <2>2, Constants
<1>3. PICK d \in Nat : EdgesAt(r, d)
  BY DEF SyncAt
<1>4. PICK s \in Nat, k \in Nat, q \in Nat : TicksAt(c, r, s) /\ ConfirmedAt(c, r, s, k, q)
  BY DEF SyncAt
<1>5. /\ SecondOf(clock) \in Nat /\ SecondOf(clock) <= clock /\ SecondOf(clock') \in Nat
      /\ SecondOf(clock') <= clock'
      /\ SecondOf(r) \in Nat /\ SecondOf(r) <= r
      /\ clock' % Second = 0 => SecondOf(clock') = clock' /\ SecondOf(clock') = SecondOf(clock) + Second
      /\ clock' % Second # 0 => SecondOf(clock') = SecondOf(clock)
  BY <1>1, <1>2, SecondIs, NextSecond
<1>6. tick' # None => tick' % Poll = Phase
  BY <1>1, <1>4 DEF TicksAt
<1>7. troubleAt \in Nat /\ troubleAt <= clock
  BY <1>3 DEF EdgesAt
<1>8. EdgeAt(clock')
  BY DEF Pass
<1>9. ASSUME troubleAt' = clock'
      PROVE  \E t, i, p \in Nat : TicksAt(c, r, t)' /\ ConfirmedAt(c, r, t, i, p)'
  <2>1. r <= clock'
    BY <1>2
  <2>2. QED
    BY <1>1, <1>2, <1>4, <1>6, <1>9, <2>1, TroubleNow
<1>10. ASSUME troubleAt' = troubleAt
       PROVE  \E t, i, p \in Nat : TicksAt(c, r, t)' /\ ConfirmedAt(c, r, t, i, p)'
  <2>1. TicksAt(c, r, s)'
    <3>1. pc # "read"
      BY <1>1
    <3>2. QED
      BY <1>1, <1>4, <1>6, <1>10, <3>1 DEF TicksAt
  <2>2. ConfirmedAt(c, r, s, k, q)'
    BY <1>1, <1>4, <1>10 DEF ConfirmedAt, LastDone, watcherVars
  <2>3. QED
    BY <2>1, <2>2
<1>11. hasPrev => /\ (prevCount + d) % CountMod = hwCount
                  /\ (hwCount + 1) % CountMod = (prevCount + (d + 1)) % CountMod
  <2>1. (((prevCount + d) % CountMod) + 1) % CountMod = (prevCount + d + 1) % CountMod
    <3>1. prevCount + d \in Int
      BY <1>2
    <3>2. QED
      BY <1>2, <3>1, CountOn
  <2>2. prevCount + d + 1 = prevCount + (d + 1)
    BY <1>2
  <2>3. QED
    BY <1>3, <2>1, <2>2 DEF EdgesAt
<1>12. /\ SecondOf(clock) > troubleAt => edgeTime = SecondOf(clock)
       /\ SecondOf(r) > troubleAt => refEdge = SecondOf(r) /\ lastPpsAdvance >= refEdge - 1
       /\ ~hasPrev => r = 0
       /\ hasPrev => /\ d <= clock - r /\ (edgeTime > r => d >= 1)
                     /\ troubleAt <= r => d * Second = SecondOf(clock) - SecondOf(r)
  BY <1>3 DEF EdgesAt
<1>13. /\ hasPrev' = hasPrev /\ prevCount' = prevCount /\ refEdge' = refEdge
       /\ lastPpsAdvance' = lastPpsAdvance
  BY <1>1 DEF watcherVars
<1>19. SecondOf(clock)' = SecondOf(clock') /\ SecondOf(r)' = SecondOf(r)
  BY DEF SecondOf
<1>14. d <= clock - r => d <= clock' - r /\ d + 1 <= clock' - r
  BY <1>1, <1>2
<1>20. ASSUME NEW e \in Nat, e \in {d, d + 1},
              hasPrev => hwCount' = (prevCount + e) % CountMod,
              SecondOf(clock') > troubleAt' => edgeTime' = SecondOf(clock'),
              edgeTime' # edgeTime => e = d + 1,
              \/ troubleAt' = clock'
              \/ /\ troubleAt' = troubleAt
                 /\ d * Second = SecondOf(clock) - SecondOf(r) =>
                      e * Second = SecondOf(clock') - SecondOf(r)
       PROVE  SyncAt(c, r)'
  <2>0. troubleAt' = clock' \/ troubleAt' = troubleAt
    BY <1>20, Zenon
  <2>1. troubleAt' \in Nat /\ troubleAt' <= clock'
    <3>1. troubleAt <= clock'
      BY <1>1, <1>2, <1>7
    <3>2. clock' <= clock'
      BY <1>2
    <3>3. QED
      BY <1>2, <1>7, <2>0, <3>1, <3>2
  <2>2. SecondOf(r) > troubleAt' => troubleAt' = troubleAt
    <3>1. ~(SecondOf(r) > clock')
      BY <1>1, <1>2, <1>5
    <3>2. QED
      BY <2>0, <3>1
  <2>3. SecondOf(r) > troubleAt' => refEdge' = SecondOf(r) /\ lastPpsAdvance' >= refEdge' - 1
    BY <1>12, <1>13, <2>2
  <2>4. hasPrev => e <= clock' - r
    BY <1>12, <1>14, <1>20
  <2>5. hasPrev => (edgeTime' > r => e >= 1)
    <3>1. CASE edgeTime' = edgeTime
      <4>1. e >= d
        BY <1>20
      <4>2. QED
        BY <1>12, <3>1, <4>1
    <3>2. CASE edgeTime' # edgeTime
      BY <1>20, <3>2
    <3>3. QED
      BY <3>1, <3>2
  <2>6. hasPrev => (troubleAt' <= r => e * Second = SecondOf(clock') - SecondOf(r))
    <3>1. ~(clock' <= r)
      BY <1>1, <1>2
    <3>2. CASE troubleAt' = clock'
      BY <3>1, <3>2
    <3>3. CASE /\ troubleAt' = troubleAt
               /\ d * Second = SecondOf(clock) - SecondOf(r) => e * Second = SecondOf(clock') - SecondOf(r)
      BY <1>12, <3>3
    <3>4. QED
      BY <1>20, <3>2, <3>3, Zenon
  <2>7. EdgesAt(r, e)'
    BY <1>12, <1>13, <1>19, <1>20, <2>1, <2>3, <2>4, <2>5, <2>6 DEF EdgesAt
  <2>8. \E t, i, p \in Nat : TicksAt(c, r, t)' /\ ConfirmedAt(c, r, t, i, p)'
    BY <1>9, <1>10, <2>0
  <2>9. QED
    BY <1>20, <2>7, <2>8 DEF SyncAt
<1>15. CASE clock' % Second = 0 /\ PpsEdge(clock') /\ UNCHANGED <<glitches, troubleAt>>
  <2>1. troubleAt' = troubleAt /\ edgeTime' = clock' /\ hwCount' = (hwCount + 1) % CountMod
    BY <1>15 DEF PpsEdge
  <2>2. SecondOf(clock') = clock' /\ SecondOf(clock') = SecondOf(clock) + Second
    BY <1>5, <1>15
  <2>3. d * Second = SecondOf(clock) - SecondOf(r) => (d + 1) * Second = SecondOf(clock') - SecondOf(r)
    <3> SUFFICES ASSUME d * Second = SecondOf(clock) - SecondOf(r)
                 PROVE  (d + 1) * Second = SecondOf(clock') - SecondOf(r)
      OBVIOUS
    <3>1. (d + 1) * Second = d * Second + Second
      BY <1>2
    <3>2. (d + 1) * Second = SecondOf(clock) - SecondOf(r) + Second
      BY <3>1
    <3>3. QED
      BY <1>2, <1>5, <2>2, <3>2
  <2>4. d + 1 \in Nat /\ (hasPrev => hwCount' = (prevCount + (d + 1)) % CountMod)
    BY <1>11, <2>1
  <2>5. QED
    BY <1>20, <2>1, <2>2, <2>3, <2>4, Zenon
<1>16. CASE clock' % Second = 0 /\ troubleAt' = clock' /\ UNCHANGED envVars
  <2>1. edgeTime' = edgeTime /\ hwCount' = hwCount
    BY <1>16 DEF envVars
  <2>2. ~(SecondOf(clock') > troubleAt') /\ troubleAt' = clock'
    BY <1>2, <1>5, <1>16
  <2>3. hasPrev => hwCount' = (prevCount + d) % CountMod
    BY <1>11, <2>1
  <2>4. d \in Nat /\ d \in {d, d + 1}
    BY <1>3
  <2>5. QED
    BY <1>20, <2>1, <2>2, <2>3, <2>4, Zenon
<1>17. CASE clock' % Second # 0 /\ UNCHANGED <<envVars, troubleAt>>
  <2>1. edgeTime' = edgeTime /\ hwCount' = hwCount /\ troubleAt' = troubleAt
    BY <1>17 DEF envVars
  <2>2. SecondOf(clock') = SecondOf(clock)
    BY <1>5, <1>17
  <2>3. QED
    <3>1. d * Second = SecondOf(clock) - SecondOf(r) => d * Second = SecondOf(clock') - SecondOf(r)
      BY <2>2
    <3>2. SecondOf(clock') > troubleAt' => edgeTime' = SecondOf(clock')
      BY <1>12, <2>1, <2>2
    <3>3. hasPrev => hwCount' = (prevCount + d) % CountMod
      BY <1>11, <2>1
    <3>4. QED
      BY <1>20, <2>1, <3>1, <3>2, <3>3, Zenon
<1>18. CASE clock' % Second # 0 /\ PpsEdge(clock') /\ troubleAt' = clock'
  <2>1. edgeTime' = clock' /\ hwCount' = (hwCount + 1) % CountMod
    BY <1>18 DEF PpsEdge
  <2>2. ~(SecondOf(clock') > troubleAt') /\ troubleAt' = clock'
    BY <1>2, <1>5, <1>18
  <2>3. d + 1 \in Nat /\ (hasPrev => hwCount' = (prevCount + (d + 1)) % CountMod)
    BY <1>11, <2>1
  <2>4. d + 1 \in {d, d + 1} /\ d + 1 = d + 1
    OBVIOUS
  <2>5. QED
    BY <1>20, <2>1, <2>2, <2>3, <2>4, Zenon
<1> QED
  BY <1>8, <1>15, <1>16, <1>17, <1>18 DEF EdgeAt

LEMMA TakeTickSync ==
  ASSUME Prompt, PpsTypes, NEW c \in Nat, NEW r \in Nat, NEW m \in Nat, PpsAt(c, r, m),
         SyncAt(c, r), TakeTick, NEW x \in Nat, x = clock
  PROVE  SyncAt(x, r)'
<1>1. /\ pc = "wait" /\ tick # None /\ now' = tick /\ tick' = None
      /\ tickCount' = tickCount + 1
      /\ UNCHANGED <<clock, envVars, chronySynced, lastChronyOK, history, watcherVars>>
      /\ pc' = IF ChecksAt(tickCount') THEN "check" ELSE "read"
  BY DEF TakeTick, ChecksAt, PpsTypes
<1>2. /\ clock' = clock /\ troubleAt' = troubleAt /\ lastChronyOK' = lastChronyOK
      /\ chronySynced' = chronySynced /\ ref' = ref
  BY <1>1 DEF history, watcherVars
<1>3. PICK d \in Nat : EdgesAt(r, d)
  BY DEF SyncAt
<1>4. PICK s \in Nat, k \in Nat, q \in Nat : TicksAt(c, r, s) /\ ConfirmedAt(c, r, s, k, q)
  BY DEF SyncAt
<1>5. PICK n \in Nat : n = tickCount
  BY DEF PpsTypes
<1>6. EdgesAt(r, d)'
  BY <1>1, <1>3 DEF EdgesAt, envVars, history, watcherVars
<1>7. /\ clock \in Nat /\ tick \in Nat /\ now \in Nat /\ troubleAt \in Nat /\ lastChronyOK \in Nat
      /\ Poll \in Nat \ {0} /\ Poll > 1 /\ troubleAt <= clock
      /\ Phase \in 0..(Poll - 1)
  BY <1>1, <1>3, Constants DEF PpsTypes, Prompt, EdgesAt
<1>8. /\ c <= clock /\ r <= clock /\ c < tick /\ tick <= c + Poll /\ tick <= clock
      /\ c <= r /\ clock \in {r, tick} /\ now <= c
      /\ ~ChecksAt(n) => r = c
      /\ ChecksAt(n) => c = now
  <2>1. /\ c <= clock /\ r <= clock /\ c < tick /\ tick <= c + Poll /\ tick <= clock
        /\ c <= r /\ clock \in {r, tick} /\ now <= c
        /\ ~ChecksAt(n) => r = c
        /\ (c # now) => ChecksAt(n - 1)
    BY <1>1, <1>5 DEF PpsAt, LoopAt
  <2>2. ChecksAt(n) => ~ChecksAt(n - 1)
    BY <1>5, ChecksAreRare
  <2>3. QED
    BY <2>1, <2>2
<1>9. /\ s <= n /\ c <= troubleAt + (n - s) * Poll /\ (n > s => troubleAt <= c)
      /\ tick % Poll = Phase /\ (n > 0 => now % Poll = Phase)
      /\ (c # now => troubleAt >= c)
      /\ r <= c + 1 \/ r <= troubleAt
  BY <1>1, <1>4, <1>5 DEF TicksAt
<1>10. n > 0 => tick >= now + Poll
  <2> SUFFICES ASSUME n > 0 PROVE tick >= now + Poll
    OBVIOUS
  <2>1. now % Poll = tick % Poll /\ now < tick
    BY <1>7, <1>8, <1>9
  <2>2. QED
    BY <1>7, <2>1, NextTick
<1>11. clock # tick => troubleAt >= clock
  <2> SUFFICES ASSUME clock # tick PROVE troubleAt >= clock
    OBVIOUS
  <2>1. clock = r /\ tick < r
    BY <1>7, <1>8
  <2>2. ChecksAt(n) /\ c = now /\ n > 0
    BY <1>5, <1>7, <1>8, <2>1 DEF ChecksAt
  <2>3. ~(r <= c + 1)
    BY <1>7, <1>10, <2>1, <2>2
  <2>4. QED
    BY <1>9, <2>1, <2>3
<1>12. /\ (n + 1 - s) * Poll = (n - s) * Poll + Poll
       /\ (n - s) * Poll \in Int /\ (n - s) * Poll >= 0
       /\ (n + 1 - k) * Poll = (n - k) * Poll + Poll /\ (n - k) * Poll \in Int
  <2> DEFINE i == n - s
             j == n - k
  <2>1. n + 1 - s = i + 1 /\ n + 1 - k = j + 1 /\ i \in Int /\ j \in Int /\ 0 <= i
    BY <1>9
  <2> HIDE DEF i, j
  <2>2. /\ (i + 1) * Poll = i * Poll + Poll /\ (j + 1) * Poll = j * Poll + Poll
        /\ i * Poll \in Int /\ j * Poll \in Int
    BY <2>1, Intervals
  <2>3. i * Poll >= 0
    <3>1. 0 * Poll <= i * Poll /\ 0 * Poll = 0
      BY <2>1, Intervals
    <3>2. QED
      BY <2>2, <3>1
  <2>4. QED
    BY <2>1, <2>2, <2>3 DEF i, j
<1>13. tickCount' = n + 1 /\ tickCount' > s /\ s <= tickCount' /\ tickCount' - s = n + 1 - s
  BY <1>1, <1>5, <1>9
<1>14. TicksAt(x, r, s)'
  <2>1. x <= troubleAt' + (n + 1 - s) * Poll
    <3>1. CASE clock = tick
      BY <1>2, <1>7, <1>8, <1>9, <1>12, <3>1
    <3>2. CASE clock # tick
      BY <1>2, <1>7, <1>11, <1>12, <3>2
    <3>3. QED
      BY <3>1, <3>2
  <2>2. troubleAt' <= x /\ (x # now' => troubleAt' >= x)
    BY <1>1, <1>2, <1>7, <1>11
  <2>3. now' % Poll = Phase /\ clock' <= x + 1 /\ pc' # "wait" /\ tick' = None
    BY <1>1, <1>2, <1>7, <1>9
  <2>4. QED
    BY <1>13, <2>1, <2>2, <2>3 DEF TicksAt
<1>15. /\ s <= k /\ k <= n /\ \A j \in (k + 1)..n : ~ChecksAt(j)
       /\ k > s =>
            /\ ChecksAt(k) /\ chronySynced
            /\ c <= lastChronyOK + (n - k) * Poll
            /\ q + (n - k) * Poll <= now
            /\ ~ref.gpsSync =>
                 \/ SecondOf(r) <= troubleAt + Second
                 \/ SecondOf(r) <= q /\ q <= troubleAt + ChronyInterval * Poll
  BY <1>1, <1>4, <1>5 DEF ConfirmedAt, LastDone
<1>16. ConfirmedAt(x, r, s, k, q)'
  <2>1. \A j \in (k + 1)..LastDone' : ~ChecksAt(j)
    <3> SUFFICES ASSUME NEW j \in (k + 1)..LastDone' PROVE ~ChecksAt(j)
      OBVIOUS
    <3>1. CASE ChecksAt(n + 1)
      <4>1. LastDone' = n + 1 - 1
        BY <1>1, <1>13, <3>1 DEF LastDone
      <4>2. j \in (k + 1)..n
        BY <4>1
      <4>3. QED
        BY <1>15, <4>2
    <3>2. CASE ~ChecksAt(n + 1)
      <4>1. LastDone' = n + 1
        BY <1>1, <1>13, <3>2 DEF LastDone
      <4>2. j \in (k + 1)..n \/ j = n + 1
        BY <4>1, <1>15
      <4>3. QED
        BY <1>15, <3>2, <4>2
    <3>3. QED
      BY <3>1, <3>2
  <2>2. k <= tickCount' /\ k <= LastDone'
    BY <1>13, <1>15 DEF LastDone
  <2>3. k > s => x <= lastChronyOK' + (n + 1 - k) * Poll /\ q + (n + 1 - k) * Poll <= now'
    <3> SUFFICES ASSUME k > s
                 PROVE  x <= lastChronyOK' + (n + 1 - k) * Poll /\ q + (n + 1 - k) * Poll <= now'
      OBVIOUS
    <3>1. /\ c <= lastChronyOK + (n - k) * Poll
          /\ q + (n - k) * Poll <= now
          /\ n > 0 /\ n > s
      BY <1>15
    <3>2. troubleAt <= c
      BY <1>9, <3>1
    <3>3. clock = tick
      BY <1>7, <1>8, <1>11, <3>2
    <3>4. tick >= now + Poll
      BY <1>10, <3>1
    <3>5. x <= lastChronyOK' + (n + 1 - k) * Poll
      BY <1>2, <1>7, <1>8, <1>12, <3>1, <3>3
    <3>6. q + (n + 1 - k) * Poll <= now'
      BY <1>1, <1>7, <1>12, <3>1, <3>4
    <3>7. QED
      BY <3>5, <3>6
  <2>4. tickCount' - k = n + 1 - k
    BY <1>13
  <2>5. QED
    BY <1>2, <1>15, <2>1, <2>2, <2>3, <2>4 DEF ConfirmedAt
<1> QED
  BY <1>6, <1>14, <1>16 DEF SyncAt

(* Between one run of chronyc and the next are less than ChronyInterval       *)
(* iterations.                                                                *)
LEMMA FewSince ==
  ASSUME NEW s \in Nat, NEW n \in Int, \A j \in (s + 1)..n : ~ChecksAt(j)
  PROVE  n - s <= ChronyInterval - 1
<1>1. ChronyInterval \in Nat
  BY Constants
<1>2. PICK j \in (s + 1)..(s + ChronyInterval) : ChecksAt(j)
  BY ChecksCome
<1>3. ~(j \in (s + 1)..n)
  BY <1>2
<1>4. n < j
  BY <1>1, <1>3
<1> QED
  BY <1>1, <1>4

(* When chronyc runs again, the second after the last confirmation is over.   *)
LEMMA SecondPast ==
  ASSUME Prompt, PpsTypes, NEW n \in Nat, NEW r \in Nat, NEW k \in Nat, NEW q \in Nat,
         k < n, ChecksAt(k), ChecksAt(n), q + (n - k) * Poll <= now, now <= r + Poll
  PROVE  SecondOf(r) > q
<1> DEFINE i == n - k
           a == ChronyInterval - 2
<1>1. i \in Int /\ a \in Int /\ ChronyInterval - 1 = a + 1 /\ a + 1 <= i
  <2>1. n >= k + (ChronyInterval - 1) /\ ChronyInterval \in Nat
    BY ChecksApart, Constants
  <2>2. QED
    BY <2>1
<1>2. Second <= a * Poll /\ q + i * Poll <= now
  BY DEF Prompt
<1> HIDE DEF i, a
<1>3. /\ (a + 1) * Poll = a * Poll + Poll /\ a * Poll \in Int /\ i * Poll \in Int
      /\ (a + 1) * Poll <= i * Poll
  <2>1. (a + 1) * Poll = a * Poll + Poll /\ a * Poll \in Int
    BY <1>1, Intervals
  <2>2. a + 1 \in Int
    BY <1>1
  <2>3. i * Poll \in Int /\ (a + 1) * Poll <= i * Poll
    BY <1>1, <2>2, Intervals
  <2>4. QED
    BY <2>1, <2>3
<1>4. now \in Nat /\ Poll \in Nat /\ Second \in Nat
  BY Constants DEF PpsTypes
<1>5. r >= q + Second
  BY <1>2, <1>3, <1>4
<1>6. SecondOf(r) \in Nat /\ r < SecondOf(r) + Second
  BY SecondIs
<1> QED
  BY <1>4, <1>5, <1>6

(* Without trouble the loop is on time.                                       *)
LEMMA OnTime ==
  ASSUME Prompt, PpsTypes, NEW c \in Nat, NEW r \in Nat, NEW m \in Nat, NEW s \in Nat,
         LoopAt(c, r, m), TicksAt(c, r, s), troubleAt \in Nat, troubleAt < clock
  PROVE  /\ pc = "wait" => clock <= c + Poll /\ c <= r
         /\ pc = "read" => /\ now = c /\ clock <= c + 1 /\ c <= r + Poll
         /\ pc = "check" => /\ now = c /\ clock <= c + CheckTimeout /\ c <= r + Poll
                            /\ ChecksAt(tickCount)
<1>1. /\ clock \in Nat /\ now \in Nat /\ Poll \in Nat \ {0} /\ CheckTimeout \in Nat
      /\ Phase \in 0..(Poll - 1) /\ tickCount \in Nat /\ 1 < Poll
  BY Constants DEF PpsTypes, Prompt
<1>2. /\ c <= clock /\ r <= clock
      /\ tick # None => tick \in Nat /\ tick <= c + Poll
      /\ (c # now) => ChecksAt(tickCount - 1)
  BY DEF LoopAt, PpsTypes
<1>3. /\ c # now => troubleAt >= c
      /\ pc = "wait" => r <= c + 1 \/ r <= troubleAt
      /\ pc = "read" => clock <= c + 1
  BY <1>1, <1>2 DEF TicksAt
<1>4. ASSUME pc = "wait" PROVE clock <= c + Poll /\ c <= r
  <2>1. c <= r
    BY <1>4 DEF LoopAt
  <2>2. CASE tick = None
    <3>1. PICK t \in (c + 1)..(c + Poll) : t % Poll = Phase
      BY <1>1, EveryRemainder
    <3>2. ~(t \in (c + 1)..clock)
      BY <2>2, <3>1 DEF LoopAt
    <3>3. QED
      BY <1>1, <2>1, <3>1, <3>2
  <2>3. CASE tick # None
    <3>1. clock \in {r, tick}
      BY <1>4, <2>3 DEF LoopAt
    <3>2. QED
      BY <1>1, <1>2, <1>3, <1>4, <2>1, <2>3, <3>1
  <2>4. QED
    BY <2>2, <2>3
<1>5. ASSUME pc # "wait"
      PROVE  /\ now = c /\ c <= r + Poll
             /\ pc = "check" => clock <= c + CheckTimeout /\ ChecksAt(tickCount)
  <2>1. /\ c \in {now, r} /\ now <= r + Poll
        /\ ChecksAt(tickCount) => clock <= c + CheckTimeout
        /\ ~ChecksAt(tickCount) => pc = "read" /\ clock = c
    BY <1>5 DEF LoopAt
  <2>2. now = c
    <3> SUFFICES ASSUME now # c PROVE FALSE
      OBVIOUS
    <3>1. ~ChecksAt(tickCount)
      BY <1>1, <1>2, ChecksAreRare
    <3>2. clock = c /\ troubleAt >= c
      BY <1>3, <2>1, <3>1
    <3>3. QED
      BY <1>1, <3>2
  <2>3. QED
    BY <1>1, <2>1, <2>2
<1> QED
  BY <1>3, <1>4, <1>5

LEMMA CheckedSync ==
  ASSUME Prompt, PpsTypes, PpsTypes', NEW c \in Nat, NEW r \in Nat, NEW m \in Nat,
         PpsAt(c, r, m), SyncAt(c, r), NEW synced \in BOOLEAN, Checked(synced)
  PROVE  SyncAt(c, r)'
<1>1. /\ pc = "check" /\ pc' = "read"
      /\ UNCHANGED <<clock, envVars, tick, now, tickCount, refEdge, watcherVars>>
      /\ troubleAt' = clock \/ /\ troubleAt' = troubleAt /\ clock <= checkStart + 1
                               /\ chronySynced' = TRUE /\ lastChronyOK' = now
  BY DEF Checked, PpsTypes
<1>2. /\ clock' = clock /\ tick' = tick /\ now' = now /\ tickCount' = tickCount
      /\ edgeTime' = edgeTime /\ hwCount' = hwCount /\ refEdge' = refEdge
      /\ hasPrev' = hasPrev /\ prevCount' = prevCount /\ lastPpsAdvance' = lastPpsAdvance
      /\ ref' = ref
  BY <1>1 DEF envVars, watcherVars
<1>3. PICK d \in Nat : EdgesAt(r, d)
  BY DEF SyncAt
<1>4. PICK s \in Nat, k \in Nat, q \in Nat : TicksAt(c, r, s) /\ ConfirmedAt(c, r, s, k, q)
  BY DEF SyncAt
<1>5. PICK n \in Nat : n = tickCount
  BY DEF PpsTypes
<1>6. /\ clock \in Nat /\ now \in Nat /\ troubleAt \in Nat /\ troubleAt <= clock
      /\ troubleAt' \in Nat /\ troubleAt <= troubleAt' /\ troubleAt' <= clock
      /\ SecondOf(clock) \in Nat /\ SecondOf(r) \in Nat /\ SecondOf(r) <= r /\ Poll \in Nat
  <2>1. clock \in Nat /\ now \in Nat /\ troubleAt \in Nat /\ troubleAt <= clock
    BY <1>3 DEF PpsTypes, EdgesAt
  <2>2. SecondOf(clock) \in Nat /\ SecondOf(r) \in Nat /\ SecondOf(r) <= r /\ Poll \in Nat
    BY <2>1, SecondIs, Constants
  <2>3. troubleAt' = clock \/ troubleAt' = troubleAt
    BY <1>1
  <2>4. QED
    BY <2>1, <2>2, <2>3
<1>7. EdgesAt(r, d)'
  <2>1. SecondOf(clock)' = SecondOf(clock) /\ SecondOf(r)' = SecondOf(r)
    BY <1>2 DEF SecondOf
  <2>2. /\ SecondOf(clock) > troubleAt' => SecondOf(clock) > troubleAt
        /\ SecondOf(r) > troubleAt' => SecondOf(r) > troubleAt
        /\ troubleAt' <= r => troubleAt <= r
    BY <1>6
  <2>3. QED
    BY <1>2, <1>3, <1>6, <2>1, <2>2 DEF EdgesAt
<1>8. /\ c <= clock /\ r <= clock /\ r <= c /\ now <= r + Poll /\ now <= c
      /\ ChecksAt(n) /\ checkStart = c /\ n > 0
      /\ (c # now) => ChecksAt(n - 1)
  BY <1>1, <1>5 DEF PpsAt, LoopAt
<1>9. c = now
  BY <1>5, <1>8, ChecksAreRare
<1>10. /\ s <= n /\ c <= troubleAt + (n - s) * Poll
       /\ tick # None => tick % Poll = Phase
  BY <1>4, <1>5 DEF TicksAt
<1>11. CASE troubleAt' = clock
  <2>1. /\ c <= clock' /\ r <= clock' /\ troubleAt' = clock' /\ pc' = "read"
        /\ tick' # None => tick' % Poll = Phase
    BY <1>1, <1>2, <1>8, <1>10, <1>11
  <2>2. \E t, i, p \in Nat : TicksAt(c, r, t)' /\ ConfirmedAt(c, r, t, i, p)'
    BY <1>2, <1>4, <2>1, TroubleNow
  <2>3. QED
    BY <1>7, <2>2 DEF SyncAt
<1>12. CASE troubleAt' = troubleAt /\ clock <= checkStart + 1 /\ chronySynced' = TRUE
            /\ lastChronyOK' = now
  <2>1. clock' <= c + 1
    BY <1>2, <1>8, <1>12
  <2>2. TicksAt(c, r, s)'
    BY <1>1, <1>2, <1>4, <1>12, <2>1 DEF TicksAt
  <2>3. LastDone' = n /\ tickCount' = n
    BY <1>1, <1>2, <1>5 DEF LastDone
  <2>4. \A j \in (n + 1)..LastDone' : ~ChecksAt(j)
    BY <2>3
  <2>5. CASE s = n
    <3>1. ConfirmedAt(c, r, s, n, 0)'
      BY <2>3, <2>4, <2>5 DEF ConfirmedAt
    <3>2. QED
      BY <1>7, <2>2, <3>1 DEF SyncAt
  <2>6. CASE s < n
    <3>1. /\ s <= k /\ k <= n /\ \A j \in (k + 1)..(n - 1) : ~ChecksAt(j)
          /\ k > s =>
               /\ k <= n - 1 /\ ChecksAt(k)
               /\ q + (n - k) * Poll <= now
               /\ ~ref.gpsSync =>
                    \/ SecondOf(r) <= troubleAt + Second
                    \/ SecondOf(r) <= q /\ q <= troubleAt + ChronyInterval * Poll
      BY <1>1, <1>4, <1>5 DEF ConfirmedAt, LastDone
    <3>2. ~ref.gpsSync =>
            \/ SecondOf(r) <= troubleAt + Second
            \/ SecondOf(r) <= r /\ r <= troubleAt + ChronyInterval * Poll
      <4>1. CASE k > s
        <5>1. k < n /\ ChecksAt(k) /\ q + (n - k) * Poll <= now
          BY <3>1, <4>1
        <5>2. SecondOf(r) > q
          BY <1>8, <5>1, SecondPast
        <5>3. ~(SecondOf(r) <= q)
          BY <1>6, <5>2
        <5>4. QED
          BY <3>1, <4>1, <5>3
      <4>2. CASE k = s
        <5>1. (n - 1) - s <= ChronyInterval - 1
          <6>1. n - 1 \in Int /\ \A j \in (s + 1)..(n - 1) : ~ChecksAt(j)
            BY <3>1, <4>2
          <6>2. QED
            BY <6>1, FewSince
        <5> DEFINE i == n - s
        <5>2. i \in Int /\ i <= ChronyInterval /\ ChronyInterval \in Int
          BY <5>1, Constants
        <5>3. c <= troubleAt + i * Poll
          BY <1>10
        <5> HIDE DEF i
        <5>4. i * Poll <= ChronyInterval * Poll /\ i * Poll \in Int /\ ChronyInterval * Poll \in Int
          BY <5>2, Intervals
        <5>5. r <= troubleAt + ChronyInterval * Poll
          BY <1>6, <1>8, <5>3, <5>4
        <5>6. QED
          BY <1>6, <5>5
      <4>3. QED
        BY <3>1, <4>1, <4>2
    <3>3. (n - n) * Poll = 0
      BY Intervals
    <3>4. c <= now + (n - n) * Poll /\ r + (n - n) * Poll <= now
      BY <1>6, <1>8, <1>9, <3>3
    <3>5. SecondOf(r)' = SecondOf(r)
      BY DEF SecondOf
    <3>6. ConfirmedAt(c, r, s, n, r)'
      BY <1>2, <1>8, <1>12, <2>3, <2>4, <2>6, <3>2, <3>4, <3>5 DEF ConfirmedAt
    <3>7. QED
      BY <1>7, <2>2, <3>6 DEF SyncAt
  <2>7. QED
    BY <1>10, <2>5, <2>6
<1> QED
  BY <1>1, <1>11, <1>12

(* The interval from the edge of one second to that of the next is sane.      *)
LEMMA ASecondIsSane ==
  ASSUME NEW a \in Nat, NEW b \in Nat, b = a + Second
  PROVE  Sane(Signed((b * TicksPerUnit - a * TicksPerUnit) % TickMod) - NominalTicks)
<1>1. /\ TicksPerUnit \in Nat \ {0} /\ Second \in Nat \ {0} /\ TickMod \in Nat \ {0}
      /\ NominalTicks = Second * TicksPerUnit /\ 2 * NominalTicks < TickMod
      /\ TickMod % 2 = 0 /\ MaxCarryover \in Nat
  BY Constants
<1>2. b * TicksPerUnit - a * TicksPerUnit = NominalTicks
  BY <1>1
<1>3. NominalTicks \in Nat
  BY <1>1
<1>4. NominalTicks \in 0..(TickMod - 1) /\ NominalTicks < TickMod \div 2
  BY <1>1, <1>3
<1>5. NominalTicks % TickMod = NominalTicks
  BY <1>1, <1>4, SmallMod
<1>6. Signed(NominalTicks) = NominalTicks
  BY <1>4 DEF Signed
<1>7. NominalTicks - NominalTicks = 0 /\ Sane(0)
  BY <1>1, <1>3 DEF Sane
<1> QED
  BY <1>2, <1>5, <1>6, <1>7

(* What a read without trouble finds: the last edge, and how many there were. *)
LEMMA ReadOnTime ==
  ASSUME Prompt, PpsTypes, NEW c \in Nat, NEW r \in Nat, NEW m \in Nat, NEW s \in Nat,
         PpsAt(c, r, m), TicksAt(c, r, s), NEW d \in Nat, EdgesAt(r, d), ReadAndPublish,
         troubleAt < clock
  PROVE  /\ now \in Nat /\ now <= clock /\ clock <= now + 1 /\ now <= r + Poll
         /\ clock <= r + Poll + 1
         /\ hasPrev => d \in 0..(CountMod - 1)
         /\ (hasPrev /\ hwCount = prevCount) <=> (hasPrev /\ d = 0)
<1>1. pc = "read" /\ troubleAt \in Nat /\ hwCount \in 0..(CountMod - 1)
  BY DEF ReadAndPublish, EdgesAt, PpsTypes
<1>2. /\ clock \in Nat /\ now \in Nat /\ Poll \in Nat /\ CountMod \in Nat \ {0}
      /\ prevCount \in 0..(CountMod - 1) /\ Poll + 1 < CountMod
  BY Constants DEF PpsTypes, Prompt
<1>3. now = c /\ clock <= c + 1 /\ c <= r + Poll /\ c <= clock
  BY <1>1, OnTime DEF PpsAt, LoopAt
<1>4. /\ now <= clock /\ clock <= now + 1 /\ now <= r + Poll /\ clock <= r + Poll + 1
  BY <1>2, <1>3
<1>5. hasPrev => d <= clock - r /\ hwCount = (prevCount + d) % CountMod
  BY DEF EdgesAt
<1>6. hasPrev => d \in 0..(CountMod - 1)
  BY <1>2, <1>4, <1>5
<1>7. hasPrev => (hwCount = prevCount => d = 0)
  BY <1>2, <1>5, <1>6, CountBack
<1>8. ASSUME hasPrev, d = 0 PROVE hwCount = prevCount
  <2>1. hwCount = (prevCount + 0) % CountMod /\ prevCount + 0 = prevCount
    BY <1>2, <1>5, <1>8
  <2>2. QED
    BY <1>2, <2>1, SmallMod
<1> QED
  BY <1>2, <1>4, <1>6, <1>7, <1>8

(* A read finds the edge of the running second, if that has one, or has found *)
(* it before.                                                                 *)
LEMMA ReadEdges ==
  ASSUME Prompt, PpsTypes, PpsTypes', EdgeInv, NEW c \in Nat, NEW r \in Nat, NEW m \in Nat,
         NEW s \in Nat, PpsAt(c, r, m), TicksAt(c, r, s), NEW d \in Nat, EdgesAt(r, d),
         ReadAndPublish, NEW x \in Nat, x = clock
  PROVE  EdgesAt(x, 0)'
<1>1. /\ clock' = clock /\ edgeTime' = edgeTime /\ hwCount' = hwCount /\ troubleAt' = troubleAt
      /\ NothingNew \/ NewEdge
  BY ReadFacts DEF ReadAndPublish, envVars
<1>2. /\ troubleAt \in Nat /\ troubleAt <= clock
      /\ SecondOf(clock) > troubleAt => edgeTime = SecondOf(clock)
      /\ SecondOf(r) > troubleAt => refEdge = SecondOf(r) /\ lastPpsAdvance >= refEdge - 1
      /\ hasPrev => (edgeTime > r => d >= 1)
  BY DEF EdgesAt
<1>3. /\ hasPrev' = TRUE /\ prevCount' = hwCount
  BY <1>1 DEF NothingNew, NewEdge
<1>4. /\ hwCount \in 0..(CountMod - 1) /\ CountMod \in Nat \ {0} /\ clock \in Nat
      /\ edgeTime \in Nat /\ edgeTime <= clock /\ r <= clock /\ Second \in Nat \ {0}
      /\ now \in Nat
  BY Constants DEF PpsTypes, EdgeInv, PpsAt, LoopAt
<1>5. hwCount = (hwCount + 0) % CountMod
  <2>1. hwCount + 0 = hwCount
    BY <1>4
  <2>2. QED
    BY <1>4, <2>1, SmallMod
<1>6. /\ SecondOf(clock) \in Nat /\ SecondOf(clock) <= clock /\ clock < SecondOf(clock) + Second
      /\ SecondOf(r) \in Nat /\ r < SecondOf(r) + Second
      /\ SecondOf(clock) = SecondOf(r) \/ SecondOf(clock) >= SecondOf(r) + Second
  BY <1>4, SecondIs, SecondsApart
<1>7. ASSUME SecondOf(clock) > troubleAt
      PROVE  refEdge' = SecondOf(clock) /\ lastPpsAdvance' >= refEdge' - 1
  <2>1. troubleAt < clock
    BY <1>2, <1>4, <1>6, <1>7
  <2>2. /\ clock <= now + 1
        /\ (hasPrev /\ hwCount = prevCount) <=> (hasPrev /\ d = 0)
    BY <2>1, ReadOnTime
  <2>3. CASE NewEdge
    <3>1. refEdge' = SecondOf(clock) /\ lastPpsAdvance' = now
      BY <1>2, <1>7, <2>3 DEF NewEdge
    <3>2. now >= SecondOf(clock) - 1
      BY <1>4, <1>6, <2>2
    <3>3. QED
      BY <3>1, <3>2
  <2>4. CASE NothingNew
    <3>1. hasPrev /\ d = 0 /\ refEdge' = refEdge /\ lastPpsAdvance' = lastPpsAdvance
      BY <2>2, <2>4 DEF NothingNew
    <3>2. edgeTime <= r
      BY <1>2, <1>4, <3>1
    <3>3. SecondOf(clock) = SecondOf(r)
      BY <1>2, <1>4, <1>6, <1>7, <3>2
    <3>4. QED
      BY <1>2, <1>7, <3>1, <3>3
  <2>5. QED
    BY <1>1, <2>3, <2>4
<1>8. SecondOf(clock)' = SecondOf(clock) /\ SecondOf(x)' = SecondOf(clock)
  BY <1>1 DEF SecondOf
<1>9. 0 * Second = SecondOf(clock) - SecondOf(clock) /\ clock - x = 0 /\ ~(edgeTime > x)
  BY <1>4, <1>6
<1>10. 0 \in Nat /\ 0 <= clock - x
  BY <1>9
<1> QED
  BY <1>1, <1>2, <1>3, <1>5, <1>7, <1>8, <1>9, <1>10 DEF EdgesAt

LEMMA ReadSync ==
  ASSUME Prompt, PpsTypes, PpsTypes', EdgeInv, NEW c \in Nat, NEW r \in Nat, NEW m \in Nat,
         PpsAt(c, r, m), SyncAt(c, r), ReadAndPublish, NEW x \in Nat, x = clock
  PROVE  SyncAt(c, x)'
<1>1. PICK d \in Nat : EdgesAt(r, d)
  BY DEF SyncAt
<1>2. PICK s \in Nat, k \in Nat, q \in Nat : TicksAt(c, r, s) /\ ConfirmedAt(c, r, s, k, q)
  BY DEF SyncAt
<1>3. PICK n \in Nat : n = tickCount
  BY DEF PpsTypes
<1>4. EdgesAt(x, 0)'
  BY <1>1, <1>2, ReadEdges
<1>5. /\ pc = "read" /\ pc' = "wait"
      /\ chronySynced' = (chronySynced /\ now - lastChronyOK <= ChronyExpiry)
      /\ clock' = clock /\ tick' = tick /\ now' = now /\ tickCount' = tickCount
      /\ lastChronyOK' = lastChronyOK /\ troubleAt' = troubleAt
      /\ NothingNew \/ NewEdge
  BY ReadFacts DEF ReadAndPublish
<1>6. TicksAt(c, x, s)'
  BY <1>2, <1>5 DEF TicksAt
<1>7. /\ s <= k /\ k <= n /\ \A j \in (k + 1)..n : ~ChecksAt(j)
      /\ k > s =>
           /\ ChecksAt(k) /\ chronySynced
           /\ c <= lastChronyOK + (n - k) * Poll
           /\ q + (n - k) * Poll <= now
           /\ ~ref.gpsSync =>
                \/ SecondOf(r) <= troubleAt + Second
                \/ SecondOf(r) <= q /\ q <= troubleAt + ChronyInterval * Poll
  BY <1>2, <1>3, <1>5 DEF ConfirmedAt, LastDone
<1>8. /\ clock \in Nat /\ now \in Nat /\ now <= c /\ r <= clock /\ lastChronyOK \in Nat
      /\ Second \in Nat \ {0} /\ Poll \in Nat /\ Poll < Second /\ troubleAt \in Nat
      /\ CountMod \in Nat \ {0} /\ 1 < CountMod /\ StaleAfter = 2 * Second
      /\ ChronyExpiry \in Nat /\ ChronyInterval \in Nat
      /\ (ChronyInterval - 1) * Poll <= ChronyExpiry
      /\ lastPpsAdvance \in Nat /\ refEdge \in Nat
  <2>1. now <= c /\ r <= clock /\ troubleAt \in Nat
    BY <1>1, <1>5 DEF PpsAt, LoopAt, EdgesAt
  <2>2. QED
    BY <2>1, Constants DEF PpsTypes, Prompt
<1>9. ASSUME k > s PROVE chronySynced'
  <2> DEFINE i == n - k
             a == ChronyInterval - 1
  <2>1. i \in Int /\ a \in Int /\ i <= a
    <3>1. n \in Int /\ \A j \in (k + 1)..n : ~ChecksAt(j)
      BY <1>7
    <3>2. n - k <= ChronyInterval - 1
      BY <3>1, FewSince
    <3>3. QED
      BY <1>8, <3>2
  <2>2. c <= lastChronyOK + i * Poll /\ a * Poll <= ChronyExpiry
    BY <1>7, <1>8, <1>9
  <2> HIDE DEF i, a
  <2>3. i * Poll <= a * Poll /\ i * Poll \in Int /\ a * Poll \in Int
    BY <2>1, Intervals
  <2>4. now - lastChronyOK <= ChronyExpiry
    BY <1>8, <2>2, <2>3
  <2>5. QED
    BY <1>5, <1>7, <1>9, <2>4
<1>10. ASSUME k > s, ~ref'.gpsSync, SecondOf(clock) > troubleAt + Second
       PROVE  SecondOf(clock) <= q /\ q <= troubleAt + ChronyInterval * Poll
  <2>1. /\ SecondOf(clock) \in Nat /\ SecondOf(clock) <= clock /\ clock < SecondOf(clock) + Second
        /\ SecondOf(r) \in Nat /\ r < SecondOf(r) + Second /\ SecondOf(r) <= r
    BY <1>8, SecondIs
  <2>2. troubleAt < clock
    BY <1>8, <1>10, <2>1
  <2>3. /\ now <= clock /\ now <= r + Poll /\ clock <= r + Poll + 1
        /\ hasPrev => d \in 0..(CountMod - 1)
        /\ (hasPrev /\ hwCount = prevCount) <=> (hasPrev /\ d = 0)
    BY <1>1, <1>2, <2>2, ReadOnTime
  <2>4. r > troubleAt /\ r # 0
    BY <1>8, <1>10, <2>1, <2>3
  <2>5. hasPrev /\ d * Second = SecondOf(clock) - SecondOf(r)
    BY <1>1, <1>8, <2>4 DEF EdgesAt
  <2>6. SecondOf(clock) - SecondOf(r) < 2 * Second
    BY <1>8, <2>1, <2>3
  <2>7. d = 0 \/ d = 1
    <3> SUFFICES ASSUME d >= 2 PROVE FALSE
      OBVIOUS
    <3>1. d * Second >= 2 * Second
      BY <1>8
    <3>2. QED
      BY <1>8, <2>1, <2>5, <2>6, <3>1
  <2>8. CASE d = 0
    <3>1. SecondOf(clock) = SecondOf(r)
      BY <1>8, <2>1, <2>5, <2>8
    <3>2. ref'.gpsSync <=> ref.gpsSync /\ chronySynced' /\ now - lastPpsAdvance <= StaleAfter
      BY <1>5, <2>3, <2>5, <2>8 DEF NothingNew, NewEdge
    <3>3. refEdge = SecondOf(r) /\ lastPpsAdvance >= refEdge - 1
      <4>1. SecondOf(r) > troubleAt
        BY <1>8, <1>10, <2>1, <3>1
      <4>2. QED
        BY <1>1, <4>1 DEF EdgesAt
    <3>4. now - lastPpsAdvance <= StaleAfter
      BY <1>8, <2>1, <2>3, <3>1, <3>3
    <3>5. ~ref.gpsSync
      BY <1>9, <1>10, <3>2, <3>4
    <3>6. ~(SecondOf(r) <= troubleAt + Second)
      BY <1>8, <1>10, <2>1, <3>1
    <3>7. QED
      BY <1>7, <1>10, <3>1, <3>5, <3>6
  <2>9. CASE d = 1
    <3>1. 1 * Second = Second /\ SecondOf(clock) = SecondOf(r) + Second
      BY <1>8, <2>1, <2>5, <2>9
    <3>2. SecondOf(r) > troubleAt /\ SecondOf(clock) > troubleAt
      BY <1>8, <1>10, <2>1, <3>1
    <3>3. refEdge = SecondOf(r) /\ edgeTime = SecondOf(clock)
      BY <1>1, <3>2 DEF EdgesAt
    <3>4. NewEdge /\ hasPrev /\ hwCount # prevCount
      <4>1. hwCount # prevCount
        BY <2>3, <2>5, <2>9
      <4>2. ~NothingNew
        BY <4>1 DEF NothingNew
      <4>3. QED
        BY <1>5, <2>5, <4>1, <4>2
    <3>5. CountDelta(hwCount) = 1
      <4>1. hwCount = (prevCount + 1) % CountMod /\ prevCount \in 0..(CountMod - 1)
        BY <1>1, <2>5, <2>9 DEF EdgesAt, PpsTypes
      <4>2. 1 \in 0..(CountMod - 1)
        BY <1>8
      <4>3. QED
        BY <1>8, <4>1, <4>2, CountBack DEF CountDelta
    <3>6. Sane(Signed(TickDelta(hwCounter)) - NominalTicks)
      <4>1. hwCounter = edgeTime * TicksPerUnit /\ prevCounter = refEdge * TicksPerUnit
        BY <2>5 DEF EdgeInv
      <4>2. edgeTime = refEdge + Second /\ edgeTime \in Nat /\ refEdge \in Nat
        BY <2>1, <3>1, <3>3
      <4>3. QED
        BY <4>1, <4>2, ASecondIsSane DEF TickDelta
    <3>7. ref'.gpsSync
      BY <1>9, <1>10, <3>4, <3>5, <3>6 DEF NewEdge
    <3>8. QED
      BY <1>10, <3>7
  <2>10. QED
    BY <2>7, <2>8, <2>9
<1>11. SecondOf(x)' = SecondOf(clock) /\ SecondOf(clock) \in Nat
  BY <1>5, <1>8, SecondIs DEF SecondOf
<1>12. SecondOf(clock) > troubleAt + Second \/ SecondOf(clock) <= troubleAt + Second
  BY <1>8, <1>11
<1>13. ConfirmedAt(c, x, s, k, q)'
  <2>1. LastDone' = n /\ tickCount' = n
    BY <1>3, <1>5 DEF LastDone
  <2>2. k > s => (~ref'.gpsSync =>
                    \/ SecondOf(x)' <= troubleAt' + Second
                    \/ SecondOf(x)' <= q /\ q <= troubleAt' + ChronyInterval * Poll)
    BY <1>5, <1>10, <1>11, <1>12
  <2>3. QED
    BY <1>5, <1>7, <1>9, <2>1, <2>2 DEF ConfirmedAt
<1> QED
  BY <1>4, <1>6, <1>13 DEF SyncAt

LEMMA NextSyncInv == ASSUME Prompt PROVE SyncInv /\ [Next]_vars => SyncInv'
<1> SUFFICES ASSUME SyncInv, [Next]_vars PROVE SyncInv'
  OBVIOUS
<1>1. PICK c \in Nat, r \in Nat, m \in Nat : PpsAt(c, r, m) /\ SyncAt(c, r)
  BY DEF SyncInv
<1>2. PpsTypes /\ EdgeInv
  BY DEF SyncInv
<1>3. PICK x \in Nat, y \in Nat : x = clock /\ y = now
  BY <1>2 DEF PpsTypes
<1>4. CASE Pass
  <2>1. PpsTypes' /\ EdgeInv' /\ PpsAt(c, r, m)'
    BY <1>1, <1>2, <1>4, PassStep
  <2>2. SyncAt(c, r)'
    BY <1>1, <1>2, <1>4, <2>1, PassSync
  <2>3. QED
    BY <2>1, <2>2 DEF SyncInv
<1>5. CASE TakeTick
  <2>1. PpsTypes' /\ EdgeInv' /\ PpsAt(x, r, m)'
    BY <1>1, <1>2, <1>3, <1>5, TakeTickStep
  <2>2. SyncAt(x, r)'
    BY <1>1, <1>2, <1>3, <1>5, TakeTickSync
  <2>3. QED
    BY <2>1, <2>2 DEF SyncInv
<1>6. ASSUME NEW synced \in BOOLEAN, Checked(synced) PROVE SyncInv'
  <2>1. PpsTypes' /\ EdgeInv' /\ PpsAt(c, r, m)'
    BY <1>1, <1>2, <1>6, CheckedStep
  <2>2. SyncAt(c, r)'
    BY <1>1, <1>2, <1>6, <2>1, CheckedSync
  <2>3. QED
    BY <2>1, <2>2 DEF SyncInv
<1>7. CASE ReadAndPublish
  <2>1. PpsTypes' /\ EdgeInv' /\ PpsAt(c, x, y)'
    BY <1>1, <1>2, <1>3, <1>7, ReadStep
  <2>2. SyncAt(c, x)'
    BY <1>1, <1>2, <1>3, <1>7, <2>1, ReadSync
  <2>3. QED
    BY <2>1, <2>2 DEF SyncInv
<1>8. CASE UNCHANGED vars
  <2>1. /\ UNCHANGED <<clock, hwCount, hwCounter, edgeTime, glitches, tick, pc, now>>
        /\ UNCHANGED <<tickCount, chronySynced, lastChronyOK, checkStart>>
        /\ UNCHANGED <<refEdge, refChecked, confirmedAt, troubleAt>>
        /\ UNCHANGED <<hasPrev, prevCount, prevCounter, lastPpsAdvance, ref>>
    BY <1>8 DEF vars, envVars, runVars, history, watcherVars
  <2>2. PpsTypes' /\ EdgeInv' /\ PpsAt(c, r, m)'
    BY <1>1, <1>2, <2>1 DEF PpsTypes, EdgeInv, PpsAt, LoopAt, RefAt
  <2>3. PICK d \in Nat : EdgesAt(r, d)
    BY <1>1 DEF SyncAt
  <2>4. PICK s \in Nat, k \in Nat, q \in Nat : TicksAt(c, r, s) /\ ConfirmedAt(c, r, s, k, q)
    BY <1>1 DEF SyncAt
  <2>5. SecondOf(clock)' = SecondOf(clock) /\ SecondOf(r)' = SecondOf(r) /\ LastDone' = LastDone
    BY <2>1 DEF SecondOf, LastDone
  <2>6. EdgesAt(r, d)'
    BY <2>1, <2>3, <2>5 DEF EdgesAt
  <2>7. TicksAt(c, r, s)' /\ ConfirmedAt(c, r, s, k, q)'
    BY <2>1, <2>4, <2>5 DEF TicksAt, ConfirmedAt
  <2>8. QED
    BY <2>2, <2>6, <2>7 DEF SyncInv, SyncAt
<1> QED
  BY <1>4, <1>5, <1>6, <1>7, <1>8 DEF Next

(* With the constants of the code, sync is gained in bounded time once the    *)
(* edges come every second, with no noise, and chronyc answers yes at once,   *)
(* whatever was before (pps.go, run and update).                              *)
THEOREM SyncIsGained == ASSUME Prompt PROVE Spec => []SyncAcquired
<1>1. SyncInv => SyncAcquired
  <2> SUFFICES ASSUME SyncInv, ~ref.gpsSync, clock - troubleAt >= AcquireTime
               PROVE  FALSE
    BY DEF SyncAcquired
  <2>1. PICK c \in Nat, r \in Nat, m \in Nat : PpsAt(c, r, m) /\ SyncAt(c, r)
    BY DEF SyncInv
  <2>2. PICK s \in Nat, k \in Nat, q \in Nat : TicksAt(c, r, s) /\ ConfirmedAt(c, r, s, k, q)
    BY <2>1 DEF SyncAt
  <2>3. PICK n \in Nat : n = tickCount
    BY DEF SyncInv, PpsTypes
  <2>4. /\ clock \in Nat /\ now \in Nat /\ troubleAt \in Nat /\ Poll \in Nat \ {0}
        /\ Second \in Nat \ {0} /\ CheckTimeout \in Nat /\ ChronyInterval \in Nat \ {0}
        /\ 1 < Poll /\ Poll < Second
        /\ CheckTimeout <= ChronyInterval * Poll /\ CheckTimeout <= 2 * Second
        /\ PpsTypes
    BY <2>1, Constants DEF SyncInv, PpsTypes, Prompt, SyncAt, EdgesAt
  <2> DEFINE y == ChronyInterval * Poll
  <2>5. y \in Nat /\ AcquireTime = y + Poll + 2 * Second
    BY <2>4 DEF AcquireTime
  <2>6. (ChronyInterval - 1) * Poll = y - Poll
    BY <2>4
  <2>7. CheckTimeout <= y
    BY <2>4
  <2> HIDE DEF y
  <2>8. clock >= troubleAt + y + Poll + 2 * Second /\ troubleAt < clock
    BY <2>4, <2>5
  <2>9. /\ pc = "wait" => clock <= c + Poll /\ c <= r
        /\ pc = "read" => /\ now = c /\ clock <= c + 1 /\ c <= r + Poll
        /\ pc = "check" => /\ now = c /\ clock <= c + CheckTimeout /\ c <= r + Poll
                           /\ ChecksAt(n)
    BY <2>1, <2>2, <2>3, <2>4, <2>8, OnTime DEF PpsAt
  <2>10. /\ s <= k /\ k <= n /\ \A j \in (k + 1)..LastDone : ~ChecksAt(j)
         /\ s <= n /\ c <= troubleAt + (n - s) * Poll
         /\ k > s =>
              /\ k <= LastDone /\ ChecksAt(k) /\ q + (n - k) * Poll <= now
              /\ \/ SecondOf(r) <= troubleAt + Second
                 \/ SecondOf(r) <= q /\ q <= troubleAt + y
    BY <2>2, <2>3 DEF TicksAt, ConfirmedAt, y
  <2>11. pc \in {"wait", "check", "read"} /\ (pc # "check" => LastDone = n)
         /\ (pc = "check" => LastDone = n - 1)
    BY <2>3, <2>4 DEF PpsTypes, LastDone
  <2>12. CASE k = s
    <3> DEFINE i == n - s
               a == ChronyInterval - 1
    <3>1. LastDone - s <= ChronyInterval - 1 /\ LastDone \in Int
      <4>1. LastDone \in Int /\ \A j \in (s + 1)..LastDone : ~ChecksAt(j)
        BY <2>10, <2>11, <2>12
      <4>2. QED
        BY <4>1, FewSince
    <3>2. /\ i \in Int /\ a \in Int /\ ChronyInterval \in Int
          /\ pc # "check" => i <= a
          /\ pc = "check" => i <= ChronyInterval
      BY <2>4, <2>11, <3>1
    <3>3. c <= troubleAt + i * Poll /\ a * Poll = y - Poll /\ ChronyInterval * Poll = y
      BY <2>6, <2>10 DEF y
    <3> HIDE DEF i, a
    <3>4. i * Poll \in Int /\ a * Poll \in Int
      BY <3>2, Intervals
    <3>5. CASE pc # "check"
      <4>1. i * Poll <= a * Poll
        BY <3>2, <3>5, Intervals
      <4>2. clock <= c + Poll
        BY <2>4, <2>9, <2>11, <3>5
      <4>3. QED
        BY <2>4, <2>5, <2>8, <3>3, <3>4, <4>1, <4>2
    <3>6. CASE pc = "check"
      <4>1. i * Poll <= ChronyInterval * Poll
        BY <3>2, <3>6, Intervals
      <4>2. clock <= c + CheckTimeout /\ CheckTimeout <= 2 * Second
        BY <2>4, <2>9, <3>6
      <4>3. QED
        BY <2>4, <2>5, <2>8, <3>3, <3>4, <4>1, <4>2
    <3>7. QED
      BY <3>5, <3>6
  <2>13. CASE k > s
    <3>1. SecondOf(r) \in Nat /\ r < SecondOf(r) + Second
      BY SecondIs
    <3>2. /\ pc = "wait" => clock <= r + Poll
          /\ pc = "read" => clock <= r + Poll + 1
          /\ pc = "check" => clock <= r + Poll + CheckTimeout
      BY <2>4, <2>9
    <3>3. CASE SecondOf(r) <= troubleAt + Second
      <4>1. r < troubleAt + 2 * Second
        BY <2>4, <3>1, <3>3
      <4>2. clock < troubleAt + 2 * Second + Poll + y \/ pc = "read"
        BY <2>4, <2>5, <2>7, <2>11, <3>2, <4>1
      <4>3. y >= Poll
        BY <2>4 DEF y
      <4>4. QED
        BY <2>4, <2>5, <2>8, <3>2, <4>1, <4>2, <4>3
    <3>4. CASE SecondOf(r) <= q /\ q <= troubleAt + y
      <4>1. r < troubleAt + y + Second
        BY <2>4, <2>5, <3>1, <3>4
      <4>2. pc # "check"
        <5> SUFFICES ASSUME pc = "check" PROVE FALSE
          OBVIOUS
        <5>1. ChecksAt(n) /\ now <= r + Poll
          BY <2>9
        <5>2. k < n /\ ChecksAt(k) /\ q + (n - k) * Poll <= now
          BY <2>10, <2>11, <2>13
        <5>3. SecondOf(r) > q
          BY <2>4, <5>1, <5>2, SecondPast
        <5>4. QED
          BY <3>1, <3>4, <5>3
      <4>3. QED
        BY <2>4, <2>5, <2>8, <2>11, <3>2, <4>1, <4>2
    <3>5. QED
      BY <2>10, <2>13, <3>3, <3>4
  <2>14. QED
    BY <2>10, <2>12, <2>13
<1>2. Init => SyncInv
  BY InitSyncInv
<1>3. SyncInv /\ [Next]_vars => SyncInv'
  BY NextSyncInv
<1> QED
  BY <1>1, <1>2, <1>3, PTL DEF Spec

----------------------------------------------------------------------------
(* Statistics, for any sequence of samples (WatcherStats).                    *)

(* Subtraction of unsigned integers, over a wrap of at most once.          *)
LEMMA WrappedMod ==
  ASSUME NEW m \in Nat \ {0}, NEW x \in m..(2 * m - 1)
  PROVE  x % m = x - m
BY SMT

LEMMA NegativeMod ==
  ASSUME NEW m \in Nat \ {0}, NEW x \in (-m)..(-1)
  PROVE  x % m = x + m
BY SMT

LEMMA ModRange ==
  ASSUME NEW m \in Nat \ {0}, NEW x \in Int
  PROVE  x % m \in 0..(m - 1)
BY SMT

LEMMA DivRange ==
  ASSUME NEW n \in Nat \ {0}, NEW x \in Int
  PROVE  x \div n \in Int /\ x \div 1 = x
BY SMT

LEMMA WrapDifference ==
  ASSUME NEW m \in Nat \ {0}, NEW a \in 0..(m - 1), NEW n \in 0..(m - 1)
  PROVE  (((a + n) % m) - a) % m = n
BY SmallMod, WrappedMod, NegativeMod

StatsTypes ==
  /\ samples \in Nat /\ edges \in Nat /\ skippedEdges \in Int
  /\ carryovers \in Seq(Int)
  /\ prevCount \in 0..(CountMod - 1) /\ prevCounter \in Ticks
  /\ ref \in RefRecord

(* An interval of one edge is shorter than half the tick counter's range.   *)
Measurable == \A j \in Jitters : 2 * (NominalTicks + j) < TickMod

(* Before the first sample there is nothing; later, what was published fits *)
(* the last advance.                                                        *)
StatsInv ==
  /\ StatsTypes
  /\ hasPrev <=> samples > 0
  /\ EdgesAccounted
  /\ Measurable /\ ref.gpsSync =>
       /\ Len(carryovers) > 0 /\ ~ref.degraded
       /\ ref.carryover = carryovers[Len(carryovers)]
       /\ Sane(ref.carryover)

LEMMA InitStatsInv == StatsInit => StatsInv
<1> SUFFICES ASSUME StatsInit PROVE StatsInv
  OBVIOUS
<1>1. /\ samples = 0 /\ edges = 0 /\ skippedEdges = 0 /\ carryovers = <<>>
      /\ prevCount = 0 /\ prevCounter = 0 /\ hasPrev = FALSE
      /\ ref = [count |-> 0, counterAtPps |-> 0, measured |-> 0, carryover |-> 0,
                wallUTC |-> 0, gpsSync |-> FALSE, degraded |-> FALSE]
  BY DEF StatsInit, WatcherInit
<1>2. ref \in RefRecord /\ ~ref.gpsSync
  BY <1>1 DEF RefRecord
<1>3. StatsTypes
  BY <1>1, <1>2, WatcherAssumption DEF StatsTypes, Ticks
<1>4. QED
  BY <1>1, <1>2, <1>3 DEF StatsInv, EdgesAccounted

LEMMA StartStep == ASSUME StatsInv, Start PROVE StatsInv'
<1>1. PICK count \in {0, CountMod - 1}, counter \in {0, TickMod - 1} :
        Update(count, counter, 0, FALSE)
  BY DEF Start
<1>2. samples = 0 /\ samples' = 1 /\ UNCHANGED <<edges, carryovers>> /\ ~hasPrev
  BY DEF Start, StatsInv
<1>3. FirstSample(count, counter, 0)
  BY <1>1, <1>2 DEF Update, NoAdvance, Advance
<1>4. /\ hasPrev' = TRUE /\ prevCount' = count /\ prevCounter' = counter
      /\ skippedEdges' = skippedEdges
      /\ ref' = [count |-> count, counterAtPps |-> counter, measured |-> 0, carryover |-> 0,
                 wallUTC |-> 0, gpsSync |-> FALSE, degraded |-> FALSE]
  BY <1>3 DEF FirstSample, statVars
<1>5. /\ count \in 0..(CountMod - 1) /\ counter \in Ticks
      /\ count \in Int /\ counter \in Int
  BY WatcherAssumption DEF Ticks
<1>6. ref' \in RefRecord /\ ~ref'.gpsSync
  BY <1>4, <1>5 DEF RefRecord
<1>7. StatsTypes'
  BY <1>2, <1>4, <1>5, <1>6 DEF StatsInv, StatsTypes
<1>8. QED
  BY <1>2, <1>4, <1>6, <1>7 DEF StatsInv, EdgesAccounted

(* No edge.                                                                *)
LEMMA QuietStep ==
  ASSUME StatsInv, NEW jitter \in Jitters, NEW synced \in BOOLEAN,
         Sample(0, jitter, synced)
  PROVE  StatsInv'
<1>1. samples \in Nat /\ samples > 0 /\ hasPrev /\ ref \in RefRecord /\ edges \in Nat
      /\ prevCount \in 0..(CountMod - 1) /\ CountMod \in Nat \ {0}
  BY WatcherAssumption DEF Sample, StatsInv, StatsTypes
<1>2. (prevCount + 0) % CountMod = prevCount
  BY <1>1, SmallMod
<1>3. NoAdvance(prevCount, samples, synced)
  BY <1>1, <1>2 DEF Sample, Update, FirstSample, Advance
<1>4. /\ samples' = samples + 1 /\ edges' = edges /\ carryovers' = carryovers
      /\ UNCHANGED <<hasPrev, prevCount, prevCounter, skippedEdges>>
      /\ ref' = [ref EXCEPT !.gpsSync = @ /\ samples - lastPpsAdvance <= StaleAfter
                                          /\ synced]
  BY <1>1, <1>3 DEF Sample, NoAdvance, statVars
<1>5. /\ ref' \in RefRecord /\ (ref'.gpsSync => ref.gpsSync)
      /\ ref'.degraded = ref.degraded /\ ref'.carryover = ref.carryover
  BY <1>1, <1>4 DEF RefRecord
<1>6. StatsTypes'
  BY <1>1, <1>4, <1>5 DEF StatsInv, StatsTypes
<1>7. QED
  BY <1>1, <1>4, <1>5, <1>6 DEF StatsInv, EdgesAccounted, Sane, Measurable

(* One edge or more.                                                        *)
LEMMA EdgeStep ==
  ASSUME StatsInv, NEW n \in 1..MaxEdges, NEW jitter \in Jitters, NEW synced \in BOOLEAN,
         Sample(n, jitter, synced)
  PROVE  StatsInv'
<1> DEFINE count     == (prevCount + n) % CountMod
           counter   == (prevCounter + (n * NominalTicks + jitter)) % TickMod
           delta     == CountDelta(count)
           measured  == TickDelta(counter) \div delta
           carryover == Signed(measured) - NominalTicks
           real      == (n * NominalTicks + jitter) \div n - NominalTicks
<1>1. /\ samples \in Nat /\ samples > 0 /\ hasPrev /\ edges \in Nat /\ skippedEdges \in Int
      /\ prevCount \in 0..(CountMod - 1) /\ CountMod \in Nat \ {0}
      /\ prevCounter \in 0..(TickMod - 1) /\ TickMod \in Nat \ {0}
      /\ NominalTicks \in Nat \ {0} /\ n \in Nat \ {0} /\ n < CountMod
      /\ jitter \in Int /\ NominalTicks + jitter >= 0
      /\ carryovers \in Seq(Int)
  <2>1. samples \in Nat /\ samples > 0 /\ hasPrev
    BY DEF Sample, StatsInv, StatsTypes
  <2>2. /\ edges \in Nat /\ skippedEdges \in Int /\ carryovers \in Seq(Int)
        /\ prevCount \in 0..(CountMod - 1) /\ prevCounter \in 0..(TickMod - 1)
    BY DEF StatsInv, StatsTypes, Ticks
  <2>3. CountMod \in Nat \ {0} /\ TickMod \in Nat \ {0} /\ NominalTicks \in Nat \ {0}
    BY WatcherAssumption
  <2>4. MaxEdges \in Nat /\ MaxEdges < CountMod /\ jitter \in Int /\ NominalTicks + jitter >= 0
    BY StatsAssumption
  <2>5. n \in Nat \ {0} /\ n < CountMod
    BY <2>3, <2>4
  <2>6. QED
    BY <2>1, <2>2, <2>3, <2>4, <2>5
<1>2. delta = n /\ count # prevCount /\ count \in 0..(CountMod - 1)
  <2>1. (((prevCount + n) % CountMod) - prevCount) % CountMod = n
    <3>1. n \in 0..(CountMod - 1)
      BY <1>1
    <3>2. QED
      BY <1>1, <3>1, WrapDifference
  <2>2. (prevCount - prevCount) % CountMod = 0
    BY <1>1, SmallMod
  <2>3. count \in 0..(CountMod - 1)
    <3>1. prevCount + n \in Int
      BY <1>1
    <3>2. QED
      BY <1>1, <3>1, ModRange
  <2>4. QED
    BY <1>1, <2>1, <2>2, <2>3 DEF CountDelta
<1>3. n * NominalTicks + jitter \in Int
  BY <1>1
<1>4. counter \in 0..(TickMod - 1) /\ counter - prevCounter \in Int
  <2>1. prevCounter + (n * NominalTicks + jitter) \in Int
    BY <1>1, <1>3
  <2>2. counter \in 0..(TickMod - 1)
    BY <1>1, <2>1, ModRange
  <2>3. QED
    BY <1>1, <2>2
<1>5. Advance(count, counter, samples, synced)
  BY <1>1, <1>2 DEF Sample, Update, FirstSample, NoAdvance
<1>6. /\ samples' = samples + 1 /\ edges' = edges + n
      /\ carryovers' = Append(carryovers, real)
  BY <1>1 DEF Sample
<1>7. /\ hasPrev' = hasPrev /\ prevCount' = count /\ prevCounter' = counter
      /\ skippedEdges' = skippedEdges + delta - 1
      /\ ref' = [count |-> count, counterAtPps |-> counter, measured |-> measured,
                 carryover |-> carryover, wallUTC |-> samples,
                 gpsSync |-> delta = 1 /\ Sane(carryover) /\ synced,
                 degraded |-> delta # 1]
  BY <1>5 DEF Advance
<1>8. measured \in Int /\ carryover \in Int /\ real \in Int
  <2>1. TickDelta(counter) \in Int
    BY <1>1, <1>4, ModRange DEF TickDelta
  <2>2. measured \in Int /\ (n * NominalTicks + jitter) \div n \in Int
    BY <1>1, <1>2, <1>3, <2>1, DivRange
  <2>3. QED
    BY <1>1, <2>2 DEF Signed
<1>9. Measurable /\ n = 1 => carryover = real
  <2> SUFFICES ASSUME Measurable, n = 1 PROVE carryover = real
    OBVIOUS
  <2>1. n * NominalTicks + jitter = NominalTicks + jitter
    BY <1>1
  <2>2. NominalTicks + jitter \in 0..(TickMod - 1) /\ 2 * (NominalTicks + jitter) < TickMod
    BY <1>1 DEF Measurable
  <2>3. TickDelta(counter) = NominalTicks + jitter
    BY <1>1, <2>1, <2>2, WrapDifference DEF TickDelta
  <2>4. measured = NominalTicks + jitter
    BY <1>2, <2>2, <2>3, DivRange
  <2>5. NominalTicks + jitter < TickMod \div 2
    BY <1>1, <2>2, WatcherAssumption
  <2>6. real = NominalTicks + jitter - NominalTicks
    BY <1>1, <2>1, DivRange
  <2>7. Signed(NominalTicks + jitter) = NominalTicks + jitter
    BY <2>5 DEF Signed
  <2>8. QED
    BY <1>1, <2>4, <2>6, <2>7
<1> HIDE DEF count, counter, delta, measured, carryover, real
<1>10. /\ ref' \in RefRecord
       /\ ref'.gpsSync => delta = 1 /\ Sane(carryover)
       /\ ref'.degraded = (delta # 1) /\ ref'.carryover = carryover
  <2>1. count \in Int /\ counter \in Int /\ samples \in Int
    BY <1>1, <1>2, <1>4
  <2>2. (delta = 1 /\ Sane(carryover) /\ synced) \in BOOLEAN /\ (delta # 1) \in BOOLEAN
    OBVIOUS
  <2>3. QED
    BY <1>7, <1>8, <2>1, <2>2 DEF RefRecord
<1>11. /\ carryovers' \in Seq(Int) /\ Len(carryovers') = Len(carryovers) + 1
       /\ carryovers'[Len(carryovers')] = real
  BY <1>1, <1>6, <1>8
<1>12. StatsTypes'
  BY <1>1, <1>2, <1>4, <1>6, <1>7, <1>10, <1>11 DEF StatsTypes, Ticks
<1>13. EdgesAccounted'
  <2>1. skippedEdges + Len(carryovers) = edges /\ Len(carryovers) \in Nat
    BY <1>1 DEF StatsInv, EdgesAccounted
  <2>2. /\ skippedEdges' = skippedEdges + n - 1 /\ edges' = edges + n
        /\ Len(carryovers') = Len(carryovers) + 1
    BY <1>2, <1>6, <1>7, <1>11
  <2>3. QED
    BY <1>1, <2>1, <2>2 DEF EdgesAccounted
<1>14. hasPrev' <=> samples' > 0
  BY <1>1, <1>6, <1>7
<1>15. Measurable /\ ref'.gpsSync =>
         /\ Len(carryovers') > 0 /\ ~ref'.degraded
         /\ ref'.carryover = carryovers'[Len(carryovers')]
         /\ Sane(ref'.carryover)
  <2> SUFFICES ASSUME Measurable, ref'.gpsSync
               PROVE  /\ Len(carryovers') > 0 /\ ~ref'.degraded
                      /\ ref'.carryover = carryovers'[Len(carryovers')]
                      /\ Sane(ref'.carryover)
    OBVIOUS
  <2>1. n = 1 /\ Sane(carryover) /\ ref'.carryover = carryover /\ ~ref'.degraded
    BY <1>2, <1>10
  <2>2. QED
    BY <1>1, <1>9, <1>11, <2>1
<1>16. QED
  BY <1>12, <1>13, <1>14, <1>15 DEF StatsInv, Sane, Measurable

LEMMA NextStatsInv == StatsInv /\ [StatsNext]_sampleVars => StatsInv'
<1> SUFFICES ASSUME StatsInv, [StatsNext]_sampleVars PROVE StatsInv'
  OBVIOUS
<1>1. CASE Start
  BY <1>1, StartStep
<1>2. ASSUME NEW n \in 0..MaxEdges, NEW jitter \in Jitters, NEW synced \in BOOLEAN,
             Sample(n, jitter, synced)
      PROVE  StatsInv'
  <2>1. CASE n = 0
    BY <1>2, <2>1, QuietStep
  <2>2. CASE n # 0
    <3>1. n \in 1..MaxEdges
      BY <2>2, StatsAssumption
    <3>2. QED
      BY <1>2, <3>1, EdgeStep
  <2>3. QED
    BY <2>1, <2>2
<1>3. CASE UNCHANGED sampleVars
  BY <1>3 DEF sampleVars, watcherVars, statVars, StatsInv, StatsTypes, EdgesAccounted, Sane, Measurable
<1>4. QED
  BY <1>1, <1>2, <1>3 DEF StatsNext

(* Every edge is published in a ref of its own or counted as skipped, over  *)
(* any number of wraps of the PPS count (pps.go, update).                   *)
THEOREM NoEdgeForgotten == StatsSpec => []EdgesAccounted
<1>1. StatsInv => EdgesAccounted
  BY DEF StatsInv
<1>2. QED
  BY InitStatsInv, NextStatsInv, <1>1, PTL DEF StatsSpec

(* A ref is synced only if the interval before it was one edge long and     *)
(* within the bound, over any wraps of the tick counter, provided that an   *)
(* interval is shorter than half the counter's range (pps.go, update).      *)
THEOREM SyncIsEarned == ASSUME Measurable PROVE StatsSpec => []SyncedIntervalIsGood
<1>1. StatsInv => SyncedIntervalIsGood
  <2> SUFFICES ASSUME StatsInv, ref.gpsSync PROVE SyncedIntervalIsGood
    BY DEF SyncedIntervalIsGood
  <2>1. ref.carryover \in Int /\ MaxCarryover \in Nat
    BY WatcherAssumption DEF StatsInv, StatsTypes, RefRecord
  <2>2. ref.carryover \in (-MaxCarryover)..MaxCarryover
    BY <2>1 DEF StatsInv, Sane
  <2>3. QED
    BY <2>2 DEF StatsInv, SyncedIntervalIsGood
<1>2. QED
  BY InitStatsInv, NextStatsInv, <1>1, PTL DEF StatsSpec
----------------------------------------------------------------------------
(* The state of the watcher is what it is declared to be, whatever the     *)
(* registers hold.                                                         *)
LEMMA SignedRange ==
  ASSUME NEW n \in Ticks
  PROVE  Signed(n) - NominalTicks \in Carryovers
<1>1. PICK h \in Nat : TickMod = 2 * h /\ TickMod \div 2 = h
  <2>1. TickMod \in Nat \ {0} /\ TickMod % 2 = 0
    BY Constants
  <2> QED
    BY <2>1
<1>2. n \in Int /\ 0 <= n /\ n <= 2 * h - 1 /\ NominalTicks \in Nat
  BY <1>1, Constants DEF Ticks
<1>3. Carryovers = (-h - NominalTicks)..h
  BY <1>1 DEF Carryovers
<1> QED
  BY <1>1, <1>2, <1>3 DEF Signed

LEMMA Quotient ==
  ASSUME NEW m \in Nat \ {0}, NEW x \in 0..(m - 1), NEW n \in Nat \ {0}
  PROVE  x \div n \in 0..(m - 1)
<1> DEFINE q == x \div n
<1>1. q \in Int /\ x % n \in 0..(n - 1) /\ x = n * q + (x % n)
  BY Division
<1> HIDE DEF q
<1>2. CASE q < 0
  <2>1. n * q <= n * (-1) /\ n * (-1) = -n
    BY <1>1, <1>2
  <2> QED
    BY <1>1, <2>1
<1>3. CASE q >= 0
  <2>1. n * q >= q
    BY <1>1, <1>3
  <2> QED
    BY <1>1, <1>3, <2>1 DEF q
<1> QED
  BY <1>1, <1>2, <1>3

LEMMA UpdateTyped ==
  ASSUME WatcherTypeOK,
         NEW count \in 0..(CountMod - 1), NEW counter \in Ticks, NEW wall \in Nat,
         NEW synced \in BOOLEAN, Update(count, counter, wall, synced)
  PROVE  WatcherTypeOK'
<1>0. 0 \in Carryovers /\ 0 \in Ticks
  <2>1. 0 \in Ticks
    BY Constants DEF Ticks
  <2>2. TickMod \div 2 \in Nat /\ NominalTicks \in Nat
    BY Constants
  <2> QED
    BY <2>1, <2>2 DEF Carryovers
<1>1. CASE FirstSample(count, counter, wall)
  <2>1. ref' \in ClockRef
    BY <1>0, <1>1 DEF FirstSample, ClockRef
  <2> QED
    BY <1>1, <2>1 DEF FirstSample, statVars, WatcherTypeOK
<1>2. CASE NoAdvance(count, wall, synced)
  <2>1. ref' \in ClockRef
    <3>1. (ref.gpsSync /\ wall - lastPpsAdvance <= StaleAfter /\ synced) \in BOOLEAN
      OBVIOUS
    <3>2. ref \in ClockRef
      BY DEF WatcherTypeOK
    <3>3. ref' = [ref EXCEPT !.gpsSync = ref.gpsSync /\ wall - lastPpsAdvance <= StaleAfter
                                         /\ synced]
      BY <1>2 DEF NoAdvance
    <3> QED
      BY <3>1, <3>2, <3>3 DEF ClockRef
  <2> QED
    BY <1>2, <2>1 DEF NoAdvance, statVars, WatcherTypeOK
<1>3. CASE Advance(count, counter, wall, synced)
  <2> DEFINE delta == CountDelta(count)
             measured == TickDelta(counter) \div delta
             carryover == Signed(measured) - NominalTicks
  <2>1. delta \in Nat \ {0}
    <3>1. count # prevCount /\ prevCount \in 0..(CountMod - 1)
      BY <1>3 DEF Advance, WatcherTypeOK
    <3>2. (count - prevCount) % CountMod \in 1..(CountMod - 1)
      BY <3>1, Constants, Apart
    <3> QED
      BY <3>2, Constants DEF CountDelta
  <2>2. TickDelta(counter) \in 0..(TickMod - 1)
    BY Constants, Division DEF TickDelta, Ticks, WatcherTypeOK
  <2>3. measured \in Ticks
    <3> HIDE DEF delta
    <3> QED
      BY <2>1, <2>2, Constants, Quotient DEF Ticks
  <2>4. carryover \in Carryovers
    <3> HIDE DEF measured
    <3> QED
      BY <2>3, SignedRange
  <2>5. /\ lastPpsAdvance' = wall /\ skippedEdges' = skippedEdges + delta - 1
        /\ carryoverMin' \in {carryover, carryoverMin}
        /\ carryoverMax' \in {carryover, carryoverMax}
        /\ RollWindow(carryover)
        /\ prevCount' = count /\ prevCounter' = counter /\ hasPrev' = hasPrev
        /\ ref' = [count |-> count, counterAtPps |-> counter, measured |-> measured,
                   carryover |-> carryover, wallUTC |-> wall,
                   gpsSync |-> (delta = 1 /\ Sane(carryover) /\ synced),
                   degraded |-> delta # 1]
    BY <1>3 DEF Advance
  <2> HIDE DEF delta, measured, carryover
  <2>6. ref' \in ClockRef
    <3>1. (delta = 1 /\ Sane(carryover) /\ synced) \in BOOLEAN /\ (delta # 1) \in BOOLEAN
      OBVIOUS
    <3> QED
      BY <2>3, <2>4, <2>5, <3>1 DEF ClockRef
  <2>7. Carryovers \subseteq Int
    BY Constants DEF Carryovers
  <2>8. /\ window' \in [0..(WindowSize - 1) -> Carryovers] /\ carryoverSum' \in Int
        /\ windowIdx' \in 0..(WindowSize - 1) /\ windowLen' \in 0..WindowSize
    <3>1. WindowSize \in Nat \ {0}
      BY WatcherAssumption
    <3>2. CASE windowLen < WindowSize
      <4>1. /\ window' = [window EXCEPT ![windowLen] = carryover]
            /\ windowLen' = windowLen + 1 /\ carryoverSum' = carryoverSum + carryover
            /\ windowIdx' = windowIdx
        BY <2>5, <3>2 DEF RollWindow
      <4> QED
        BY <2>4, <2>7, <3>1, <3>2, <4>1 DEF WatcherTypeOK
    <3>3. CASE ~(windowLen < WindowSize)
      <4>1. /\ window' = [window EXCEPT ![windowIdx] = carryover]
            /\ carryoverSum' = carryoverSum - window[windowIdx] + carryover
            /\ windowIdx' = (windowIdx + 1) % WindowSize /\ windowLen' = windowLen
        BY <2>5, <3>3 DEF RollWindow
      <4>2. windowIdx + 1 \in Int /\ window[windowIdx] \in Carryovers
        BY DEF WatcherTypeOK
      <4>3. (windowIdx + 1) % WindowSize \in 0..(WindowSize - 1)
        BY <3>1, <4>2, Division
      <4> QED
        BY <2>4, <2>7, <4>1, <4>2, <4>3 DEF WatcherTypeOK
    <3> QED
      BY <3>2, <3>3
  <2>9. skippedEdges' \in Nat /\ carryoverMin' \in Carryovers /\ carryoverMax' \in Carryovers
    BY <2>1, <2>4, <2>5 DEF WatcherTypeOK
  <2> QED
    BY <2>5, <2>6, <2>8, <2>9 DEF WatcherTypeOK
<1> QED
  BY <1>1, <1>2, <1>3 DEF Update

LEMMA WatcherInitTyped == WatcherInit => WatcherTypeOK
<1> SUFFICES ASSUME WatcherInit PROVE WatcherTypeOK
  OBVIOUS
<1>1. 0 \in Carryovers /\ 0 \in Ticks /\ WindowSize \in Nat \ {0} /\ CountMod \in Nat \ {0}
  <2>1. TickMod \div 2 \in Nat /\ NominalTicks \in Nat /\ TickMod \in Nat \ {0}
    BY Constants
  <2> QED
    BY <2>1, WatcherAssumption DEF Carryovers, Ticks
<1>2. 0 \in 0..(CountMod - 1) /\ 0 \in 0..(WindowSize - 1) /\ 0 \in 0..WindowSize
  BY <1>1
<1>3. ref \in ClockRef
  BY <1>1, <1>2 DEF WatcherInit, ClockRef
<1>4. window \in [0..(WindowSize - 1) -> Carryovers]
  BY <1>1 DEF WatcherInit
<1>5. prevCount \in 0..(CountMod - 1) /\ prevCounter \in Ticks /\ skippedEdges \in Nat
  BY <1>1, <1>2 DEF WatcherInit
<1>6. carryoverMin \in Carryovers /\ carryoverMax \in Carryovers /\ carryoverSum \in Int
  BY <1>1 DEF WatcherInit
<1>7. /\ windowIdx \in 0..(WindowSize - 1) /\ windowLen \in 0..WindowSize
      /\ lastPpsAdvance \in Nat /\ hasPrev \in BOOLEAN
  BY <1>2 DEF WatcherInit
<1> QED
  BY <1>3, <1>4, <1>5, <1>6, <1>7 DEF WatcherTypeOK

\* In real time the state of the watcher and of the registers is what it is
\* declared to be; the counter, which does not wrap there, stays within its
\* width (pps.go, Watcher, ClockRef).
THEOREM PpsTyped == Spec => []TypeOK
<1> DEFINE Typed == WatcherTypeOK /\ troubleAt \in Nat
<1>1. Init => Typed
  BY WatcherInitTyped DEF Init
<1>2. PpsInv => hwCounter \in Ticks
  <2> SUFFICES ASSUME PpsInv PROVE hwCounter \in Ticks
    OBVIOUS
  <2>1. /\ hwCounter = edgeTime * TicksPerUnit /\ edgeTime <= clock /\ edgeTime \in Nat
        /\ clock \in 0..MaxTime /\ hwCounter \in Nat
    BY DEF PpsInv, EdgeInv, PpsTypes
  <2>2. edgeTime <= MaxTime /\ MaxTime \in Nat /\ TicksPerUnit \in Nat
    BY <2>1, Constants
  <2>3. edgeTime * TicksPerUnit <= MaxTime * TicksPerUnit
    BY <2>1, <2>2
  <2>4. MaxTime * TicksPerUnit < TickMod /\ MaxTime * TicksPerUnit \in Nat /\ TickMod \in Nat
    BY <2>2, Constants
  <2> QED
    BY <2>1, <2>3, <2>4 DEF Ticks
<1>3. PpsInv /\ Typed /\ [Next]_vars => Typed'
  <2> SUFFICES ASSUME PpsInv, Typed, [Next]_vars PROVE Typed'
    OBVIOUS
  <2>0. PpsTypes
    BY DEF PpsInv
  <2>1. CASE Pass
    <3>1. UNCHANGED watcherVars /\ (troubleAt' = troubleAt \/ troubleAt' = clock + 1)
      BY <2>1 DEF Pass, EdgeAt
    <3> QED
      BY <2>0, <3>1 DEF PpsTypes, WatcherTypeOK, watcherVars, statVars
  <2>2. CASE TakeTick
    BY <2>2 DEF TakeTick, history, WatcherTypeOK, watcherVars, statVars
  <2>3. ASSUME NEW synced \in BOOLEAN, Checked(synced) PROVE Typed'
    <3>1. UNCHANGED watcherVars /\ (troubleAt' = troubleAt \/ troubleAt' = clock)
      BY <2>3 DEF Checked
    <3> QED
      BY <2>0, <3>1 DEF PpsTypes, WatcherTypeOK, watcherVars, statVars
  <2>4. CASE ReadAndPublish
    <3>1. Update(hwCount, hwCounter, now, chronySynced') /\ troubleAt' = troubleAt
      BY <2>4 DEF ReadAndPublish
    <3>2. /\ hwCount \in 0..(CountMod - 1) /\ now \in Nat /\ hwCounter \in Ticks
          /\ chronySynced' \in BOOLEAN
      BY <1>2, <2>0, <2>4 DEF PpsTypes, ReadAndPublish
    <3> QED
      BY <3>1, <3>2, UpdateTyped
  <2>5. CASE UNCHANGED vars
    BY <2>5 DEF vars, history, WatcherTypeOK, watcherVars, statVars
  <2> QED
    BY <2>1, <2>2, <2>3, <2>4, <2>5 DEF Next
<1>4. PpsInv /\ Typed => TypeOK
  <2> SUFFICES ASSUME PpsInv, Typed PROVE TypeOK
    OBVIOUS
  <2>1. PpsTypes /\ WatcherTypeOK /\ troubleAt \in Nat /\ hwCounter \in Ticks
    BY <1>2 DEF PpsInv
  <2>2. tick # None => tick <= clock
    BY DEF PpsInv, PpsAt, LoopAt
  <2>3. tick \in 0..MaxTime \cup {None}
    <3>1. clock \in 0..MaxTime /\ MaxTime \in Nat /\ tick \in Nat \cup {None}
      BY <2>1, Constants DEF PpsTypes
    <3> QED
      BY <2>2, <3>1
  <2> QED
    BY <2>1, <2>3 DEF PpsTypes, TypeOK
<1> QED
  BY <1>1, <1>3, <1>4, AlwaysPpsInv, PTL DEF Spec

\* So are the watcher's statistics, over the wraps of both counters: the ring
\* is never indexed outside, and what is measured of an interval fits the
\* range of the signed difference (pps.go, update).
THEOREM StatsTyped == StatsSpec => []WatcherTypeOK
<1>1. StatsInit => WatcherTypeOK
  BY WatcherInitTyped DEF StatsInit
<1>2. WatcherTypeOK /\ StatsInv /\ [StatsNext]_sampleVars => WatcherTypeOK'
  <2> SUFFICES ASSUME WatcherTypeOK, StatsInv, [StatsNext]_sampleVars PROVE WatcherTypeOK'
    OBVIOUS
  <2>0. TickMod \in Nat \ {0} /\ CountMod \in Nat \ {0}
    BY Constants
  <2>1. CASE Start
    <3>1. PICK count \in {0, CountMod - 1}, counter \in {0, TickMod - 1} :
            Update(count, counter, 0, FALSE)
      BY <2>1 DEF Start
    <3>2. count \in 0..(CountMod - 1) /\ counter \in Ticks
      BY <2>0 DEF Ticks
    <3> QED
      BY <3>1, <3>2, UpdateTyped
  <2>2. ASSUME NEW n \in 0..MaxEdges, NEW jitter \in Jitters, NEW chronySynced_ \in BOOLEAN,
               Sample(n, jitter, chronySynced_)
        PROVE  WatcherTypeOK'
    <3> DEFINE count == (prevCount + n) % CountMod
               counter == (prevCounter + (IF n = 0 THEN 0 ELSE n * NominalTicks + jitter)) % TickMod
    <3>1. Update(count, counter, samples, chronySynced_)
      BY <2>2 DEF Sample
    <3>2. n \in Int /\ jitter \in Int /\ prevCount \in Int /\ prevCounter \in Int
          /\ NominalTicks \in Int /\ samples \in Nat
      BY StatsAssumption, Constants DEF StatsInv, StatsTypes, Ticks
    <3>3. count \in 0..(CountMod - 1)
      BY <2>0, <3>2, Division
    <3>4. counter \in Ticks
      BY <2>0, <3>2, Division DEF Ticks
    <3> HIDE DEF count, counter
    <3> QED
      BY <3>1, <3>2, <3>3, <3>4, UpdateTyped
  <2>3. CASE UNCHANGED sampleVars
    BY <2>3 DEF sampleVars, WatcherTypeOK, watcherVars, statVars
  <2> QED
    BY <2>1, <2>2, <2>3 DEF StatsNext
<1> QED
  BY <1>1, <1>2, InitStatsInv, NextStatsInv, PTL DEF StatsSpec
=============================================================================
