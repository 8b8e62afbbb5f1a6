------------------------- MODULE MessagePath_proofs -------------------------
(***************************************************************************)
(* Theorems about the way of a message from a decoder's slot to the AXI    *)
(* registers: MessageAggregator and AsyncFifo, which adsb_top puts behind  *)
(* it.                                                                     *)
(*                                                                         *)
(* For any number of decoders, a message that is taken is output once and  *)
(* waits for at most one turn of the arbiter, and none is lost at the rate *)
(* the decoders are meant to keep.  The invariant says where the arbiter   *)
(* is relative to each message: the slot being cleared is the one it has   *)
(* just left, and a message has waited for the cycles the arbiter has come *)
(* closer.                                                                 *)
(*                                                                         *)
(* For any number of address bits and any messages, the FIFO implements    *)
(* the queue, its fill count never exceeds what is in it, and a toggle     *)
(* that has not crossed owes an overflow.                                  *)
(***************************************************************************)
EXTENDS AsyncFifo, MessageAggregator, WellFoundedInduction, FiniteSetTheorems,
        TLAPS

(* The cycles until an arbiter at slot j looks at slot i *)
Turns(j, i) == IF j >= i THEN j - i ELSE j - i + N
Distance(i) == Turns(idx, i)

ClearIsBehind == clear \subseteq {i \in Decoders : i # idx /\ Distance(i) = N - 1}
OwedIsHeld == OutputOnce /\ clear \subseteq valid
AggTyped == /\ valid \subseteq Decoders
            /\ idx \in Decoders
            /\ wait \in [Decoders -> Nat]
            /\ owed \subseteq Decoders

WaitIsTurn == \A i \in owed : wait[i] + Distance(i) < N

TurnInv == AggTyped /\ ClearIsBehind /\ OwedIsHeld /\ WaitIsTurn

(* Moving on brings the arbiter one slot closer to all but the one it was   *)
(* at, which is now the farthest.                                           *)
LEMMA TurnsStep ==
  ASSUME NEW j \in Decoders
  PROVE  /\ Rotate(j) \in Decoders
         /\ Rotate(j) # j
         /\ Turns(Rotate(j), j) = N - 1
         /\ \A i \in Decoders \ {j} : Turns(Rotate(j), i) = Turns(j, i) - 1
BY AggregatorAssumption DEF Decoders, Rotate, Turns

LEMMA TurnsRange ==
  ASSUME NEW j \in Decoders, NEW i \in Decoders
  PROVE  Turns(j, i) \in 0..(N - 1) /\ (Turns(j, i) = 0 <=> i = j)
BY AggregatorAssumption DEF Decoders, Turns

LEMMA InitTurnInv == AggInit => TurnInv
BY AggregatorAssumption DEF AggInit, TurnInv, AggTyped, ClearIsBehind, OwedIsHeld,
   OutputOnce, WaitIsTurn, Decoders

LEMMA ClockKeepsTurnInv ==
  ASSUME TurnInv, NEW in_valid \in SUBSET Decoders, Clock(in_valid)
  PROVE  TurnInv'
<1> DEFINE hit == idx \in valid
<1>1. /\ idx \in Decoders /\ valid \subseteq Decoders /\ owed \subseteq Decoders
      /\ wait \in [Decoders -> Nat]
      /\ owed = valid \ clear /\ clear \subseteq valid
      /\ idx \notin clear
  BY DEF TurnInv, AggTyped, ClearIsBehind, OwedIsHeld, OutputOnce
<1>2. /\ valid' = (valid \ clear) \cup ((in_valid \ clear) \ valid)
      /\ clear' = IF hit THEN {idx} ELSE {}
      /\ idx' = Rotate(idx)
      /\ owed' = (owed \ (IF hit THEN {idx} ELSE {})) \cup ((in_valid \ clear) \ valid)
      /\ wait' = [i \in Decoders |->
                    IF i \in (in_valid \ clear) \ valid \/ i \notin owed' THEN 0
                    ELSE wait[i] + 1]
  BY DEF Clock, Hold, Taken
<1>3. AggTyped'
  <2>1. idx' \in Decoders
    BY <1>1, <1>2, TurnsStep
  <2>2. wait' \in [Decoders -> Nat]
    BY <1>1, <1>2
  <2> QED
    BY <1>1, <1>2, <2>1, <2>2 DEF AggTyped
<1>4. ClearIsBehind'
  <2>1. clear' \subseteq {idx}
    BY <1>2
  <2>2. idx # Rotate(idx) /\ Turns(Rotate(idx), idx) = N - 1
    BY <1>1, TurnsStep
  <2> QED
    BY <1>1, <1>2, <2>1, <2>2 DEF ClearIsBehind, Distance
<1>5. OwedIsHeld'
  BY <1>1, <1>2 DEF OwedIsHeld, OutputOnce
<1>6. WaitIsTurn'
  <2> SUFFICES ASSUME NEW i \in owed'
               PROVE  wait'[i] + Distance(i)' < N
    BY DEF WaitIsTurn
  <2>1. i \in Decoders /\ idx' \in Decoders
    BY <1>3 DEF AggTyped
  <2>2. Distance(i)' \in 0..(N - 1)
    BY <2>1, TurnsRange DEF Distance
  <2>3. CASE i \in (in_valid \ clear) \ valid
    <3>1. wait'[i] = 0
      BY <1>2, <2>1, <2>3
    <3> QED
      BY <3>1, <2>2, AggregatorAssumption
  <2>4. CASE i \notin (in_valid \ clear) \ valid
    <3>1. i \in owed /\ i # idx
      BY <1>1, <1>2, <2>4
    <3>2. wait'[i] = wait[i] + 1
      BY <1>2, <2>1, <2>4
    <3>3. wait[i] + Distance(i) < N
      BY <3>1 DEF TurnInv, WaitIsTurn
    <3>4. Distance(i)' = Distance(i) - 1
      BY <1>1, <1>2, <2>1, <3>1, TurnsStep DEF Distance
    <3>5. Distance(i) \in 0..(N - 1) /\ wait[i] \in Nat
      BY <1>1, <2>1, TurnsRange DEF Distance
    <3> QED
      BY <3>2, <3>3, <3>4, <3>5, AggregatorAssumption
  <2> QED
    BY <2>3, <2>4
<1> QED
  BY <1>3, <1>4, <1>5, <1>6 DEF TurnInv

LEMMA StepTurnInv == TurnInv /\ [AggNext]_aggVars => TurnInv'
<1> SUFFICES ASSUME TurnInv, [AggNext]_aggVars PROVE TurnInv'
  OBVIOUS
<1>1. ASSUME NEW in_valid \in SUBSET {i \in Decoders : since[i] = Gap}, Clock(in_valid)
      PROVE  TurnInv'
  <2>1. in_valid \in SUBSET Decoders
    OBVIOUS
  <2> QED
    BY <1>1, <2>1, ClockKeepsTurnInv
<1>3. CASE AggReset
  BY <1>3, AggregatorAssumption DEF AggReset, TurnInv, AggTyped, ClearIsBehind, OwedIsHeld,
     OutputOnce, WaitIsTurn, Decoders
<1>2. CASE UNCHANGED aggVars
  BY <1>2 DEF aggVars, TurnInv, AggTyped, ClearIsBehind, OwedIsHeld, OutputOnce,
     WaitIsTurn, Distance, Turns
<1> QED
  BY <1>1, <1>2, <1>3 DEF AggNext

LEMMA AlwaysTurnInv == AggSpec => []TurnInv
BY InitTurnInv, StepTurnInv, PTL DEF AggSpec

(* message_aggregator.vhd, holding slots and arbiter: no message is output  *)
(* twice, none is overwritten, for every number of decoders above one.      *)
THEOREM OnceEach == AggSpec => []OutputOnce
<1>1. TurnInv => OutputOnce
  BY DEF TurnInv, OwedIsHeld
<1> QED
  BY <1>1, AlwaysTurnInv, PTL

(* The round robin is fair: no decoder waits for longer than one turn.      *)
THEOREM FairTurns == AggSpec => []ServedInOneTurn
<1>1. TurnInv => ServedInOneTurn
  <2> SUFFICES ASSUME TurnInv, NEW i \in owed PROVE wait[i] < N
    BY DEF ServedInOneTurn
  <2>1. i \in Decoders /\ idx \in Decoders /\ wait[i] \in Nat
    BY DEF TurnInv, AggTyped
  <2>2. wait[i] + Distance(i) < N
    BY DEF TurnInv, WaitIsTurn
  <2> QED
    BY <2>1, <2>2, TurnsRange, AggregatorAssumption DEF Distance
<1> QED
  BY <1>1, AlwaysTurnInv, PTL

----------------------------------------------------------------------------

(* What keeps messages from being lost is time: a message that waits is as  *)
(* old as it has waited, and one whose slot is being cleared is N + 1       *)
(* cycles old at most; the next of that decoder is not due for either.      *)
SinceTyped == since \in [Decoders -> Nat]
OwedIsYoung == \A i \in owed : since[i] = wait[i] + 1
ClearIsYoung == \A i \in clear : since[i] =< N + 1
LossInv == TurnInv /\ SinceTyped /\ OwedIsYoung /\ ClearIsYoung /\ NothingLost

LEMMA InitLossInv == AggInit => LossInv
<1> SUFFICES ASSUME AggInit PROVE LossInv
  OBVIOUS
<1> QED
  BY InitTurnInv, AggregatorAssumption
  DEF AggInit, LossInv, SinceTyped, OwedIsYoung, ClearIsYoung, NothingLost

LEMMA ClockLosesNothing ==
  ASSUME Gap >= N + 2, LossInv,
         NEW in_valid \in SUBSET {i \in Decoders : since[i] = Gap},
         Clock(in_valid)
  PROVE  LossInv'
<1>1. /\ TurnInv /\ idx \in Decoders /\ valid \subseteq Decoders
      /\ wait \in [Decoders -> Nat] /\ since \in [Decoders -> Nat]
      /\ owed = valid \ clear /\ clear \subseteq valid
      /\ owed \subseteq Decoders /\ idx \notin clear
  BY DEF LossInv, SinceTyped, TurnInv, AggTyped, ClearIsBehind, OwedIsHeld, OutputOnce
<1>2. /\ clear' = IF idx \in valid THEN {idx} ELSE {}
      /\ since' = [i \in Decoders |->
                     IF i \in in_valid THEN 1 ELSE Cap(since[i] + 1, Gap)]
      /\ owed' = (owed \ (IF idx \in valid THEN {idx} ELSE {})) \cup Taken(in_valid)
      /\ wait' = [i \in Decoders |-> IF i \in Taken(in_valid) \/ i \notin owed' THEN 0
                                     ELSE wait[i] + 1]
      /\ lost' = Cap(lost + Cardinality(in_valid \ Taken(in_valid)), MaxLost)
  BY DEF Clock
<1>3. Gap \in Nat /\ N \in Nat /\ MaxLost \in Nat
  BY AggregatorAssumption
<1>4. TurnInv'
  <2>1. in_valid \in SUBSET Decoders
    OBVIOUS
  <2> QED
    BY <1>1, <2>1, ClockKeepsTurnInv
(* The ages of the messages the code has still to do with *)
<1>5. \A i \in owed : since[i] = wait[i] + 1 /\ since[i] =< N
  <2> SUFFICES ASSUME NEW i \in owed
               PROVE  since[i] = wait[i] + 1 /\ since[i] =< N
    OBVIOUS
  <2>1. wait[i] + Turns(idx, i) < N /\ since[i] = wait[i] + 1
    BY DEF LossInv, TurnInv, WaitIsTurn, Distance, OwedIsYoung
  <2>2. Turns(idx, i) \in 0..(N - 1) /\ wait[i] \in Nat
    BY <1>1, TurnsRange
  <2> QED
    BY <1>3, <2>1, <2>2
<1>6. \A i \in clear : since[i] =< N + 1
  BY DEF LossInv, ClearIsYoung
<1>7. in_valid = Taken(in_valid)
  <2> SUFFICES ASSUME NEW i \in in_valid PROVE i \notin clear /\ i \notin valid
    BY DEF Taken
  <2>1. since[i] = Gap
    OBVIOUS
  <2>2. i \notin clear
    BY <1>3, <1>6, <2>1
  <2>3. i \notin owed
    BY <1>3, <1>5, <2>1
  <2> QED
    BY <1>1, <2>2, <2>3
<1>8. SinceTyped'
  BY <1>1, <1>2, <1>3 DEF SinceTyped, Cap
<1>9. OwedIsYoung'
  <2> SUFFICES ASSUME NEW i \in owed' PROVE since'[i] = wait'[i] + 1
    BY DEF OwedIsYoung
  <2>1. i \in Decoders
    BY <1>1, <1>2, <1>7
  <2>2. CASE i \in in_valid
    BY <1>2, <1>7, <2>1, <2>2
  <2>3. CASE i \notin in_valid
    <3>1. i \in owed
      BY <1>2, <1>7, <2>3
    <3>2. since'[i] = Cap(since[i] + 1, Gap) /\ wait'[i] = wait[i] + 1
      BY <1>2, <1>7, <2>1, <2>3
    <3>3. since[i] \in Nat /\ wait[i] \in Nat
      BY <1>1, <2>1
    <3> QED
      BY <1>3, <1>5, <3>1, <3>2, <3>3 DEF Cap
  <2> QED
    BY <2>2, <2>3
<1>10. ClearIsYoung'
  <2> SUFFICES ASSUME idx \in valid PROVE since'[idx] =< N + 1
    BY <1>2 DEF ClearIsYoung
  <2>1. idx \in owed
    BY <1>1
  <2>2. since[idx] =< N /\ since[idx] \in Nat
    BY <1>1, <1>5, <2>1
  <2>3. since'[idx] = 1 \/ since'[idx] = Cap(since[idx] + 1, Gap)
    BY <1>1, <1>2
  <2> QED
    BY <1>3, <2>2, <2>3 DEF Cap
<1>11. NothingLost'
  <2>1. in_valid \ Taken(in_valid) = {}
    BY <1>7
  <2>2. lost = 0 /\ Cardinality({}) = 0
    BY FS_EmptySet DEF LossInv, NothingLost
  <2> QED
    BY <1>2, <1>3, <2>1, <2>2 DEF NothingLost, Cap
<1> QED
  BY <1>4, <1>8, <1>9, <1>10, <1>11 DEF LossInv

LEMMA StepLossInv == Gap >= N + 2 /\ LossInv /\ [AggNext]_aggVars => LossInv'
<1> SUFFICES ASSUME Gap >= N + 2, LossInv, [AggNext]_aggVars PROVE LossInv'
  OBVIOUS
<1>1. ASSUME NEW in_valid \in SUBSET {i \in Decoders : since[i] = Gap}, Clock(in_valid)
      PROVE  LossInv'
  BY <1>1, ClockLosesNothing
<1>3. CASE AggReset
  <2>1. TurnInv'
    BY <1>3, StepTurnInv DEF LossInv, AggNext
  <2> QED
    BY <1>3, <2>1 DEF AggReset, LossInv, SinceTyped, OwedIsYoung, ClearIsYoung, NothingLost
<1>2. CASE UNCHANGED aggVars
  <2>1. TurnInv'
    BY <1>2, StepTurnInv DEF LossInv
  <2> QED
    BY <1>2, <2>1 DEF aggVars, LossInv, SinceTyped, OwedIsYoung, ClearIsYoung, NothingLost
<1> QED
  BY <1>1, <1>2, <1>3 DEF AggNext

(* The comment of hold_msg that an occupied slot "shouldn't happen in       *)
(* practice": with N + 2 cycles between two messages of a decoder, none is  *)
(* lost, however the decoders' messages fall together.                      *)
THEOREM SlowDecodersLoseNothing ==
  ASSUME Gap >= N + 2
  PROVE  AggSpec => []NothingLost
<1>1. LossInv /\ [AggNext]_aggVars => LossInv'
  BY StepLossInv
<1>2. LossInv => NothingLost
  BY DEF LossInv
<1> QED
  BY <1>1, <1>2, InitLossInv, PTL DEF AggSpec

LEMMA CapIs ==
  ASSUME NEW n \in Nat, NEW m \in Nat
  PROVE  Cap(n, m) \in 0..m /\ (n > 0 /\ m > 0 => Cap(n, m) \in 1..m)
BY DEF Cap

\* The slots, counts and ages stay in their ranges (message_aggregator.vhd).
THEOREM AggregatorTyped == AggSpec => []AggTypeOK
<1>1. AggInit => AggTypeOK
  BY AggregatorAssumption DEF AggInit, AggTypeOK, Decoders
<1>2. ASSUME AggTypeOK, NEW in_valid \in SUBSET {i \in Decoders : since[i] = Gap},
             Clock(in_valid)
      PROVE  AggTypeOK'
  <2>1. /\ N \in Nat /\ N > 1 /\ MsgsPerTimeout \in Nat /\ MsgsPerTimeout > 0
        /\ PacketTimeout \in Nat /\ PacketTimeout > 0 /\ Gap \in Nat /\ Gap > 0
        /\ MaxLost \in Nat
    BY AggregatorAssumption
  <2>2. IsFiniteSet(Decoders) /\ in_valid \subseteq Decoders
    BY <2>1, FS_Interval DEF Decoders
  <2>3. \A S \in SUBSET Decoders : Cardinality(S) \in Nat
    BY <2>2, FS_Subset, FS_CardinalityType
  <2>4. /\ Taken(in_valid) \subseteq Decoders /\ Dropped(in_valid) \subseteq Decoders
        /\ in_valid \ Taken(in_valid) \subseteq Decoders
    BY <2>2 DEF Taken, Dropped
  <2>5. dropCount' \in 0..MaxLost
    <3>1. dropCount + (IF Dropped(in_valid) = {} THEN 0 ELSE 1) \in Nat
      BY <1>2, <2>1 DEF AggTypeOK
    <3> QED
      BY <1>2, <2>1, <3>1, CapIs DEF Clock
  <2>6. lost' \in 0..MaxLost
    <3>1. lost + Cardinality(in_valid \ Taken(in_valid)) \in Nat
      BY <1>2, <2>1, <2>3, <2>4 DEF AggTypeOK
    <3> QED
      BY <1>2, <2>1, <3>1, CapIs DEF Clock
  <2>7. since' \in [Decoders -> 1..Gap]
    <3>1. \A i \in Decoders : Cap(since[i] + 1, Gap) \in 1..Gap
      <4>1. SUFFICES ASSUME NEW i \in Decoders PROVE Cap(since[i] + 1, Gap) \in 1..Gap
        OBVIOUS
      <4>2. since[i] + 1 \in Nat /\ since[i] + 1 > 0
        BY <1>2, <2>1 DEF AggTypeOK
      <4> QED
        BY <2>1, <4>2, CapIs
    <3> QED
      BY <1>2, <2>1, <3>1 DEF Clock
  <2>8. idx' \in Decoders
    BY <1>2, <2>1, TurnsStep DEF AggTypeOK, Clock
  <2>9. valid' \subseteq Decoders /\ clear' \subseteq Decoders
    BY <1>2, <2>4 DEF AggTypeOK, Clock, Hold
  <2>10. owed' \subseteq Decoders
    BY <1>2, <2>4 DEF AggTypeOK, Clock
  <2>11. wait' \in [Decoders -> Nat]
    BY <1>2 DEF AggTypeOK, Clock
  <2>12. /\ count \in 0..(MsgsPerTimeout - 1) /\ downcount \in 0..PacketTimeout
         /\ count' = NextCount(idx \in valid) /\ downcount' = NextDowncount(idx \in valid)
         /\ out' = Output(idx \in valid)
    BY <1>2 DEF AggTypeOK, Clock
  <2>13. count' \in 0..(MsgsPerTimeout - 1)
    BY <2>1, <2>12 DEF NextCount
  <2>14. downcount' \in 0..PacketTimeout
    BY <2>1, <2>12 DEF NextDowncount, Timer, TimedOut
  <2>15. out' \in Decoders \cup {Padding, None}
    BY <1>2, <2>12 DEF Output, AggTypeOK
  <2> QED
    BY <2>5, <2>6, <2>7, <2>8, <2>9, <2>10, <2>11, <2>13, <2>14, <2>15, Zenon DEF AggTypeOK
<1>3. ASSUME AggTypeOK, AggReset PROVE AggTypeOK'
  <2>1. /\ N \in Nat /\ N > 1 /\ MsgsPerTimeout \in Nat /\ MsgsPerTimeout > 0
        /\ PacketTimeout \in Nat /\ MaxLost \in Nat
    BY AggregatorAssumption
  <2>2. /\ valid' = {} /\ clear' = {} /\ dropCount' = 0 /\ idx' = 0
        /\ count' = MsgsPerTimeout - 1 /\ downcount' = PacketTimeout /\ out' = None
        /\ owed' = {} /\ since' = since /\ lost' = lost
    BY <1>3 DEF AggReset
  <2>3. wait' \in [Decoders -> Nat]
    BY <1>3 DEF AggReset
  <2>4. 0 \in Decoders /\ 0 \in 0..MaxLost /\ PacketTimeout \in 0..PacketTimeout
        /\ MsgsPerTimeout - 1 \in 0..(MsgsPerTimeout - 1)
    BY <2>1 DEF Decoders
  <2>5. since \in [Decoders -> 1..Gap] /\ lost \in 0..MaxLost
    BY <1>3 DEF AggTypeOK
  <2> QED
    BY <2>2, <2>3, <2>4, <2>5 DEF AggTypeOK
<1>4. ASSUME AggTypeOK, UNCHANGED aggVars PROVE AggTypeOK'
  BY <1>4 DEF AggTypeOK, aggVars
<1>5. AggTypeOK /\ [AggNext]_aggVars => AggTypeOK'
  BY <1>2, <1>3, <1>4 DEF AggNext
<1> QED
  BY <1>1, <1>5, PTL DEF AggSpec

----------------------------------------------------------------------------

(* A set of naturals that is not empty has a least member: what stands for *)
(* induction below.                                                        *)
LEMMA Least ==
  ASSUME NEW S \in SUBSET Nat, S # {}
  PROVE  \E x \in S : \A y \in S : x <= y
<1>1. \E x \in S : \A y \in S : ~(<<y, x>> \in OpToRel(<, Nat))
  BY NatLessThanWellFounded, WFMin
<1>2. \A x, y \in Nat : y < x => <<y, x>> \in OpToRel(<, Nat)
  BY DEF OpToRel
<1>3. \E x \in S : \A y \in S : ~(y < x)
  BY <1>1, <1>2, Zenon
<1> QED
  BY <1>3

(* Induction for a set of the positions 0..n.                              *)
LEMMA Climb ==
  ASSUME NEW n \in Nat, NEW S, 0 \in S,
         \A i \in 0..(n - 1) : i \in S => i + 1 \in S
  PROVE  0..n \subseteq S
<1> DEFINE T == (0..n) \ S
<1>1. SUFFICES ASSUME T # {} PROVE FALSE
  OBVIOUS
<1>2. T \in SUBSET Nat
  OBVIOUS
<1>3. PICK x \in T : \A y \in T : x <= y
  BY <1>1, <1>2, Least
<1>4. x # 0 /\ x - 1 \in 0..(n - 1)
  OBVIOUS
<1>5. x - 1 \notin T
  BY <1>3, <1>4
<1>6. x - 1 \in S
  BY <1>4, <1>5
<1>7. (x - 1) + 1 \in S
  BY <1>4, <1>6
<1> QED
  BY <1>4, <1>7

----------------------------------------------------------------------------

(* Powers of two: the number of the subsets of 1..n.                       *)
LEMMA Power ==
  ASSUME NEW n \in Nat
  PROVE  2^n \in Nat \ {0} /\ 2^(n + 1) = 2 * 2^n
<1> DEFINE S == SUBSET (1..n)
           X == n + 1
           U == {T \cup {X} : T \in S}
<1>1. IsFiniteSet(1..n) /\ Cardinality(1..n) = n
  BY FS_Interval
<1>2. IsFiniteSet(S) /\ Cardinality(S) = 2^n
  BY <1>1, FS_SUBSET
<1>3. IsFiniteSet(1..X) /\ Cardinality(1..X) = X
  BY FS_Interval
<1>4. IsFiniteSet(SUBSET (1..X)) /\ Cardinality(SUBSET (1..X)) = 2^X
  BY <1>3, FS_SUBSET
<1>5. X \notin 1..n /\ 1..X = (1..n) \cup {X}
  OBVIOUS
<1>6. SUBSET (1..X) = S \cup U
  <2>1. ASSUME NEW T \in SUBSET (1..X)
        PROVE  T \in S \cup U
    <3>1. CASE X \in T
      <4>1. T \ {X} \in S /\ T = (T \ {X}) \cup {X}
        BY <1>5, <3>1
      <4> QED
        BY <4>1
    <3>2. CASE X \notin T
      BY <1>5, <3>2
    <3> QED
      BY <3>1, <3>2
  <2>2. \A T \in S : T \subseteq 1..X /\ T \cup {X} \subseteq 1..X
    BY <1>5
  <2>3. S \subseteq SUBSET (1..X) /\ U \subseteq SUBSET (1..X)
    BY <2>2, Zenon
  <2> QED
    BY <2>1, <2>3, Zenon
<1>7. S \cap U = {}
  BY <1>5
<1>8. IsFiniteSet(U) /\ Cardinality(U) = 2^n
  <2> DEFINE f == [T \in S |-> T \cup {X}]
  <2>1. f \in Bijection(S, U)
    <3>1. f \in Surjection(S, U)
      BY DEF Surjection
    <3>2. f \in Injection(S, U)
      <4>1. f \in [S -> U]
        OBVIOUS
      <4>2. ASSUME NEW a \in S, NEW b \in S, f[a] = f[b]
            PROVE  a = b
        <5>1. a \cup {X} = b \cup {X} /\ X \notin a /\ X \notin b
          BY <1>5, <4>2
        <5> QED
          BY <5>1
      <4> QED
        BY <4>1, <4>2, Zenon DEF Injection, IsInjective
    <3> QED
      BY <3>1, <3>2 DEF Bijection
  <2> QED
    BY <1>2, <2>1, FS_Bijection DEF ExistsBijection
<1> HIDE DEF S, U, X
<1>9. Cardinality(S \cup U) = Cardinality(S) + Cardinality(U) - Cardinality(S \cap U)
  BY <1>2, <1>8, FS_Union
<1>10. Cardinality({}) = 0
  BY FS_EmptySet
<1>11. 2^n \in Nat
  BY <1>2, FS_CardinalityType
<1>12. 2^X = 2^n + 2^n
  <2>1. 2^X = Cardinality(S \cup U)
    BY <1>4, <1>6
  <2>2. Cardinality(S \cup U) = 2^n + 2^n - 0
    BY <1>2, <1>7, <1>8, <1>9, <1>10
  <2> QED
    BY <1>11, <2>1, <2>2
<1>13. 2^n # 0
  <2>1. {} \in S
    BY DEF S
  <2> QED
    BY <1>2, <2>1, FS_EmptySet
<1> QED
  BY <1>11, <1>12, <1>13 DEF X

(* Division, and the bits of a number.                                     *)
LEMMA Division ==
  ASSUME NEW w \in Nat \ {0}, NEW e \in Nat
  PROVE  /\ e \div w \in Nat /\ e % w \in 0..(w - 1)
         /\ e = w * (e \div w) + (e % w)
BY SMT

LEMMA Quotient ==
  ASSUME NEW w \in Nat \ {0}, NEW q \in Nat, NEW r \in 0..(w - 1)
  PROVE  (w * q + r) \div w = q
<1> DEFINE e == w * q + r
           k == e \div w
           m == e % w
<1>1. e \in Nat
  BY SMT
<1>2. k \in Nat /\ m \in 0..(w - 1) /\ e = w * k + m
  BY <1>1, Division
<1> HIDE DEF k, m
<1>3. w * q + r = w * k + m
  BY <1>2
<1> HIDE DEF e
<1>4. CASE q < k
  <2>1. k - q \in Nat /\ k - q >= 1 /\ w * (k - q) = w * k - w * q
    BY <1>2, <1>4, SMT
  <2>2. w * (k - q) >= w
    BY <2>1, SMT
  <2> QED
    BY <1>2, <1>3, <2>1, <2>2, SMT
<1>5. CASE k < q
  <2>1. q - k \in Nat /\ q - k >= 1 /\ w * (q - k) = w * q - w * k
    BY <1>2, <1>5, SMT
  <2>2. w * (q - k) >= w
    BY <2>1, SMT
  <2> QED
    BY <1>2, <1>3, <2>1, <2>2, SMT
<1> QED
  BY <1>2, <1>4, <1>5 DEF k, e

(* What is left of a number above its bit i.                               *)
High(n, i) == n \div 2^i

LEMMA Half ==
  ASSUME NEW n \in Nat, NEW i \in Nat
  PROVE  /\ High(n, i) \in Nat /\ High(n, i + 1) \in Nat /\ Bit(n, i) \in {0, 1}
         /\ High(n, i) = 2 * High(n, i + 1) + Bit(n, i)
<1> DEFINE w == 2^i
           k == High(n, i)
           j == k \div 2
           b == Bit(n, i)
           m == n % w
<1>1. w \in Nat \ {0} /\ 2^(i + 1) = 2 * w
  BY Power
<1>2. k \in Nat /\ m \in 0..(w - 1) /\ n = w * k + m
  BY <1>1, Division DEF High
<1>3. j \in Nat /\ b \in {0, 1} /\ k = 2 * j + b
  BY <1>2 DEF Bit, High
<1>4. High(n, i + 1) = n \div (2 * w)
  BY <1>1 DEF High
<1> HIDE DEF w, k, j, b, m
<1>5. 2 * w \in Nat \ {0}
  BY <1>1
<1>6. w * b + m \in 0..(2 * w - 1)
  BY <1>1, <1>2, <1>3
<1>7. n = (2 * w) * j + (w * b + m)
  BY <1>1, <1>2, <1>3, SMT
<1>8. ((2 * w) * j + (w * b + m)) \div (2 * w) = j
  BY <1>3, <1>5, <1>6, Quotient
<1>9. High(n, i + 1) = j
  BY <1>4, <1>7, <1>8
<1> QED
  BY <1>2, <1>3, <1>9 DEF k, b

LEMMA Ends ==
  ASSUME NEW n \in Nat, NEW k \in Nat
  PROVE  High(n, 0) = n /\ (n < 2^k => High(n, k) = 0)
<1>1. 2^0 \in Nat \ {0} /\ 2^0 = 1
  BY Power
<1>2. High(n, 0) = n
  BY <1>1 DEF High
<1>3. ASSUME n < 2^k PROVE High(n, k) = 0
  <2>1. 2^k \in Nat \ {0} /\ n \in 0..(2^k - 1)
    BY <1>3, Power
  <2>2. (2^k * 0 + n) \div 2^k = 0
    BY <2>1, Quotient
  <2>3. 2^k * 0 + n = n
    BY <2>1
  <2> QED
    BY <2>2, <2>3 DEF High
<1> QED
  BY <1>2, <1>3

(* Adding one: a carry goes up to the first bit that is 0, and no further. *)
LEMMA Carry ==
  ASSUME NEW n \in Nat
  PROVE  \A i \in Nat : High(n + 1, i) \in {High(n, i), High(n, i) + 1}
<1> DEFINE S == {i \in Nat : High(n + 1, i) \in {High(n, i), High(n, i) + 1}}
<1>1. 0 \in S
  BY Ends
<1>2. ASSUME NEW i \in Nat, i \in S
      PROVE  i + 1 \in S
  <2>1. /\ High(n, i) \in Nat /\ High(n, i + 1) \in Nat /\ Bit(n, i) \in {0, 1}
        /\ High(n, i) = 2 * High(n, i + 1) + Bit(n, i)
    BY Half
  <2>2. /\ High(n + 1, i) \in Nat /\ High(n + 1, i + 1) \in Nat /\ Bit(n + 1, i) \in {0, 1}
        /\ High(n + 1, i) = 2 * High(n + 1, i + 1) + Bit(n + 1, i)
    BY Half
  <2> QED
    BY <1>2, <2>1, <2>2
<1> HIDE DEF S
<1>3. ASSUME NEW k \in Nat
      PROVE  k \in S
  <2>1. 0..k \subseteq S
    BY <1>1, <1>2, Climb
  <2> QED
    BY <2>1
<1> QED
  BY <1>3 DEF S

LEMMA CarryStops ==
  ASSUME NEW n \in Nat, NEW i \in Nat, High(n + 1, i) = High(n, i)
  PROVE  \A j \in Nat : j >= i => High(n + 1, j) = High(n, j)
<1> DEFINE T == {j \in Nat : j >= i /\ High(n + 1, j) # High(n, j)}
<1>1. SUFFICES ASSUME T # {} PROVE FALSE
  OBVIOUS
<1>2. PICK x \in T : \A y \in T : x <= y
  BY <1>1, Least
<1>3. x \in Nat /\ x # i /\ x - 1 \in Nat /\ x - 1 >= i
  OBVIOUS
<1>4. High(n + 1, x - 1) = High(n, x - 1)
  BY <1>2, <1>3
<1>5. High(n + 1, (x - 1) + 1) = High(n, (x - 1) + 1)
  <2>1. /\ High(n, (x - 1) + 1) \in Nat /\ Bit(n, x - 1) \in {0, 1}
        /\ High(n, x - 1) = 2 * High(n, (x - 1) + 1) + Bit(n, x - 1)
    BY <1>3, Half
  <2> DEFINE m == n + 1
             y == x - 1
  <2>2. /\ High(m, y + 1) \in Nat /\ Bit(m, y) \in {0, 1}
        /\ High(m, y) = 2 * High(m, y + 1) + Bit(m, y)
    <3>1. m \in Nat /\ y \in Nat
      BY <1>3
    <3> HIDE DEF m, y
    <3> QED
      BY <3>1, Half
  <2> QED
    BY <1>4, <2>1, <2>2
<1>6. (x - 1) + 1 = x
  BY <1>3
<1> QED
  BY <1>5, <1>6

(* One bit of the Gray code changes with it.                               *)
LEMMA OneBit ==
  ASSUME NEW n \in Nat, NEW k \in Nat,
         ~((Bit(n, k) # Bit(n, k + 1)) <=> (Bit(n + 1, k) # Bit(n + 1, k + 1)))
  PROVE  High(n + 1, k) # High(n, k) /\ High(n + 1, k + 1) = High(n, k + 1)
<1> DEFINE a == High(n, k)  a1 == High(n, k + 1)  a2 == High(n, (k + 1) + 1)
           b == High(n + 1, k)  b1 == High(n + 1, k + 1)
           b2 == High(n + 1, (k + 1) + 1)
           x == Bit(n, k)  x1 == Bit(n, k + 1)
           y == Bit(n + 1, k)  y1 == Bit(n + 1, k + 1)
<1>1. a \in Nat /\ a1 \in Nat /\ x \in {0, 1} /\ a = 2 * a1 + x
  BY Half
<1>2. a2 \in Nat /\ x1 \in {0, 1} /\ a1 = 2 * a2 + x1
  BY Half
<1>3. b \in Nat /\ b1 \in Nat /\ y \in {0, 1} /\ b = 2 * b1 + y
  BY Half
<1>4. b2 \in Nat /\ y1 \in {0, 1} /\ b1 = 2 * b2 + y1
  BY Half
<1>5. b \in {a, a + 1} /\ b1 \in {a1, a1 + 1} /\ b2 \in {a2, a2 + 1}
  BY Carry
<1>6. ~((x # x1) <=> (y # y1))
  OBVIOUS
<1> HIDE DEF a, a1, a2, b, b1, b2, x, x1, y, y1
<1>7. b = a => x = y /\ b1 = a1
  BY <1>1, <1>3
<1>8. b1 = a1 => x1 = y1
  BY <1>2, <1>4
<1>9. b1 # a1 => x1 # y1 /\ x # y
  BY <1>1, <1>2, <1>3, <1>4, <1>5
<1>10. b # a /\ b1 = a1
  BY <1>1, <1>2, <1>3, <1>4, <1>6, <1>7, <1>8, <1>9
<1> QED
  BY <1>10 DEF a, a1, b, b1

LEMMA NoTwoBits ==
  ASSUME NEW n \in Nat, NEW k \in Nat, NEW l \in Nat,
         ~((Bit(n, k) # Bit(n, k + 1)) <=> (Bit(n + 1, k) # Bit(n + 1, k + 1))),
         ~((Bit(n, l) # Bit(n, l + 1)) <=> (Bit(n + 1, l) # Bit(n + 1, l + 1)))
  PROVE  k = l
<1>1. High(n + 1, k) # High(n, k) /\ High(n + 1, k + 1) = High(n, k + 1)
  BY OneBit
<1>2. High(n + 1, l) # High(n, l) /\ High(n + 1, l + 1) = High(n, l + 1)
  BY OneBit
<1>3. CASE k < l
  BY <1>1, <1>2, <1>3, CarryStops
<1>4. CASE l < k
  BY <1>1, <1>2, <1>4, CarryStops
<1> QED
  BY <1>3, <1>4

(* The Gray codes of n and n + 1 and of nothing else are caught between.   *)
LEMMA CaughtBetween ==
  ASSUME NEW v, NEW w, \A i, j \in Xor(v, w) : i = j
  PROVE  Caught(v, w) \subseteq {v, w} /\ v \in Caught(v, w) /\ w \in Caught(v, w)
<1>1. ASSUME NEW s \in SUBSET Xor(v, w)
      PROVE  (v \cap w) \cup s \in {v, w}
  BY DEF Xor
<1>2. v \ w \in SUBSET Xor(v, w) /\ w \ v \in SUBSET Xor(v, w)
  BY DEF Xor
<1>3. v = (v \cap w) \cup (v \ w) /\ w = (v \cap w) \cup (w \ v)
  OBVIOUS
<1> QED
  BY <1>1, <1>2, <1>3 DEF Caught

(* The pointers: two turns of the addresses.                               *)
LEMMA Sizes ==
  /\ AddrBits \in Nat \ {0} /\ DEPTH \in Nat \ {0}
  /\ 2^PtrBits = 2 * DEPTH /\ Pointers = 0..(2 * DEPTH - 1)
<1>1. AddrBits \in Nat \ {0}
  BY FifoAssumption
<1>2. 2^AddrBits \in Nat \ {0} /\ 2^(AddrBits + 1) = 2 * 2^AddrBits
  BY <1>1, Power
<1> QED
  BY <1>1, <1>2 DEF DEPTH, PtrBits, Pointers

LEMMA AtLeastTwo == DEPTH >= 2
<1>1. AddrBits - 1 \in Nat /\ AddrBits = (AddrBits - 1) + 1
  BY Sizes
<1>2. 2^(AddrBits - 1) \in Nat \ {0} /\ 2^((AddrBits - 1) + 1) = 2 * 2^(AddrBits - 1)
  BY <1>1, Power
<1>3. DEPTH = 2 * 2^(AddrBits - 1)
  BY <1>1, <1>2 DEF DEPTH
<1> QED
  BY <1>2, <1>3

(* A pointer has no bits from AddrBits + 1 up.                             *)
LEMMA NoHigher ==
  ASSUME NEW n \in Pointers
  PROVE  High(n, AddrBits + 1) = 0 /\ Bit(n, AddrBits + 1) = 0
<1>1. n \in Nat /\ AddrBits + 1 \in Nat /\ n < 2^(AddrBits + 1)
  BY Sizes DEF PtrBits
<1>2. High(n, AddrBits + 1) = 0
  BY <1>1, Ends
<1> QED
  BY <1>2 DEF Bit, High

(* A number is what its bits make of it.                                   *)
LEMMA SameBits ==
  ASSUME NEW m \in Pointers, NEW n \in Pointers, Bits(m) = Bits(n)
  PROVE  m = n
<1> DEFINE A == AddrBits + 1
           S == {k \in 0..A : High(m, A - k) = High(n, A - k)}
<1>1. A \in Nat /\ m \in Nat /\ n \in Nat
  BY Sizes
<1>2. 0 \in S
  BY <1>1, NoHigher
<1>3. ASSUME NEW k \in 0..(A - 1), k \in S
      PROVE  k + 1 \in S
  <2> DEFINE i == A - (k + 1)
  <2>1. i \in 0..AddrBits /\ i \in Nat /\ i + 1 = A - k /\ k + 1 \in 0..A
    BY <1>1, Sizes
  <2>2. High(m, i + 1) = High(n, i + 1)
    BY <1>3, <2>1
  <2> HIDE DEF i
  <2>3. Bit(m, i) \in {0, 1} /\ High(m, i) = 2 * High(m, i + 1) + Bit(m, i)
    BY <1>1, <2>1, Half
  <2>4. Bit(n, i) \in {0, 1} /\ High(n, i) = 2 * High(n, i + 1) + Bit(n, i)
    BY <1>1, <2>1, Half
  <2>5. Bit(m, i) = 1 <=> Bit(n, i) = 1
    BY <2>1 DEF Bits
  <2>6. High(m, i) = High(n, i)
    BY <2>2, <2>3, <2>4, <2>5
  <2> QED
    BY <2>1, <2>6 DEF i
<1> HIDE DEF S
<1>4. 0..A \subseteq S
  BY <1>1, <1>2, <1>3, Climb
<1>5. High(m, A - A) = High(n, A - A)
  BY <1>1, <1>4 DEF S
<1> HIDE DEF A
<1>6. High(m, 0) = High(n, 0)
  BY <1>1, <1>5
<1> QED
  BY <1>1, <1>6, Ends

(* Bit i of the Gray code of n                                             *)
LEMMA GrayIs ==
  ASSUME NEW n \in Pointers
  PROVE  /\ bin_to_gray[n] \in Vectors
         /\ \A i \in 0..AddrBits : i \in bin_to_gray[n] <=> Bit(n, i) # Bit(n, i + 1)
BY DEF bin_to_gray, Vectors

(* The positions of g from i up                                            *)
From(g, i) == {j \in g : j >= i}

LEMMA FromNone ==
  ASSUME NEW n \in Nat, NEW g \in SUBSET (0..n)
  PROVE  From(g, n + 1) = {}
<1>1. \A j \in g : ~(j >= n + 1)
  OBVIOUS
<1> QED
  BY <1>1, Zenon DEF From

LEMMA FromStep ==
  ASSUME NEW g \in SUBSET Nat, NEW i \in Nat
  PROVE  /\ i \notin From(g, i + 1)
         /\ i \in g => From(g, i) = From(g, i + 1) \cup {i}
         /\ i \notin g => From(g, i) = From(g, i + 1)
<1>1. \A j \in g : j >= i <=> (j >= i + 1 \/ j = i)
  OBVIOUS
<1>2. ~(i >= i + 1) /\ i >= i
  OBVIOUS
<1>3. i \notin From(g, i + 1)
  BY <1>2, Zenon DEF From
<1>4. ASSUME i \in g PROVE From(g, i) = From(g, i + 1) \cup {i}
  <2>1. \A j : j \in From(g, i) <=> j \in From(g, i + 1) \cup {i}
    BY <1>1, <1>4, Zenon DEF From
  <2> QED
    BY <2>1, Zenon
<1>5. ASSUME i \notin g PROVE From(g, i) = From(g, i + 1)
  <2>1. \A j : j \in From(g, i) <=> j \in From(g, i + 1)
    BY <1>1, <1>5, Zenon DEF From
  <2> QED
    BY <2>1, Zenon
<1> QED
  BY <1>3, <1>4, <1>5

LEMMA Flip ==
  ASSUME NEW c \in Nat, NEW x \in {0, 1}, NEW y \in {0, 1}, x # y, c % 2 = x
  PROVE  (c + 1) % 2 = y
OBVIOUS

(* The Gray code decodes to the pointer it was made of.                    *)
LEMMA GrayDecodes ==
  ASSUME NEW n \in Pointers
  PROVE  gray_to_bin[bin_to_gray[n]] = n
<1> DEFINE A == AddrBits + 1
           g == bin_to_gray[n]
           S == {k \in 0..A : /\ IsFiniteSet(From(g, A - k))
                              /\ Cardinality(From(g, A - k)) % 2 = Bit(n, A - k)}
<1>1. A \in Nat /\ n \in Nat /\ AddrBits \in Nat /\ A = AddrBits + 1
  BY Sizes
<1>2. g \in Vectors /\ \A i \in 0..AddrBits : i \in g <=> Bit(n, i) # Bit(n, i + 1)
  BY GrayIs
<1> HIDE DEF A, g
<1>3. 0 \in S
  <2>1. From(g, A) = {} /\ A - 0 = A
    BY <1>1, <1>2, FromNone DEF Vectors
  <2>2. IsFiniteSet({}) /\ Cardinality({}) = 0
    BY FS_EmptySet
  <2>3. Bit(n, A) = 0
    BY <1>1, NoHigher
  <2> QED
    <3>1. Cardinality(From(g, A - 0)) % 2 = Bit(n, A - 0) /\ IsFiniteSet(From(g, A - 0))
      BY <2>1, <2>2, <2>3
    <3> QED
      BY <1>1, <3>1
<1>4. ASSUME NEW k \in 0..(A - 1), k \in S
      PROVE  k + 1 \in S
  <2> DEFINE i == A - (k + 1)
  <2>1. i \in 0..AddrBits /\ i \in Nat /\ i + 1 = A - k /\ k + 1 \in 0..A
    BY <1>1
  <2>2. IsFiniteSet(From(g, i + 1)) /\ Cardinality(From(g, i + 1)) % 2 = Bit(n, i + 1)
    BY <1>4, <2>1
  <2> HIDE DEF i
  <2>3. g \in SUBSET Nat
    BY <1>2 DEF Vectors
  <2>4. /\ i \notin From(g, i + 1)
        /\ i \in g => From(g, i) = From(g, i + 1) \cup {i}
        /\ i \notin g => From(g, i) = From(g, i + 1)
    BY <2>1, <2>3, FromStep
  <2>5. Cardinality(From(g, i + 1)) \in Nat
    BY <2>2, FS_CardinalityType
  <2>6. /\ IsFiniteSet(From(g, i + 1) \cup {i})
        /\ Cardinality(From(g, i + 1) \cup {i}) = Cardinality(From(g, i + 1)) + 1
    BY <2>2, <2>4, FS_AddElement
  <2>7. Bit(n, i) \in {0, 1} /\ Bit(n, i + 1) \in {0, 1}
    <3>1. Bit(n, i) \in {0, 1}
      BY <1>1, <2>1, Half
    <3>2. i + 1 \in Nat
      BY <2>1
    <3>3. Bit(n, i + 1) \in {0, 1}
      BY <1>1, <3>2, Half
    <3> QED
      BY <3>1, <3>3
  <2>8. CASE i \in g
    <3>1. Bit(n, i) # Bit(n, i + 1)
      BY <1>2, <2>1, <2>8
    <3>2. (Cardinality(From(g, i + 1)) + 1) % 2 = Bit(n, i)
      BY <2>2, <2>5, <2>7, <3>1, Flip
    <3>3. IsFiniteSet(From(g, i)) /\ Cardinality(From(g, i)) % 2 = Bit(n, i)
      BY <2>4, <2>6, <2>8, <3>2, Zenon
    <3> QED
      BY <2>1, <3>3 DEF i
  <2>9. CASE i \notin g
    <3>1. Bit(n, i) = Bit(n, i + 1)
      BY <1>2, <2>1, <2>9
    <3>2. IsFiniteSet(From(g, i)) /\ Cardinality(From(g, i)) % 2 = Bit(n, i)
      BY <2>2, <2>4, <2>9, <3>1
    <3> QED
      BY <2>1, <3>2 DEF i
  <2> QED
    BY <2>8, <2>9
<1> HIDE DEF S
<1>5. 0..A \subseteq S
  BY <1>1, <1>3, <1>4, Climb
<1>6. ASSUME NEW i \in 0..AddrBits
      PROVE  Cardinality(From(g, i)) % 2 = Bit(n, i)
  <2>1. A - i \in S /\ A - (A - i) = i
    BY <1>1, <1>5
  <2> QED
    BY <2>1 DEF S
<1>7. {i \in 0..AddrBits : Cardinality(From(g, i)) % 2 = 1} = Bits(n)
  BY <1>6 DEF Bits
<1>8. gray_to_bin[g] = CHOOSE m \in Pointers : Bits(m) = Bits(n)
  BY <1>2, <1>7 DEF gray_to_bin, From
<1>9. \A m \in Pointers : Bits(m) = Bits(n) => m = n
  BY SameBits
<1> QED
  BY <1>8, <1>9 DEF g

----------------------------------------------------------------------------

(* Within a turn of its range, a remainder is one addition away.           *)
LEMMA Wrap ==
  ASSUME NEW w \in Nat \ {0}, NEW e \in (-w)..(2 * w - 1)
  PROVE  e % w = IF e < 0 THEN e + w ELSE IF e < w THEN e ELSE e - w
<1> DEFINE k == e \div w
           r == e % w
<1>1. k \in Int /\ r \in 0..(w - 1) /\ e = w * k + r
  BY SMT
<1> HIDE DEF k, r
<1>2. ~(k >= 2)
  <2>1. SUFFICES ASSUME k >= 2 PROVE FALSE
    OBVIOUS
  <2>2. w * (k - 2) >= 0 /\ w * (k - 2) = w * k - 2 * w
    BY <1>1, <2>1, SMT
  <2> QED
    BY <1>1, <2>2
<1>3. ~(k <= -2)
  <2>1. SUFFICES ASSUME k <= -2 PROVE FALSE
    OBVIOUS
  <2>2. w * (k + 2) <= 0 /\ w * (k + 2) = w * k + 2 * w
    BY <1>1, <2>1, SMT
  <2> QED
    BY <1>1, <2>2
<1>4. k \in {-1, 0, 1}
  BY <1>1, <1>2, <1>3
<1>5. k = -1 => e = r - w
  BY <1>1
<1>6. k = 0 => e = r
  BY <1>1
<1>7. k = 1 => e = w + r
  BY <1>1
<1>8. r = IF e < 0 THEN e + w ELSE IF e < w THEN e ELSE e - w
  BY <1>1, <1>4, <1>5, <1>6, <1>7
<1> QED
  BY <1>8 DEF r

LEMMA UpIs ==
  ASSUME NEW p \in Pointers
  PROVE  Up(p) = (IF p = 2 * DEPTH - 1 THEN 0 ELSE p + 1) /\ Up(p) \in Pointers
<1> DEFINE w == 2 * DEPTH
<1>1. w \in Nat \ {0} /\ p \in 0..(w - 1) /\ 2^PtrBits = w /\ Pointers = 0..(w - 1)
  BY Sizes
<1> HIDE DEF w
<1> DEFINE e == p + 1
<1>2. e \in (-w)..(2 * w - 1)
  BY <1>1
<1> HIDE DEF e
<1>3. e % w = IF e < 0 THEN e + w ELSE IF e < w THEN e ELSE e - w
  BY <1>1, <1>2, Wrap
<1> USE DEF e
<1>4. e % w = (IF p = w - 1 THEN 0 ELSE p + 1) /\ e % w \in 0..(w - 1)
  BY <1>1, <1>3
<1> QED
  BY <1>1, <1>4 DEF Up, w

LEMMA AddrIs ==
  ASSUME NEW p \in Pointers
  PROVE  /\ Addr(p) = (IF p < DEPTH THEN p ELSE p - DEPTH)
         /\ Addr(p) \in 0..(DEPTH - 1)
<1> DEFINE w == DEPTH
<1>1. w \in Nat \ {0} /\ p \in 0..(2 * w - 1)
  BY Sizes
<1> HIDE DEF w
<1>2. p \in (-w)..(2 * w - 1)
  BY <1>1
<1>3. p % w = IF p < 0 THEN p + w ELSE IF p < w THEN p ELSE p - w
  BY <1>1, <1>2, Wrap
<1>4. p % w = (IF p < w THEN p ELSE p - w) /\ p % w \in 0..(w - 1)
  BY <1>1, <1>3
<1> QED
  BY <1>4 DEF Addr, w

(* The last pointer is all ones, and its Gray code the top bit alone.      *)
LEMMA LastGray ==
  bin_to_gray[2 * DEPTH - 1] = {AddrBits} /\ bin_to_gray[0] = {}
<1> DEFINE A == AddrBits + 1
           m == 2 * DEPTH - 1
           S == {i \in 0..A : High(m, i) = 2^(A - i) - 1}
<1>1. /\ A \in Nat /\ m \in Nat /\ m \in Pointers /\ 0 \in Pointers
      /\ m = 2^A - 1 /\ AddrBits \in Nat /\ A = AddrBits + 1
  BY Sizes DEF PtrBits
<1> HIDE DEF A, m
<1>2. ASSUME NEW i \in 0..(A - 1), High(m, i) = 2^(A - i) - 1
      PROVE  High(m, i + 1) = 2^(A - (i + 1)) - 1 /\ Bit(m, i) = 1
  <2> DEFINE k == A - (i + 1)
             q == 2^k - 1
  <2>1. k \in Nat /\ k + 1 = A - i /\ i \in Nat
    BY <1>1
  <2> HIDE DEF k
  <2>2. 2^k \in Nat \ {0} /\ 2^(k + 1) = 2 * 2^k
    BY <2>1, Power
  <2>3. q \in Nat /\ High(m, i) = 2 * q + 1
    BY <1>2, <2>1, <2>2
  <2> HIDE DEF q
  <2>4. High(m, i + 1) = q /\ Bit(m, i) = 1
    <3>1. /\ High(m, i + 1) \in Nat /\ Bit(m, i) \in {0, 1}
          /\ High(m, i) = 2 * High(m, i + 1) + Bit(m, i)
      BY <1>1, <2>1, Half
    <3> QED
      BY <2>3, <3>1
  <2> QED
    BY <2>4 DEF q, k
<1>3. 0 \in S
  <2>1. High(m, 0) = m /\ A - 0 = A
    BY <1>1, Ends
  <2> QED
    BY <1>1, <2>1
<1>4. ASSUME NEW i \in 0..(A - 1), i \in S
      PROVE  i + 1 \in S
  <2>1. i + 1 \in 0..A
    BY <1>1
  <2> QED
    BY <1>2, <1>4, <2>1
<1> HIDE DEF S
<1>5. 0..A \subseteq S
  BY <1>1, <1>3, <1>4, Climb
<1>6. ASSUME NEW i \in 0..AddrBits
      PROVE  Bit(m, i) = 1
  <2>1. i \in 0..(A - 1) /\ High(m, i) = 2^(A - i) - 1
    BY <1>1, <1>5 DEF S
  <2> QED
    BY <1>2, <2>1
<1>7. Bit(m, A) = 0
  BY <1>1, NoHigher
<1>8. ASSUME NEW i \in 0..AddrBits
      PROVE  i \in bin_to_gray[m] <=> i = AddrBits
  <2>1. i \in bin_to_gray[m] <=> Bit(m, i) # Bit(m, i + 1)
    BY <1>1, GrayIs
  <2>2. CASE i = AddrBits
    BY <1>1, <1>6, <1>7, <2>1, <2>2
  <2>3. CASE i # AddrBits
    <3>1. i + 1 \in 0..AddrBits
      BY <1>1, <2>3
    <3>2. Bit(m, i) = 1 /\ Bit(m, i + 1) = 1
      BY <1>6, <3>1
    <3> QED
      BY <2>1, <2>3, <3>2
  <2> QED
    BY <2>2, <2>3
<1>9. bin_to_gray[m] \subseteq 0..AddrBits /\ AddrBits \in 0..AddrBits
  BY <1>1, GrayIs DEF Vectors
<1>10. bin_to_gray[m] = {AddrBits}
  BY <1>8, <1>9
<1>11. ASSUME NEW i \in Nat
       PROVE  Bit(0, i) = 0
  <2>1. 2^i \in Nat \ {0} /\ 0 \in 0..(2^i - 1) /\ 0 < 2^i
    BY Power
  <2>2. High(0, i) = 0
    BY <2>1, Ends
  <2>3. /\ High(0, i + 1) \in Nat /\ Bit(0, i) \in {0, 1}
        /\ High(0, i) = 2 * High(0, i + 1) + Bit(0, i)
    BY Half
  <2> QED
    BY <2>2, <2>3
<1>12. ASSUME NEW i \in 0..AddrBits
       PROVE  i \notin bin_to_gray[0]
  <2>1. i \in Nat /\ i + 1 \in Nat
    BY <1>1
  <2>2. Bit(0, i) = 0 /\ Bit(0, i + 1) = 0
    BY <1>11, <2>1
  <2>3. i \in bin_to_gray[0] <=> Bit(0, i) # Bit(0, i + 1)
    BY <1>1, GrayIs
  <2> QED
    BY <2>2, <2>3
<1>13. bin_to_gray[0] = {}
  BY <1>1, <1>12, GrayIs DEF Vectors
<1> QED
  BY <1>10, <1>13 DEF m

(* A flip-flop that catches a pointer while it counts catches the old one  *)
(* or the new one.                                                         *)
LEMMA GrayStep ==
  ASSUME NEW p \in Pointers
  PROVE  Caught(bin_to_gray[p], bin_to_gray[Up(p)]) = {bin_to_gray[p], bin_to_gray[Up(p)]}
<1> DEFINE v == bin_to_gray[p]
           w == bin_to_gray[Up(p)]
<1>1. \A i, j \in Xor(v, w) : i = j
  <2>1. CASE p = 2 * DEPTH - 1
    <3>1. v = {AddrBits} /\ w = {}
      BY <2>1, LastGray, UpIs
    <3> QED
      BY <3>1 DEF Xor
  <2>2. CASE p # 2 * DEPTH - 1
    <3>1. Up(p) = p + 1 /\ p + 1 \in Pointers /\ p \in Nat
      BY <2>2, UpIs, Sizes
    <3>2. ASSUME NEW i \in Xor(v, w)
          PROVE  /\ i \in Nat
                 /\ ~((Bit(p, i) # Bit(p, i + 1)) <=> (Bit(p + 1, i) # Bit(p + 1, i + 1)))
      <4>1. v \subseteq 0..AddrBits /\ w \subseteq 0..AddrBits
        BY <3>1, GrayIs DEF Vectors
      <4>2. i \in 0..AddrBits /\ ~(i \in v <=> i \in w)
        BY <4>1 DEF Xor
      <4>3. i \in v <=> Bit(p, i) # Bit(p, i + 1)
        BY <4>2, GrayIs
      <4>4. i \in w <=> Bit(p + 1, i) # Bit(p + 1, i + 1)
        BY <3>1, <4>2, GrayIs
      <4> QED
        BY <4>2, <4>3, <4>4
    <3> HIDE DEF v, w
    <3> QED
      BY <3>1, <3>2, NoTwoBits
  <2> QED
    BY <2>1, <2>2
<1> HIDE DEF v, w
<1>2. Caught(v, w) = {v, w}
  BY <1>1, CaughtBetween
<1> QED
  BY <1>2 DEF v, w

LEMMA GrayStays ==
  ASSUME NEW v
  PROVE  Caught(v, v) = {v}
<1>1. \A i, j \in Xor(v, v) : i = j
  BY DEF Xor
<1> QED
  BY <1>1, CaughtBetween

(* Half a turn apart, the bits below the top one are the same.             *)
LEMMA HalfTurnBits ==
  ASSUME NEW p \in 0..(DEPTH - 1)
  PROVE  /\ \A i \in 0..(AddrBits - 1) : Bit(p + DEPTH, i) = Bit(p, i)
         /\ Bit(p, AddrBits) = 0 /\ Bit(p + DEPTH, AddrBits) = 1
<1> DEFINE A == AddrBits
           q == p + DEPTH
           S == {i \in 0..A : High(q, i) = High(p, i) + 2^(A - i)}
<1>1. /\ A \in Nat /\ p \in Nat /\ q \in Nat /\ p \in Pointers /\ q \in Pointers
      /\ q = p + 2^A /\ p < 2^A /\ 2^0 = 1
  BY Sizes, Power DEF DEPTH
<1> HIDE DEF A, q
<1>2. ASSUME NEW i \in 0..(A - 1), High(q, i) = High(p, i) + 2^(A - i)
      PROVE  High(q, i + 1) = High(p, i + 1) + 2^(A - (i + 1)) /\ Bit(q, i) = Bit(p, i)
  <2> DEFINE k == A - (i + 1)
  <2>1. k \in Nat /\ k + 1 = A - i /\ i \in Nat
    BY <1>1
  <2> HIDE DEF k
  <2>2. 2^k \in Nat \ {0} /\ 2^(k + 1) = 2 * 2^k
    BY <2>1, Power
  <2>3. /\ High(p, i + 1) \in Nat /\ Bit(p, i) \in {0, 1}
        /\ High(p, i) = 2 * High(p, i + 1) + Bit(p, i)
    BY <1>1, <2>1, Half
  <2>4. /\ High(q, i + 1) \in Nat /\ Bit(q, i) \in {0, 1}
        /\ High(q, i) = 2 * High(q, i + 1) + Bit(q, i)
    BY <1>1, <2>1, Half
  <2>5. High(q, i + 1) = High(p, i + 1) + 2^k /\ Bit(q, i) = Bit(p, i)
    BY <1>2, <2>1, <2>2, <2>3, <2>4
  <2> QED
    BY <2>5 DEF k
<1>3. 0 \in S
  <2>1. High(p, 0) = p /\ High(q, 0) = q /\ A - 0 = A
    BY <1>1, Ends
  <2> QED
    BY <1>1, <2>1
<1>4. ASSUME NEW i \in 0..(A - 1), i \in S
      PROVE  i + 1 \in S
  <2>1. i + 1 \in 0..A
    BY <1>1
  <2> QED
    BY <1>2, <1>4, <2>1
<1> HIDE DEF S
<1>5. 0..A \subseteq S
  BY <1>1, <1>3, <1>4, Climb
<1>6. ASSUME NEW i \in 0..(A - 1)
      PROVE  Bit(q, i) = Bit(p, i)
  <2>1. High(q, i) = High(p, i) + 2^(A - i)
    BY <1>1, <1>5 DEF S
  <2> QED
    BY <1>2, <2>1
<1>7. High(p, A) = 0 /\ High(q, A) = 1
  <2>1. High(p, A) = 0
    BY <1>1, Ends
  <2>2. A \in S /\ A - A = 0
    BY <1>1, <1>5
  <2> QED
    BY <1>1, <2>1, <2>2 DEF S
<1>8. Bit(p, A) = 0 /\ Bit(q, A) = 1
  <2>1. /\ High(p, A + 1) \in Nat /\ Bit(p, A) \in {0, 1}
        /\ High(p, A) = 2 * High(p, A + 1) + Bit(p, A)
    BY <1>1, Half
  <2>2. /\ High(q, A + 1) \in Nat /\ Bit(q, A) \in {0, 1}
        /\ High(q, A) = 2 * High(q, A + 1) + Bit(q, A)
    BY <1>1, Half
  <2> QED
    BY <1>7, <2>1, <2>2
<1> QED
  BY <1>6, <1>8 DEF A, q

(* The full test: in Gray code, half a turn apart is the top two bits.     *)
LEMMA HalfTurn ==
  ASSUME NEW p \in 0..(DEPTH - 1)
  PROVE  /\ Xor(bin_to_gray[p], bin_to_gray[p + DEPTH]) = {AddrBits, AddrBits - 1}
         /\ Xor(bin_to_gray[p + DEPTH], bin_to_gray[p]) = {AddrBits, AddrBits - 1}
<1> DEFINE A == AddrBits
           q == p + DEPTH
           v == bin_to_gray[p]
           w == bin_to_gray[q]
<1>1. A \in Nat \ {0} /\ p \in Pointers /\ q \in Pointers
  BY Sizes
<1>2. /\ \A i \in 0..(A - 1) : Bit(q, i) = Bit(p, i)
      /\ Bit(p, A) = 0 /\ Bit(q, A) = 1
  BY HalfTurnBits
<1>3. Bit(p, A + 1) = 0 /\ Bit(q, A + 1) = 0
  BY <1>1, NoHigher
<1>4. v \subseteq 0..A /\ \A i \in 0..A : i \in v <=> Bit(p, i) # Bit(p, i + 1)
  BY <1>1, GrayIs DEF Vectors
<1>5. w \subseteq 0..A /\ \A i \in 0..A : i \in w <=> Bit(q, i) # Bit(q, i + 1)
  BY <1>1, GrayIs DEF Vectors
<1> HIDE DEF A, q, v, w
<1>6. ASSUME NEW i \in 0..A
      PROVE  ~(i \in v <=> i \in w) <=> i \in {A, A - 1}
  <2>1. CASE i = A
    BY <1>1, <1>2, <1>3, <1>4, <1>5, <2>1
  <2>2. CASE i = A - 1
    <3>1. Bit(q, i) = Bit(p, i) /\ i + 1 = A
      BY <1>1, <1>2, <2>2
    <3>2. Bit(p, i) \in {0, 1}
      BY <1>1, Half, Sizes
    <3>3. Bit(p, i + 1) = 0 /\ Bit(q, i + 1) = 1
      BY <1>2, <3>1
    <3>4. (i \in v <=> Bit(p, i) # 0) /\ (i \in w <=> Bit(p, i) # 1)
      BY <1>4, <1>5, <3>1, <3>3
    <3> QED
      BY <2>2, <3>2, <3>4
  <2>3. CASE i \notin {A, A - 1}
    <3>1. i \in 0..(A - 1) /\ i + 1 \in 0..(A - 1)
      BY <1>1, <2>3
    <3>2. Bit(q, i) = Bit(p, i) /\ Bit(q, i + 1) = Bit(p, i + 1)
      BY <1>2, <3>1
    <3> QED
      BY <1>4, <1>5, <2>3, <3>2
  <2> QED
    BY <2>1, <2>2, <2>3
<1>7. {A, A - 1} \subseteq 0..A
  BY <1>1
<1>8. \A i : i \in Xor(v, w) <=> i \in {A, A - 1}
  BY <1>4, <1>5, <1>6, <1>7, Zenon DEF Xor
<1>9. \A i : i \in Xor(w, v) <=> i \in {A, A - 1}
  BY <1>4, <1>5, <1>6, <1>7, Zenon DEF Xor
<1> QED
  BY <1>8, <1>9, Zenon DEF A, q, v, w

----------------------------------------------------------------------------

(* The pointer n words after p, and before it; n is less than a turn.      *)
After(p, n) == IF p + n < 2 * DEPTH THEN p + n ELSE p + n - 2 * DEPTH
Before(p, n) == IF n <= p THEN p - n ELSE p - n + 2 * DEPTH

(* What the write side knows of the read pointer is l2 and l1 reads old,    *)
(* and full was decided on what it knew l3 reads ago; what the read side   *)
(* knows of the write pointer leaves n1, n2 or n3 of the words it has not  *)
(* read.  Each synchroniser only falls behind.                             *)
WriteLags(l1, l2, l3) ==
  /\ l1 <= l2 /\ l2 <= l3
  /\ rdSync1 = bin_to_gray[Before(rdPtr, l1)] /\ rdSync2 = bin_to_gray[Before(rdPtr, l2)]
  /\ Len(queue) + l3 <= DEPTH - 1
  /\ Len(queue) + l3 = DEPTH - 1 => full

ReadLags(n1, n2, n3) ==
  /\ n3 <= n2 /\ n2 <= n1 /\ n1 <= Len(queue)
  /\ wrSync1 = bin_to_gray[After(rdPtr, n1)] /\ wrSync2 = bin_to_gray[After(rdPtr, n2)]
  /\ wrBinSync = After(rdPtr, n3)
  /\ n3 = 0 => empty

(* The words between the two pointers are those of the queue.              *)
Content ==
  /\ wrPtr = After(rdPtr, Len(queue))
  /\ \A k \in 1..Len(queue) : mem[Addr(After(rdPtr, k - 1))] = queue[k]
  /\ ~empty => queue # <<>> /\ rdData = Head(queue)

Typed ==
  /\ mem \in [0..(DEPTH - 1) -> Data]
  /\ wrPtr \in Pointers /\ rdPtr \in Pointers
  /\ {full, empty} \subseteq BOOLEAN
  /\ rdData \in Data
  /\ queue \in Seq(Data)

FifoInv ==
  /\ Typed /\ Content
  /\ \E l1, l2, l3 \in Nat : WriteLags(l1, l2, l3)
  /\ \E n1, n2, n3 \in Nat : ReadLags(n1, n2, n3)

LEMMA InitFifoInv == Init => FifoInv
<1> SUFFICES ASSUME Init PROVE FifoInv
  OBVIOUS
<1>1. Typed
  <2>1. 0 \in Pointers
    BY Sizes
  <2>2. queue \in Seq(Data)
    BY DEF Init
  <2>3. {full, empty} \subseteq BOOLEAN
    BY DEF Init
  <2>4. /\ mem \in [0..(DEPTH - 1) -> Data] /\ rdData \in Data
        /\ wrPtr = 0 /\ rdPtr = 0
    BY Zenon DEF Init
  <2> QED
    BY <2>1, <2>2, <2>3, <2>4, Zenon DEF Typed
<1>2. Len(queue) = 0 /\ rdPtr = 0 /\ wrPtr = 0 /\ empty
  BY DEF Init
<1>3. After(0, 0) = 0 /\ Before(0, 0) = 0 /\ DEPTH \in Nat /\ DEPTH >= 2
  BY AtLeastTwo, Sizes DEF After, Before
<1>4. Content
  BY <1>2, <1>3 DEF Content
<1>5. bin_to_gray[0] = {}
  BY LastGray
<1>6. WriteLags(0, 0, 0)
  BY <1>2, <1>3, <1>5 DEF WriteLags, Init
<1>7. ReadLags(0, 0, 0)
  BY <1>2, <1>3, <1>5 DEF ReadLags, Init
<1>8. 0 \in Nat
  OBVIOUS
<1> QED
  BY <1>1, <1>4, <1>6, <1>7, <1>8, Zenon DEF FifoInv

(* What a turn is made of.                                                 *)
LEMMA Turn ==
  ASSUME NEW p \in Pointers
  PROVE  /\ After(p, 0) = p /\ Before(p, 0) = p
         /\ \A n \in 0..DEPTH : After(p, n) \in Pointers /\ Before(p, n) \in Pointers
         /\ \A n \in 0..DEPTH : After(p, n + 1) = Up(After(p, n))
         /\ \A n \in 1..DEPTH : After(Up(p), n - 1) = After(p, n)
         /\ \A n \in 0..DEPTH : Before(Up(p), n + 1) = Before(p, n)
<1> DEFINE D == DEPTH
<1>1. D \in Nat \ {0} /\ p \in 0..(2 * D - 1) /\ Pointers = 0..(2 * D - 1)
  BY Sizes
<1>2. Up(p) = IF p = 2 * D - 1 THEN 0 ELSE p + 1
  BY UpIs
<1>3. ASSUME NEW n \in 0..D
      PROVE  After(p, n) \in Pointers /\ Before(p, n) \in Pointers
  BY <1>1 DEF After, Before
<1>4. ASSUME NEW n \in 0..D
      PROVE  After(p, n + 1) = Up(After(p, n))
  <2>1. Up(After(p, n)) = IF After(p, n) = 2 * D - 1 THEN 0 ELSE After(p, n) + 1
    BY <1>3, UpIs
  <2> QED
    BY <1>1, <2>1 DEF After
<1>5. ASSUME NEW n \in 1..D
      PROVE  After(Up(p), n - 1) = After(p, n)
  BY <1>1, <1>2 DEF After
<1>6. ASSUME NEW n \in 0..D
      PROVE  Before(Up(p), n + 1) = Before(p, n)
  BY <1>1, <1>2 DEF Before
<1>7. After(p, 0) = p /\ Before(p, 0) = p
  BY <1>1 DEF After, Before
<1> QED
  BY <1>3, <1>4, <1>5, <1>6, <1>7

LEMMA AddrsDiffer ==
  ASSUME NEW p \in Pointers, NEW j \in 0..(DEPTH - 1), NEW k \in 0..(DEPTH - 1),
         Addr(After(p, j)) = Addr(After(p, k))
  PROVE  j = k
<1> DEFINE D == DEPTH  a == After(p, j)  b == After(p, k)
<1>1. D \in Nat \ {0} /\ p \in 0..(2 * D - 1)
  BY Sizes
<1>2. a \in Pointers /\ b \in Pointers
  BY <1>1, Turn
<1>3. /\ Addr(a) = IF a < D THEN a ELSE a - D
      /\ Addr(b) = IF b < D THEN b ELSE b - D
  BY <1>2, AddrIs
<1>4. /\ a = IF p + j < 2 * D THEN p + j ELSE p + j - 2 * D
      /\ b = IF p + k < 2 * D THEN p + k ELSE p + k - 2 * D
  BY DEF After
<1>5. Addr(a) = Addr(b)
  OBVIOUS
<1> HIDE DEF a, b, D
<1>6. a \in 0..(2 * D - 1) /\ b \in 0..(2 * D - 1)
  BY <1>2, Sizes DEF D
<1>7. j \in 0..(D - 1) /\ k \in 0..(D - 1)
  BY DEF D
<1> QED
  BY <1>1, <1>3, <1>4, <1>5, <1>6, <1>7

(* The full test sees the word that would be the last but one.             *)
LEMMA SeesFull ==
  ASSUME NEW p \in Pointers, NEW n \in 0..DEPTH, NEW l \in 0..DEPTH, n + l + 1 = DEPTH
  PROVE  Xor(bin_to_gray[Up(After(p, n))], bin_to_gray[Before(p, l)])
           = {AddrBits, AddrBits - 1}
<1> DEFINE D == DEPTH  u == Up(After(p, n))  r == Before(p, l)
<1>1. D \in Nat \ {0} /\ p \in 0..(2 * D - 1)
  BY Sizes
<1>2. u = After(p, n + 1)
  BY Turn
<1>3. u \in 0..(2 * D - 1) /\ r \in 0..(2 * D - 1) /\ (u = r + D \/ r = u + D)
  BY <1>1, <1>2 DEF After, Before
<1>4. CASE u = r + D
  <2>1. r \in 0..(DEPTH - 1) /\ u = r + DEPTH
    BY <1>1, <1>3, <1>4
  <2> HIDE DEF u, r
  <2>2. Xor(bin_to_gray[u], bin_to_gray[r]) = {AddrBits, AddrBits - 1}
    BY <2>1, HalfTurn
  <2> QED
    BY <2>2 DEF u, r
<1>5. CASE r = u + D
  <2>1. u \in 0..(DEPTH - 1) /\ r = u + DEPTH
    BY <1>1, <1>3, <1>5
  <2> HIDE DEF u, r
  <2>2. Xor(bin_to_gray[u], bin_to_gray[r]) = {AddrBits, AddrBits - 1}
    BY <2>1, HalfTurn
  <2> QED
    BY <2>2 DEF u, r
<1> QED
  BY <1>3, <1>4, <1>5

(* What the two sides do to the queue, apart or at once: g = 1 when a word *)
(* is read, t = 1 when d is taken.                                         *)
Queued(s, g, t, d) ==
  (IF g = 1 THEN Tail(s) ELSE s) \o (IF t = 1 THEN <<d>> ELSE <<>>)

Moved(g, t, d) ==
  /\ queue' = Queued(queue, g, t, d)
  /\ rdPtr' = IF g = 1 THEN Up(rdPtr) ELSE rdPtr
  /\ wrPtr' = IF t = 1 THEN Up(wrPtr) ELSE wrPtr
  /\ mem' = IF t = 1 THEN [mem EXCEPT ![Addr(wrPtr)] = d] ELSE mem
  /\ g = 1 => ~empty
  /\ t = 1 => ~full

QueueMoved(s, g, t, d) ==
  /\ Queued(s, g, t, d) \in Seq(Data)
  /\ Len(Queued(s, g, t, d)) = Len(s) - g + t
  /\ \A k \in 1..(Len(s) - g + t) :
       Queued(s, g, t, d)[k] = IF k + g <= Len(s) THEN s[k + g] ELSE d

LEMMA Appended ==
  ASSUME NEW u \in Seq(Data), NEW d \in Data
  PROVE  /\ u \o <<d>> \in Seq(Data)
         /\ Len(u) \in Nat
         /\ Len(u \o <<d>>) = Len(u) + 1
         /\ \A k \in 1..(Len(u) + 1) : (u \o <<d>>)[k] = IF k <= Len(u) THEN u[k] ELSE d
  OBVIOUS

LEMMA NothingAppended ==
  ASSUME NEW u \in Seq(Data)
  PROVE  u \o <<>> = u
  OBVIOUS

LEMMA WithoutHead ==
  ASSUME NEW s \in Seq(Data), s # <<>>
  PROVE  /\ Tail(s) \in Seq(Data)
         /\ Len(s) \in Nat
         /\ Len(Tail(s)) = Len(s) - 1
         /\ \A k \in 1..(Len(s) - 1) : Tail(s)[k] = s[k + 1]
  OBVIOUS

LEMMA QueueMoves ==
  ASSUME NEW s \in Seq(Data), NEW g \in {0, 1}, NEW t \in {0, 1}, NEW d \in Data,
         g = 1 => s # <<>>
  PROVE  QueueMoved(s, g, t, d)
<1> DEFINE r == Queued(s, g, t, d)
<1>1. Len(s) \in Nat
  OBVIOUS
<1>2. CASE g = 1 /\ t = 1
  <2>1. r = Tail(s) \o <<d>>
    BY <1>2 DEF Queued
  <2>2. /\ Tail(s) \in Seq(Data)
        /\ Len(Tail(s)) = Len(s) - 1
        /\ \A k \in 1..(Len(s) - 1) : Tail(s)[k] = s[k + 1]
    BY <1>2, WithoutHead, Zenon
  <2> HIDE DEF r
  <2>3. /\ r \in Seq(Data)
        /\ Len(r) = Len(Tail(s)) + 1
        /\ \A k \in 1..(Len(Tail(s)) + 1) : r[k] = IF k <= Len(Tail(s)) THEN Tail(s)[k] ELSE d
    <3>1. /\ Tail(s) \o <<d>> \in Seq(Data)
          /\ Len(Tail(s) \o <<d>>) = Len(Tail(s)) + 1
          /\ \A k \in 1..(Len(Tail(s)) + 1) :
               (Tail(s) \o <<d>>)[k] = IF k <= Len(Tail(s)) THEN Tail(s)[k] ELSE d
      BY <2>2, Appended
    <3> QED
      BY <2>1, <3>1, Zenon
  <2>4. Len(r) = Len(s)
    BY <1>1, <2>2, <2>3
  <2>5. ASSUME NEW k \in 1..Len(s)
        PROVE  r[k] = IF k + 1 <= Len(s) THEN s[k + 1] ELSE d
    <3>1. r[k] = IF k <= Len(s) - 1 THEN Tail(s)[k] ELSE d
      BY <1>1, <2>2, <2>3
    <3>2. CASE k <= Len(s) - 1
      <4>1. k \in 1..(Len(s) - 1) /\ k + 1 <= Len(s)
        BY <1>1, <3>2
      <4>2. Tail(s)[k] = s[k + 1]
        BY <2>2, <4>1, Zenon
      <4> QED
        BY <3>1, <3>2, <4>1, <4>2, Zenon
    <3>3. CASE ~(k <= Len(s) - 1)
      <4>1. ~(k + 1 <= Len(s))
        BY <1>1, <3>3
      <4> QED
        BY <3>1, <3>3, <4>1, Zenon
    <3> QED
      BY <3>2, <3>3, Zenon
  <2>6. /\ Len(r) = Len(s) - g + t
        /\ \A k \in 1..(Len(s) - g + t) : r[k] = IF k + g <= Len(s) THEN s[k + g] ELSE d
    BY <1>1, <1>2, <2>4, <2>5
  <2> QED
    BY <2>3, <2>6, Zenon DEF QueueMoved, r
<1>3. CASE g = 1 /\ t = 0
  <2>1. /\ Tail(s) \in Seq(Data)
        /\ Len(Tail(s)) = Len(s) - 1
        /\ \A k \in 1..(Len(s) - 1) : Tail(s)[k] = s[k + 1]
    BY <1>3, WithoutHead, Zenon
  <2>2. r = Tail(s) \o <<>>
    BY <1>3 DEF Queued
  <2>3. r = Tail(s)
    BY <2>1, <2>2, NothingAppended, Zenon
  <2> HIDE DEF r
  <2>4. /\ Len(r) = Len(s) - g + t
        /\ \A k \in 1..(Len(s) - g + t) : r[k] = IF k + g <= Len(s) THEN s[k + g] ELSE d
    BY <1>1, <1>3, <2>1, <2>3
  <2> QED
    BY <2>1, <2>3, <2>4, Zenon DEF QueueMoved, r
<1>4. CASE g = 0 /\ t = 1
  <2>1. r = s \o <<d>>
    BY <1>4 DEF Queued
  <2> HIDE DEF r
  <2>2. /\ r \in Seq(Data)
        /\ Len(r) = Len(s) + 1
        /\ \A k \in 1..(Len(s) + 1) : r[k] = IF k <= Len(s) THEN s[k] ELSE d
    <3>1. /\ s \o <<d>> \in Seq(Data)
          /\ Len(s \o <<d>>) = Len(s) + 1
          /\ \A k \in 1..(Len(s) + 1) :
               (s \o <<d>>)[k] = IF k <= Len(s) THEN s[k] ELSE d
      BY Appended
    <3> QED
      BY <2>1, <3>1, Zenon
  <2>3. /\ Len(r) = Len(s) - g + t
        /\ \A k \in 1..(Len(s) - g + t) : r[k] = IF k + g <= Len(s) THEN s[k + g] ELSE d
    BY <1>1, <1>4, <2>2
  <2> QED
    BY <2>2, <2>3, Zenon DEF QueueMoved, r
<1>5. CASE g = 0 /\ t = 0
  <2>1. r = s \o <<>>
    BY <1>5 DEF Queued
  <2>2. r = s
    BY <2>1, NothingAppended, Zenon
  <2> HIDE DEF r
  <2>3. /\ Len(r) = Len(s) - g + t
        /\ \A k \in 1..(Len(s) - g + t) : r[k] = IF k + g <= Len(s) THEN s[k + g] ELSE d
    BY <1>1, <1>5, <2>2
  <2> QED
    BY <2>2, <2>3, Zenon DEF QueueMoved, r
<1> QED
  BY <1>2, <1>3, <1>4, <1>5

LEMMA Moves ==
  ASSUME FifoInv, NEW g \in {0, 1}, NEW t \in {0, 1}, NEW d \in Data, Moved(g, t, d)
  PROVE  /\ Len(queue) \in 0..(DEPTH - 1) /\ g <= Len(queue)
         /\ Len(queue) + t <= DEPTH - 1
         /\ queue' \in Seq(Data) /\ Len(queue') = Len(queue) - g + t
         /\ \A k \in 1..Len(queue') :
              queue'[k] = IF k + g <= Len(queue) THEN queue[k + g] ELSE d
         /\ rdPtr \in Pointers /\ rdPtr' \in Pointers /\ wrPtr' \in Pointers
         /\ wrPtr = After(rdPtr, Len(queue)) /\ wrPtr' = After(rdPtr, Len(queue) + t)
         /\ \A k \in g..DEPTH : After(rdPtr', k - g) = After(rdPtr, k)
         /\ \A l \in 0..DEPTH : Before(rdPtr', l + g) = Before(rdPtr, l)
         /\ Before(rdPtr', 0) = rdPtr'
<1> DEFINE n == Len(queue)
<1>1. /\ rdPtr \in Pointers /\ wrPtr \in Pointers /\ queue \in Seq(Data)
      /\ wrPtr = After(rdPtr, n) /\ (~empty => queue # <<>>)
  BY DEF FifoInv, Typed, Content
<1>2. PICK l1, l2, l3 \in Nat : WriteLags(l1, l2, l3)
  BY DEF FifoInv
<1>3. DEPTH \in Nat \ {0}
  BY Sizes
<1>4. n \in Nat
  BY <1>1
<1>13. /\ rdPtr' = (IF g = 1 THEN Up(rdPtr) ELSE rdPtr)
       /\ wrPtr' = (IF t = 1 THEN Up(wrPtr) ELSE wrPtr)
       /\ g = 1 => ~empty
       /\ t = 1 => ~full
  BY Zenon DEF Moved
<1>5. n \in 0..(DEPTH - 1) /\ n + t <= DEPTH - 1
  <2>1. n + l3 <= DEPTH - 1 /\ (n + l3 = DEPTH - 1 => full)
    BY <1>2, Zenon DEF WriteLags
  <2>2. t = 1 => n + l3 # DEPTH - 1
    BY <1>13, <2>1, Zenon
  <2> HIDE DEF n
  <2> QED
    BY <1>3, <1>4, <2>1, <2>2
<1>6. g = 1 => queue # <<>>
  BY <1>1, <1>13
<1>7. g <= n
  BY <1>1, <1>4, <1>6
<1>8. /\ queue' \in Seq(Data) /\ Len(queue') = n - g + t
      /\ \A k \in 1..Len(queue') : queue'[k] = IF k + g <= n THEN queue[k + g] ELSE d
  <2>1. queue' = Queued(queue, g, t, d)
    BY DEF Moved
  <2>2. /\ Queued(queue, g, t, d) \in Seq(Data)
        /\ Len(Queued(queue, g, t, d)) = n - g + t
        /\ \A k \in 1..(n - g + t) :
             Queued(queue, g, t, d)[k] = IF k + g <= n THEN queue[k + g] ELSE d
    <3>1. queue \in Seq(Data)
      BY <1>1
    <3>2. QueueMoved(queue, g, t, d)
      BY <1>6, <3>1, QueueMoves
    <3> QED
      BY <3>2 DEF QueueMoved
  <2> QED
    BY <2>1, <2>2
<1>9. wrPtr' = After(rdPtr, n + t) /\ wrPtr' \in Pointers
  <2>1. After(rdPtr, n + 1) = Up(After(rdPtr, n)) /\ After(rdPtr, n + t) \in Pointers
    BY <1>1, <1>3, <1>4, <1>5, Turn
  <2> HIDE DEF n
  <2>2. CASE t = 1
    BY <1>1, <1>13, <2>1, <2>2
  <2>3. CASE t = 0
    BY <1>1, <1>4, <1>13, <2>3
  <2> QED
    BY <2>2, <2>3
<1>10. rdPtr' \in Pointers /\ Before(rdPtr', 0) = rdPtr'
  <2>1. Up(rdPtr) \in Pointers
    BY <1>1, UpIs
  <2>2. rdPtr' \in Pointers
    BY <1>1, <1>13, <2>1
  <2>3. \A x \in Pointers : Before(x, 0) = x
    BY Turn
  <2> QED
    BY <2>2, <2>3
<1>11. ASSUME NEW k \in g..DEPTH
       PROVE  After(rdPtr', k - g) = After(rdPtr, k)
  <2>1. CASE g = 1
    BY <1>1, <1>3, <1>13, <2>1, Turn
  <2>2. CASE g = 0
    BY <1>1, <1>3, <1>13, <2>2
  <2> QED
    BY <2>1, <2>2
<1>12. ASSUME NEW l \in 0..DEPTH
       PROVE  Before(rdPtr', l + g) = Before(rdPtr, l)
  <2>1. CASE g = 1
    BY <1>1, <1>3, <1>13, <2>1, Turn
  <2>2. CASE g = 0
    BY <1>1, <1>3, <1>13, <2>2
  <2> QED
    BY <2>1, <2>2
<1> QED
  BY <1>1, <1>5, <1>7, <1>8, <1>9, <1>10, <1>11, <1>12

(* The write side: an edge of its clock, or none.                          *)
LEMMA WriteLagsMove ==
  ASSUME FifoInv, NEW g \in {0, 1}, NEW t \in {0, 1}, NEW d \in Data, Moved(g, t, d),
         \/ /\ rdSync1' \in {bin_to_gray[rdPtr], bin_to_gray[rdPtr']}
            /\ rdSync2' = rdSync1
            /\ full' = AlmostFull(wrPtr')
         \/ t = 0 /\ rdSync1' = rdSync1 /\ rdSync2' = rdSync2 /\ full' = full
  PROVE  \E l1, l2, l3 \in Nat : WriteLags(l1, l2, l3)'
<1> DEFINE n == Len(queue)
<1>11. n \in 0..(DEPTH - 1) /\ n + t <= DEPTH - 1 /\ rdPtr \in Pointers
  BY Moves
<1>1. /\ n \in 0..(DEPTH - 1) /\ n + t <= DEPTH - 1 /\ Len(queue') = n - g + t
      /\ rdPtr \in Pointers /\ wrPtr' = After(rdPtr, n + t)
      /\ \A l \in 0..DEPTH : Before(rdPtr', l + g) = Before(rdPtr, l)
      /\ Before(rdPtr', 0) = rdPtr'
  BY Moves
<1>2. PICK l1, l2, l3 \in Nat : WriteLags(l1, l2, l3)
  BY DEF FifoInv
<1>3. /\ l1 <= l2 /\ l2 <= l3 /\ n + l3 <= DEPTH - 1 /\ (n + l3 = DEPTH - 1 => full)
      /\ rdSync1 = bin_to_gray[Before(rdPtr, l1)] /\ rdSync2 = bin_to_gray[Before(rdPtr, l2)]
  BY <1>2 DEF WriteLags
<1>12. l1 <= l2 /\ l2 <= l3 /\ n + l3 <= DEPTH - 1
  BY <1>3
<1>4. t = 1 => ~full
  BY Zenon DEF Moved
<1>5. DEPTH \in Nat \ {0}
  BY Sizes
<1> HIDE DEF n
<1>6. l1 \in 0..DEPTH /\ l2 \in 0..DEPTH /\ l3 \in 0..DEPTH
  BY <1>1, <1>3, <1>5
<1>7. /\ rdSync1 = bin_to_gray[Before(rdPtr', l1 + g)]
      /\ rdSync2 = bin_to_gray[Before(rdPtr', l2 + g)]
  BY <1>1, <1>3, <1>6
<1>8. l1 + g \in Nat /\ l2 + g \in Nat /\ l3 + g \in Nat /\ 0 \in Nat
  BY <1>6
<1>9. CASE /\ rdSync1' \in {bin_to_gray[rdPtr], bin_to_gray[rdPtr']}
           /\ rdSync2' = rdSync1
           /\ full' = AlmostFull(wrPtr')
  <2>1. Len(queue') + (l2 + g) <= DEPTH - 1
    <3>1. n + t + l2 <= DEPTH - 1
      <4>1. CASE t = 0
        BY <1>5, <1>6, <1>11, <1>12, <4>1
      <4>2. CASE t = 1
        <5>1. n + l3 # DEPTH - 1
          BY <1>3, <1>4, <4>2
        <5> QED
          BY <1>5, <1>6, <1>11, <1>12, <4>2, <5>1
      <4> QED
        BY <4>1, <4>2
    <3> QED
      BY <1>1, <1>6, <3>1
  <2>2. Len(queue') + (l2 + g) = DEPTH - 1 => full'
    <3>1. SUFFICES ASSUME Len(queue') + (l2 + g) = DEPTH - 1
                   PROVE  AlmostFull(wrPtr')
      BY <1>9
    <3> DEFINE m == n + t
    <3>2. m \in 0..DEPTH /\ m + l2 + 1 = DEPTH
      BY <1>1, <1>5, <1>6, <1>11, <3>1
    <3> HIDE DEF m
    <3>3. Xor(bin_to_gray[Up(After(rdPtr, m))], bin_to_gray[Before(rdPtr, l2)])
            = {AddrBits, AddrBits - 1}
      <4>1. rdPtr \in Pointers /\ l2 \in 0..DEPTH
        BY <1>6, <1>11
      <4> QED
        BY <3>2, <4>1, SeesFull
    <3> QED
      BY <1>1, <1>3, <3>3 DEF AlmostFull, m
  <2>3. \E l \in {0, g} : rdSync1' = bin_to_gray[Before(rdPtr', l)]
    <3>1. CASE rdSync1' = bin_to_gray[rdPtr']
      BY <1>1, <3>1
    <3>2. CASE rdSync1' = bin_to_gray[rdPtr]
      <4>1. Before(rdPtr', 0 + g) = Before(rdPtr, 0) /\ Before(rdPtr, 0) = rdPtr
        BY <1>1, <1>5, Turn
      <4> QED
        BY <3>2, <4>1
    <3> QED
      BY <1>9, <3>1, <3>2
  <2>4. PICK l \in {0, g} : rdSync1' = bin_to_gray[Before(rdPtr', l)]
    BY <2>3
  <2>5. l \in Nat /\ l <= l1 + g /\ l1 + g <= l2 + g
    BY <1>3, <1>6
  <2>6. WriteLags(l, l1 + g, l2 + g)'
    BY <1>7, <1>9, <2>1, <2>2, <2>4, <2>5, Zenon DEF WriteLags
  <2> QED
    BY <1>8, <2>5, <2>6, Zenon
<1>10. CASE t = 0 /\ rdSync1' = rdSync1 /\ rdSync2' = rdSync2 /\ full' = full
  <2>1. Len(queue') + (l3 + g) = n + l3
    BY <1>1, <1>6, <1>10
  <2>2. l1 + g <= l2 + g /\ l2 + g <= l3 + g
    BY <1>3, <1>6
  <2>3. WriteLags(l1 + g, l2 + g, l3 + g)'
    BY <1>3, <1>7, <1>10, <2>1, <2>2, Zenon DEF WriteLags
  <2> QED
    BY <1>8, <2>3, Zenon
<1> QED
  BY <1>9, <1>10

(* The read side: an edge of its clock, or none.                           *)
LEMMA ReadLagsMove ==
  ASSUME FifoInv, NEW g \in {0, 1}, NEW t \in {0, 1}, NEW d \in Data, Moved(g, t, d),
         \/ /\ wrSync1' \in {bin_to_gray[wrPtr], bin_to_gray[wrPtr']}
            /\ wrSync2' = wrSync1
            /\ wrBinSync' = gray_to_bin[wrSync2]
            /\ empty' = NoWord(rdPtr')
         \/ /\ g = 0
            /\ wrSync1' = wrSync1 /\ wrSync2' = wrSync2 /\ wrBinSync' = wrBinSync
            /\ empty' = empty
  PROVE  \E n1, n2, n3 \in Nat : ReadLags(n1, n2, n3)'
<1> DEFINE n == Len(queue)
<1>1. /\ n \in 0..(DEPTH - 1) /\ g <= n /\ n + t <= DEPTH - 1 /\ Len(queue') = n - g + t
      /\ rdPtr \in Pointers /\ rdPtr' \in Pointers
      /\ wrPtr = After(rdPtr, n) /\ wrPtr' = After(rdPtr, n + t)
      /\ \A k \in g..DEPTH : After(rdPtr', k - g) = After(rdPtr, k)
  BY Moves
<1>2. PICK n1, n2, n3 \in Nat : ReadLags(n1, n2, n3)
  BY DEF FifoInv
<1>3. /\ n3 <= n2 /\ n2 <= n1 /\ n1 <= n /\ (n3 = 0 => empty)
      /\ wrSync1 = bin_to_gray[After(rdPtr, n1)] /\ wrSync2 = bin_to_gray[After(rdPtr, n2)]
      /\ wrBinSync = After(rdPtr, n3)
  BY <1>2 DEF ReadLags
<1>4. g = 1 => ~empty
  BY Zenon DEF Moved
<1>5. DEPTH \in Nat \ {0}
  BY Sizes
<1> HIDE DEF n
<1>6. g <= n3
  <2>1. g = 1 => n3 # 0
    BY <1>3, <1>4
  <2> QED
    BY <2>1
<1>7. /\ n1 \in g..DEPTH /\ n2 \in g..DEPTH /\ n3 \in g..DEPTH /\ n \in g..DEPTH
      /\ n + t \in g..DEPTH
  BY <1>1, <1>3, <1>5, <1>6
<1>8. CASE /\ wrSync1' \in {bin_to_gray[wrPtr], bin_to_gray[wrPtr']}
           /\ wrSync2' = wrSync1
           /\ wrBinSync' = gray_to_bin[wrSync2]
           /\ empty' = NoWord(rdPtr')
  <2>1. \E m \in {n, n + t} : wrSync1' = bin_to_gray[After(rdPtr, m)]
    BY <1>1, <1>8
  <2>2. PICK m \in {n, n + t} : wrSync1' = bin_to_gray[After(rdPtr, m)]
    BY <2>1
  <2>3. m \in g..DEPTH
    BY <1>7
  <2>4. /\ n2 - g <= n1 - g /\ n1 - g <= m - g /\ m - g <= Len(queue')
        /\ n2 - g \in Nat /\ n1 - g \in Nat /\ m - g \in Nat
    <3>1. n2 <= n1 /\ n1 <= n
      BY <1>3, Zenon
    <3>2. Len(queue') = n - g + t
      BY <1>1, Zenon
    <3>3. n \in Nat /\ g \in Nat /\ t \in Nat /\ n1 \in Nat /\ n2 \in Nat
      BY <1>7
    <3>4. m = n \/ m = n + t
      OBVIOUS
    <3>5. g <= n2 /\ g <= n1 /\ g <= m
      BY <1>7, <2>3
    <3> QED
      BY <3>1, <3>2, <3>3, <3>4, <3>5
  <2>5. /\ wrSync1' = bin_to_gray[After(rdPtr', m - g)]
        /\ wrSync2' = bin_to_gray[After(rdPtr', n1 - g)]
    BY <1>1, <1>3, <1>7, <1>8, <2>2, <2>3
  <2>6. After(rdPtr, n2) = After(rdPtr', n2 - g) /\ After(rdPtr, n2) \in Pointers
    <3>1. n2 \in 0..DEPTH
      BY <1>7
    <3> QED
      BY <1>1, <1>7, <3>1, Turn
  <2>7. wrBinSync' = After(rdPtr', n2 - g)
    BY <1>3, <1>8, <2>6, GrayDecodes
  <2>8. n2 - g = 0 => empty'
    <3>1. SUFFICES ASSUME n2 - g = 0 PROVE NoWord(rdPtr')
      BY <1>8
    <3>2. \A x \in Pointers : After(x, 0) = x
      BY Turn
    <3>3. After(rdPtr', n2 - g) = rdPtr'
      BY <1>1, <3>1, <3>2
    <3> QED
      BY <1>3, <2>6, <3>3 DEF NoWord
  <2>9. ReadLags(m - g, n1 - g, n2 - g)'
    BY <2>4, <2>5, <2>7, <2>8, Zenon DEF ReadLags
  <2> QED
    BY <2>4, <2>9, Zenon
<1>9. CASE /\ g = 0
           /\ wrSync1' = wrSync1 /\ wrSync2' = wrSync2 /\ wrBinSync' = wrBinSync
           /\ empty' = empty
  <2>1. n1 <= Len(queue')
    BY <1>1, <1>3, <1>7, <1>9
  <2>2. rdPtr' = rdPtr
    BY <1>9 DEF Moved
  <2>3. ReadLags(n1, n2, n3)'
    BY <1>3, <1>9, <2>1, <2>2, Zenon DEF ReadLags
  <2> QED
    BY <2>3, Zenon
<1> QED
  BY <1>8, <1>9

(* The words themselves: those in the queue stay where they are.           *)
LEMMA WordsStay ==
  ASSUME FifoInv, NEW g \in {0, 1}, NEW t \in {0, 1}, NEW d \in Data, Moved(g, t, d)
  PROVE  /\ mem' \in [0..(DEPTH - 1) -> Data]
         /\ wrPtr' = After(rdPtr', Len(queue'))
         /\ \A k \in 1..Len(queue') : mem'[Addr(After(rdPtr', k - 1))] = queue'[k]
<1> DEFINE n == Len(queue)
<1>1. /\ n \in 0..(DEPTH - 1) /\ g <= n /\ n + t <= DEPTH - 1
      /\ rdPtr \in Pointers /\ wrPtr = After(rdPtr, n) /\ wrPtr' = After(rdPtr, n + t)
      /\ Len(queue') = n - g + t
  BY Moves
<1>2. \A k \in 1..Len(queue') : queue'[k] = IF k + g <= n THEN queue[k + g] ELSE d
  BY Moves
<1>3. \A k \in g..DEPTH : After(rdPtr', k - g) = After(rdPtr, k)
  BY Moves
<1>4. DEPTH \in Nat \ {0}
  BY Sizes
<1>5. /\ mem \in [0..(DEPTH - 1) -> Data]
      /\ \A k \in 1..n : mem[Addr(After(rdPtr, k - 1))] = queue[k]
  BY DEF FifoInv, Typed, Content
<1>6. mem' = IF t = 1 THEN [mem EXCEPT ![Addr(wrPtr)] = d] ELSE mem
  BY DEF Moved
<1> HIDE DEF n
<1>7. \A k \in 0..(DEPTH - 1) : Addr(After(rdPtr, k)) \in 0..(DEPTH - 1)
  <2>1. \A k \in 0..DEPTH : After(rdPtr, k) \in Pointers
    BY <1>1, Turn
  <2> QED
    BY <1>4, <2>1, AddrIs
<1>8. mem' \in [0..(DEPTH - 1) -> Data]
  BY <1>5, <1>6
<1>9. wrPtr' = After(rdPtr', Len(queue'))
  <2>1. n + t \in g..DEPTH /\ (n + t) - g = n - g + t
    BY <1>1, <1>4
  <2> QED
    BY <1>1, <1>3, <2>1
<1>10. ASSUME NEW k \in 1..Len(queue')
       PROVE  mem'[Addr(After(rdPtr', k - 1))] = queue'[k]
  <2> DEFINE j == (k - 1) + g
             a == Addr(After(rdPtr, j))
  <2>1. j \in g..DEPTH /\ j - g = k - 1 /\ j \in 0..(DEPTH - 1) /\ j <= n /\ k + g = j + 1
    BY <1>1, <1>4
  <2>2. After(rdPtr', k - 1) = After(rdPtr, j)
    BY <1>3, <2>1
  <2> HIDE DEF j
  <2>3. a \in 0..(DEPTH - 1)
    BY <1>7, <2>1
  <2>4. CASE j < n
    <3>1. queue'[k] = queue[j + 1]
      BY <1>1, <1>2, <2>1, <2>4
    <3>2. j + 1 \in 1..n /\ (j + 1) - 1 = j
      BY <1>1, <2>1, <2>4
    <3>3. mem[a] = queue[j + 1]
      BY <1>5, <3>2
    <3>4. Addr(wrPtr) # a
      <4>1. n \in 0..(DEPTH - 1) /\ n # j
        BY <1>1, <2>1, <2>4
      <4>2. Addr(After(rdPtr, n)) = Addr(After(rdPtr, j)) => n = j
        BY <1>1, <2>1, <4>1, AddrsDiffer
      <4> QED
        BY <1>1, <4>1, <4>2
    <3> HIDE DEF a
    <3>5. mem'[a] = mem[a]
      BY <1>5, <1>6, <2>3, <3>4
    <3> QED
      BY <2>2, <3>1, <3>3, <3>5 DEF a
  <2>5. CASE j = n
    <3>1. t = 1
      BY <1>1, <2>1, <2>5
    <3>2. queue'[k] = d
      BY <1>1, <1>2, <2>1, <2>5
    <3>3. a = Addr(wrPtr)
      BY <1>1, <2>5
    <3> HIDE DEF a
    <3>4. mem'[a] = d
      BY <1>5, <1>6, <2>3, <3>1, <3>3
    <3> QED
      BY <2>2, <3>2, <3>4 DEF a
  <2> QED
    BY <1>1, <2>1, <2>4, <2>5
<1> QED
  BY <1>8, <1>9, <1>10

(* The word that is shown is the first of the queue.                       *)
LEMMA HeadShown ==
  ASSUME FifoInv, NEW g \in {0, 1}, NEW t \in {0, 1}, NEW d \in Data, Moved(g, t, d),
         \/ /\ empty' = NoWord(rdPtr')
            /\ IF NoWord(rdPtr') THEN rdData' = rdData
               ELSE rdData' \in IF t = 1 /\ Addr(wrPtr) = Addr(rdPtr') THEN Data
                                ELSE {mem[Addr(rdPtr')]}
         \/ g = 0 /\ empty' = empty /\ rdData' = rdData
  PROVE  rdData' \in Data /\ (~empty' => queue' # <<>> /\ rdData' = Head(queue'))
<1> DEFINE n == Len(queue)
<1>1. /\ n \in 0..(DEPTH - 1) /\ g <= n /\ n + t <= DEPTH - 1
      /\ rdPtr \in Pointers /\ rdPtr' \in Pointers /\ wrPtr = After(rdPtr, n)
      /\ Len(queue') = n - g + t /\ queue' \in Seq(Data)
  BY Moves
<1>2. \A k \in 1..Len(queue') : queue'[k] = IF k + g <= n THEN queue[k + g] ELSE d
  BY Moves
<1>3. \A k \in g..DEPTH : After(rdPtr', k - g) = After(rdPtr, k)
  BY Moves
<1>4. DEPTH \in Nat \ {0}
  BY Sizes
<1>5. /\ mem \in [0..(DEPTH - 1) -> Data] /\ rdData \in Data /\ queue \in Seq(Data)
      /\ \A k \in 1..n : mem[Addr(After(rdPtr, k - 1))] = queue[k]
      /\ (~empty => queue # <<>> /\ rdData = Head(queue))
  BY DEF FifoInv, Typed, Content
<1>6. g + 1 <= n => queue' # <<>> /\ Head(queue') = queue[g + 1]
  <2>1. SUFFICES ASSUME g + 1 <= n PROVE queue' # <<>> /\ Head(queue') = queue[g + 1]
    OBVIOUS
  <2> DEFINE q == queue'
  <2>2. q \in Seq(Data) /\ Len(q) >= 1
    BY <1>1, <2>1
  <2>3. q[1] = queue[g + 1]
    BY <1>1, <1>2, <2>1
  <2> HIDE DEF q
  <2>4. q # <<>> /\ Head(q) = q[1]
    BY <2>2
  <2> QED
    BY <2>3, <2>4 DEF q
<1> HIDE DEF n
<1>7. CASE /\ empty' = NoWord(rdPtr')
           /\ IF NoWord(rdPtr') THEN rdData' = rdData
              ELSE rdData' \in IF t = 1 /\ Addr(wrPtr) = Addr(rdPtr') THEN Data
                               ELSE {mem[Addr(rdPtr')]}
  <2>1. CASE NoWord(rdPtr')
    BY <1>5, <1>7, <2>1
  <2>2. CASE ~NoWord(rdPtr')
    <3>1. rdPtr' = After(rdPtr, g)
      <4>1. g \in g..DEPTH /\ g - g = 0
        BY <1>4
      <4>2. \A x \in Pointers : After(x, 0) = x
        BY Turn
      <4> QED
        BY <1>1, <1>3, <4>1, <4>2
    <3>2. g + 1 <= n
      <4>1. PICK n1, n2, n3 \in Nat : ReadLags(n1, n2, n3)
        BY DEF FifoInv
      <4>2. /\ n3 <= n2 /\ n2 <= n1 /\ n1 <= n /\ (n3 = 0 => empty)
            /\ wrSync2 = bin_to_gray[After(rdPtr, n2)]
        BY <4>1 DEF ReadLags, n
      <4>3. g = 1 => ~empty
        BY Zenon DEF Moved
      <4>4. n2 # g
        BY <2>2, <3>1, <4>2 DEF NoWord
      <4>5. g = 1 => n3 # 0
        BY <4>2, <4>3
      <4>6. n \in Nat
        BY <1>1, <1>4
      <4> QED
        BY <4>2, <4>4, <4>5, <4>6
    <3>3. /\ g \in 0..(DEPTH - 1) /\ n \in 0..(DEPTH - 1) /\ g # n
          /\ g + 1 \in 1..n /\ (g + 1) - 1 = g
      BY <1>1, <1>4, <3>2
    <3>4. Addr(wrPtr) # Addr(rdPtr')
      <4>1. Addr(After(rdPtr, n)) = Addr(After(rdPtr, g)) => n = g
        BY <1>1, <3>3, AddrsDiffer
      <4> QED
        BY <1>1, <3>1, <3>3, <4>1
    <3>5. mem[Addr(rdPtr')] = queue[g + 1]
      BY <1>5, <3>1, <3>3
    <3>6. rdData' = queue[g + 1]
      BY <1>7, <2>2, <3>4, <3>5
    <3>7. queue[g + 1] \in Data
      BY <1>5, <3>3 DEF n
    <3> QED
      BY <1>6, <3>2, <3>6, <3>7
  <2> QED
    BY <2>1, <2>2
<1>8. CASE g = 0 /\ empty' = empty /\ rdData' = rdData
  <2>1. SUFFICES ASSUME ~empty PROVE queue' # <<>> /\ rdData = Head(queue')
    BY <1>5, <1>8
  <2>2. queue # <<>> /\ rdData = Head(queue)
    BY <1>5, <2>1
  <2>3. 1 <= n /\ Head(queue) = queue[1]
    BY <1>5, <2>2 DEF n
  <2> QED
    BY <1>6, <1>8, <2>2, <2>3
<1> QED
  BY <1>7, <1>8

LEMMA FifoMoves ==
  ASSUME FifoInv, NEW g \in {0, 1}, NEW t \in {0, 1}, NEW d \in Data, Moved(g, t, d),
         \/ /\ rdSync1' \in {bin_to_gray[rdPtr], bin_to_gray[rdPtr']}
            /\ rdSync2' = rdSync1
            /\ full' = AlmostFull(wrPtr')
         \/ t = 0 /\ rdSync1' = rdSync1 /\ rdSync2' = rdSync2 /\ full' = full,
         \/ /\ wrSync1' \in {bin_to_gray[wrPtr], bin_to_gray[wrPtr']}
            /\ wrSync2' = wrSync1
            /\ wrBinSync' = gray_to_bin[wrSync2]
            /\ empty' = NoWord(rdPtr')
            /\ IF NoWord(rdPtr') THEN rdData' = rdData
               ELSE rdData' \in IF t = 1 /\ Addr(wrPtr) = Addr(rdPtr') THEN Data
                                ELSE {mem[Addr(rdPtr')]}
         \/ /\ g = 0
            /\ wrSync1' = wrSync1 /\ wrSync2' = wrSync2 /\ wrBinSync' = wrBinSync
            /\ empty' = empty /\ rdData' = rdData
  PROVE  FifoInv' /\ Len(queue') <= DEPTH
<1>1. \E l1, l2, l3 \in Nat : WriteLags(l1, l2, l3)'
  BY WriteLagsMove
<1>2. \E n1, n2, n3 \in Nat : ReadLags(n1, n2, n3)'
  BY ReadLagsMove
<1>3. /\ mem' \in [0..(DEPTH - 1) -> Data]
      /\ wrPtr' = After(rdPtr', Len(queue'))
      /\ \A k \in 1..Len(queue') : mem'[Addr(After(rdPtr', k - 1))] = queue'[k]
  BY WordsStay
<1>4. rdData' \in Data /\ (~empty' => queue' # <<>> /\ rdData' = Head(queue'))
  BY HeadShown
<1>5. wrPtr' \in Pointers /\ rdPtr' \in Pointers /\ queue' \in Seq(Data)
  BY Moves
<1>6. full' \in BOOLEAN /\ empty' \in BOOLEAN
  <2>1. full \in BOOLEAN /\ empty \in BOOLEAN
    BY DEF FifoInv, Typed
  <2> QED
    BY <2>1, Zenon DEF AlmostFull, NoWord
<1>7. Typed'
  BY <1>3, <1>4, <1>5, <1>6 DEF Typed
<1>8. Content'
  BY <1>3, <1>4, Zenon DEF Content
<1>9. Len(queue') <= DEPTH
  <2>1. /\ Len(queue) \in 0..(DEPTH - 1) /\ Len(queue) + t <= DEPTH - 1
        /\ Len(queue') = Len(queue) - g + t
    BY Moves
  <2> QED
    BY <2>1, Sizes
<1> QED
  BY <1>1, <1>2, <1>7, <1>8, <1>9, Zenon DEF FifoInv

(* What the users of the FIFO see of an edge                               *)
Gives(b) == IF b THEN 1 ELSE 0

Seen(g, t, d) ==
  /\ g \in {0, 1} /\ t \in {0, 1}
  /\ Moved(g, t, d)
  /\ delivered' = IF g = 1 THEN rdData ELSE delivered

LEMMA WriteIs ==
  ASSUME FifoInv, NEW wr_en \in BOOLEAN, NEW d \in Data, Write(wr_en, d)
  PROVE  FifoInv' /\ Len(queue') <= DEPTH /\ \E t \in {0, 1} : Seen(0, t, d)
<1> DEFINE took == wr_en /\ ~full
           t == Gives(took)
<1>1. /\ mem' = IF took THEN [mem EXCEPT ![Addr(wrPtr)] = d] ELSE mem
      /\ wrPtr' = IF took THEN Up(wrPtr) ELSE wrPtr
      /\ full' = AlmostFull(wrPtr')
      /\ rdSync1' = bin_to_gray[rdPtr] /\ rdSync2' = rdSync1
  BY DEF Write, WriteEdge, WrNext
<1>2. /\ queue' = queue \o (IF took THEN <<d>> ELSE <<>>)
      /\ delivered' = delivered
  BY DEF Write, Record
<1>3. /\ rdPtr' = rdPtr /\ empty' = empty /\ rdData' = rdData
      /\ wrSync1' = wrSync1 /\ wrSync2' = wrSync2 /\ wrBinSync' = wrBinSync
  BY DEF Write, readSide
<1>4. t \in {0, 1} /\ (t = 1 <=> took)
  BY DEF Gives
<1>5. Moved(0, t, d)
  BY <1>1, <1>2, <1>3, <1>4 DEF Moved, Queued
<1>6. Seen(0, t, d)
  BY <1>2, <1>4, <1>5 DEF Seen
<1> HIDE DEF t
<1>7. FifoInv' /\ Len(queue') <= DEPTH
  BY <1>1, <1>3, <1>4, <1>5, FifoMoves
<1> QED
  BY <1>4, <1>6, <1>7

LEMMA ReadIs ==
  ASSUME FifoInv, NEW rd_en \in BOOLEAN, Read(rd_en)
  PROVE  FifoInv' /\ Len(queue') <= DEPTH /\ \E g \in {0, 1} : Seen(g, 0, rdData)
<1> DEFINE gave == rd_en /\ ~empty
           g == Gives(gave)
           d == rdData
<1>1. /\ rdPtr' = IF gave THEN Up(rdPtr) ELSE rdPtr
      /\ empty' = NoWord(rdPtr')
      /\ IF NoWord(rdPtr') THEN rdData' = rdData ELSE rdData' = mem[Addr(rdPtr')]
      /\ wrSync1' = bin_to_gray[wrPtr] /\ wrSync2' = wrSync1
      /\ wrBinSync' = gray_to_bin[wrSync2]
  BY DEF Read, ReadEdge, RdNext, Word
<1>2. /\ queue' = (IF gave THEN Tail(queue) ELSE queue) \o <<>>
      /\ delivered' = IF gave THEN rdData ELSE delivered
  BY DEF Read, Record
<1>3. /\ mem' = mem /\ wrPtr' = wrPtr /\ full' = full
      /\ rdSync1' = rdSync1 /\ rdSync2' = rdSync2
  BY DEF Read, writeSide
<1>4. g \in {0, 1} /\ (g = 1 <=> gave) /\ d \in Data
  BY DEF Gives, FifoInv, Typed
<1>5. Moved(g, 0, d)
  BY <1>1, <1>2, <1>3, <1>4 DEF Moved, Queued
<1>6. Seen(g, 0, d)
  BY <1>2, <1>4, <1>5 DEF Seen
<1> HIDE DEF g, d
<1>7. FifoInv' /\ Len(queue') <= DEPTH
  BY <1>1, <1>3, <1>4, <1>5, FifoMoves
<1> QED
  BY <1>4, <1>6, <1>7 DEF d

LEMMA BothIs ==
  ASSUME FifoInv, NEW wr_en \in BOOLEAN, NEW d \in Data, NEW rd_en \in BOOLEAN,
         Both(wr_en, d, rd_en)
  PROVE  FifoInv' /\ Len(queue') <= DEPTH /\ \E g, t \in {0, 1} : Seen(g, t, d)
<1> DEFINE took == wr_en /\ ~full
           gave == rd_en /\ ~empty
           t == Gives(took)
           g == Gives(gave)
<1>1. PICK c \in Caught(bin_to_gray[rdPtr], bin_to_gray[RdNext(rd_en)]) :
        WriteEdge(wr_en, d, c)
  BY DEF Both
<1>2. PICK e \in Caught(bin_to_gray[wrPtr], bin_to_gray[WrNext(wr_en)]),
           toggle \in {overflowToggle, overflowToggle'} :
        ReadEdge(rd_en, e, toggle,
                 IF took /\ Addr(wrPtr) = Addr(RdNext(rd_en)) THEN Data ELSE {Word(rd_en)})
  BY DEF Both
<1>3. wrPtr' = WrNext(wr_en) /\ rdPtr' = RdNext(rd_en)
  BY <1>1, <1>2 DEF WriteEdge, ReadEdge
<1>4. /\ wrPtr' = (IF took THEN Up(wrPtr) ELSE wrPtr)
      /\ rdPtr' = (IF gave THEN Up(rdPtr) ELSE rdPtr)
  BY <1>3 DEF WrNext, RdNext
<1>5. wrPtr \in Pointers /\ rdPtr \in Pointers
  BY DEF FifoInv, Typed
<1>6. c \in {bin_to_gray[rdPtr], bin_to_gray[rdPtr']}
  <2>1. c \in Caught(bin_to_gray[rdPtr], bin_to_gray[rdPtr'])
    BY <1>3
  <2>2. CASE gave
    <3>1. rdPtr' = Up(rdPtr)
      BY <1>4, <2>2
    <3> QED
      BY <1>5, <2>1, <3>1, GrayStep
  <2>3. CASE ~gave
    <3>1. rdPtr' = rdPtr
      BY <1>4, <2>3
    <3> QED
      BY <2>1, <3>1, GrayStays
  <2> QED
    BY <2>2, <2>3
<1>7. e \in {bin_to_gray[wrPtr], bin_to_gray[wrPtr']}
  <2>1. e \in Caught(bin_to_gray[wrPtr], bin_to_gray[wrPtr'])
    BY <1>3
  <2>2. CASE took
    <3>1. wrPtr' = Up(wrPtr)
      BY <1>4, <2>2
    <3> QED
      BY <1>5, <2>1, <3>1, GrayStep
  <2>3. CASE ~took
    <3>1. wrPtr' = wrPtr
      BY <1>4, <2>3
    <3> QED
      BY <2>1, <3>1, GrayStays
  <2> QED
    BY <2>2, <2>3
<1>8. /\ mem' = IF took THEN [mem EXCEPT ![Addr(wrPtr)] = d] ELSE mem
      /\ full' = AlmostFull(wrPtr')
      /\ rdSync1' = c /\ rdSync2' = rdSync1
  BY <1>1, <1>3 DEF WriteEdge
<1>9. /\ empty' = NoWord(rdPtr')
      /\ IF NoWord(rdPtr') THEN rdData' = rdData
         ELSE rdData' \in IF took /\ Addr(wrPtr) = Addr(rdPtr') THEN Data
                          ELSE {mem[Addr(rdPtr')]}
      /\ wrSync1' = e /\ wrSync2' = wrSync1 /\ wrBinSync' = gray_to_bin[wrSync2]
  BY <1>2, <1>3 DEF ReadEdge, Word
<1>10. /\ queue' = (IF gave THEN Tail(queue) ELSE queue) \o (IF took THEN <<d>> ELSE <<>>)
       /\ delivered' = IF gave THEN rdData ELSE delivered
  BY DEF Both, Record
<1>11. g \in {0, 1} /\ (g = 1 <=> gave) /\ t \in {0, 1} /\ (t = 1 <=> took)
  BY DEF Gives
<1>12. Moved(g, t, d)
  BY <1>4, <1>8, <1>10, <1>11 DEF Moved, Queued
<1>13. Seen(g, t, d)
  BY <1>10, <1>11, <1>12 DEF Seen
<1>14. IF NoWord(rdPtr') THEN rdData' = rdData
       ELSE rdData' \in IF t = 1 /\ Addr(wrPtr) = Addr(rdPtr') THEN Data
                        ELSE {mem[Addr(rdPtr')]}
  BY <1>9, <1>11
<1> HIDE DEF g, t
<1>15. FifoInv' /\ Len(queue') <= DEPTH
  BY <1>6, <1>7, <1>8, <1>9, <1>11, <1>12, <1>14, FifoMoves
<1> QED
  BY <1>11, <1>13, <1>15

LEMMA ResetIs ==
  ASSUME FifoInv, Reset
  PROVE  FifoInv' /\ queue' = <<>> /\ delivered' = delivered
<1>1. queue' = <<>> /\ delivered' = delivered
  BY DEF Reset
<1>2. Typed'
  <2>1. mem' \in [0..(DEPTH - 1) -> Data] /\ rdData' \in Data
    BY DEF Reset, FifoInv, Typed
  <2>2. wrPtr' = 0 /\ rdPtr' = 0 /\ ~full' /\ full' \in BOOLEAN /\ empty' \in BOOLEAN
    BY DEF Reset
  <2>3. 0 \in Pointers
    BY Sizes
  <2>4. queue' \in Seq(Data)
    BY <1>1
  <2> QED
    BY <2>1, <2>2, <2>3, <2>4 DEF Typed
<1>3. Len(queue') = 0
  BY <1>1
<1>4. /\ rdPtr' = 0 /\ wrPtr' = 0 /\ empty'
      /\ rdSync1' = {} /\ rdSync2' = {} /\ wrSync1' = {} /\ wrSync2' = {} /\ wrBinSync' = 0
  BY DEF Reset
<1>5. After(0, 0) = 0 /\ Before(0, 0) = 0 /\ DEPTH \in Nat /\ DEPTH >= 2
  BY AtLeastTwo, Sizes DEF After, Before
<1>6. Content'
  BY <1>3, <1>4, <1>5 DEF Content
<1>7. bin_to_gray[0] = {}
  BY LastGray
<1>8. WriteLags(0, 0, 0)'
  BY <1>3, <1>4, <1>5, <1>7 DEF WriteLags
<1>9. ReadLags(0, 0, 0)'
  BY <1>3, <1>4, <1>5, <1>7 DEF ReadLags
<1>10. 0 \in Nat
  OBVIOUS
<1> QED
  BY <1>1, <1>2, <1>6, <1>8, <1>9, <1>10, Zenon DEF FifoInv

(* A step of the FIFO is a step of the queue, and keeps the invariant.     *)
LEMMA SeenIsMove ==
  ASSUME FifoInv, NEW g \in {0, 1}, NEW t \in {0, 1}, NEW d \in Data, Seen(g, t, d),
         Len(queue') <= DEPTH
  PROVE  Queue!Next
<1> DEFINE took == IF t = 1 THEN <<d>> ELSE <<>>
           gave == g = 1
<1>1. /\ queue' = (IF gave THEN Tail(queue) ELSE queue) \o took
      /\ gave => ~empty
      /\ delivered' = IF gave THEN rdData ELSE delivered
  BY DEF Seen, Moved, Queued
<1>2. ~empty => queue # <<>> /\ rdData = Head(queue)
  BY DEF FifoInv, Content
<1>3. took \in {<<>>} \cup {<<x>> : x \in Data} /\ gave \in BOOLEAN
  OBVIOUS
<1> HIDE DEF took, gave
<1>4. /\ (gave => queue # <<>> /\ delivered' = Head(queue))
      /\ (~gave => delivered' = delivered)
  BY <1>1, <1>2
<1>5. Queue!Move(took, gave)
  BY <1>1, <1>4, Zenon DEF Queue!Move
<1> QED
  BY <1>3, <1>5, Zenon DEF Queue!Next

LEMMA FifoStep ==
  FifoInv /\ [Next]_vars => FifoInv' /\ [Queue!Next]_(Queue!vars)
<1> SUFFICES ASSUME FifoInv, [Next]_vars
             PROVE  FifoInv' /\ [Queue!Next]_(Queue!vars)
  OBVIOUS
<1>1. ASSUME NEW wr_en \in BOOLEAN, NEW d \in Data, Write(wr_en, d)
      PROVE  FifoInv' /\ Queue!Next
  <2>1. FifoInv' /\ Len(queue') <= DEPTH /\ \E t \in {0, 1} : Seen(0, t, d)
    BY <1>1, WriteIs
  <2>2. 0 \in {0, 1}
    OBVIOUS
  <2> QED
    BY <2>1, <2>2, SeenIsMove
<1>2. ASSUME NEW rd_en \in BOOLEAN, Read(rd_en)
      PROVE  FifoInv' /\ Queue!Next
  <2>1. FifoInv' /\ Len(queue') <= DEPTH /\ \E g \in {0, 1} : Seen(g, 0, rdData)
    BY <1>2, ReadIs
  <2>2. 0 \in {0, 1} /\ rdData \in Data
    BY DEF FifoInv, Typed
  <2> QED
    BY <2>1, <2>2, SeenIsMove
<1>3. ASSUME NEW wr_en \in BOOLEAN, NEW d \in Data, NEW rd_en \in BOOLEAN,
             Both(wr_en, d, rd_en)
      PROVE  FifoInv' /\ Queue!Next
  <2>1. FifoInv' /\ Len(queue') <= DEPTH /\ \E g, t \in {0, 1} : Seen(g, t, d)
    BY <1>3, BothIs
  <2> QED
    BY <2>1, SeenIsMove
<1>4. ASSUME Reset
      PROVE  FifoInv' /\ Queue!Next
  <2>1. FifoInv' /\ queue' = <<>> /\ delivered' = delivered
    BY <1>4, ResetIs
  <2>2. Queue!Reset
    BY <2>1, Zenon DEF Queue!Reset
  <2> QED
    BY <2>1, <2>2, Zenon DEF Queue!Next
<1>5. ASSUME UNCHANGED vars
      PROVE  FifoInv' /\ UNCHANGED Queue!vars
  <2>1. /\ UNCHANGED <<mem, wrPtr, full, rdSync1, rdSync2, rdPtr, empty, rdData,
                       wrSync1, wrSync2, wrBinSync, queue, delivered>>
    BY <1>5, Zenon DEF vars, writeSide, readSide, history
  <2>2. Typed' /\ Content'
    BY <2>1 DEF FifoInv, Typed, Content
  <2>3. \E l1, l2, l3 \in Nat : WriteLags(l1, l2, l3)'
    <3>1. PICK l1, l2, l3 \in Nat : WriteLags(l1, l2, l3)
      BY Zenon DEF FifoInv
    <3>2. WriteLags(l1, l2, l3)'
      BY <2>1, <3>1 DEF WriteLags
    <3> QED
      BY <3>2, Zenon
  <2>4. \E n1, n2, n3 \in Nat : ReadLags(n1, n2, n3)'
    <3>1. PICK n1, n2, n3 \in Nat : ReadLags(n1, n2, n3)
      BY Zenon DEF FifoInv
    <3>2. ReadLags(n1, n2, n3)'
      BY <2>1, <3>1 DEF ReadLags
    <3> QED
      BY <3>2, Zenon
  <2>5. FifoInv'
    BY <2>2, <2>3, <2>4, Zenon DEF FifoInv
  <2> QED
    BY <2>1, <2>5, Zenon DEF Queue!vars
<1> QED
  BY <1>1, <1>2, <1>3, <1>4, <1>5, Zenon DEF Next

LEMMA AlwaysFifoInv == Spec => []FifoInv
<1>1. Init => FifoInv
  BY InitFifoInv
<1>2. FifoInv /\ [Next]_vars => FifoInv'
  BY FifoStep
<1> QED
  BY <1>1, <1>2, PTL DEF Spec

(* Over any number of wraps of the pointers, with the synchronisers as far *)
(* behind as they may be and each pointer caught while it changes: the     *)
(* FIFO loses, repeats, reorders and alters no message that it took.       *)
THEOREM FifoImplementsQueue == Spec => ImplementsQueue
<1>1. Init => Queue!Init
  BY DEF Init, Queue!Init
<1>2. FifoInv /\ [Next]_vars => [Queue!Next]_(Queue!vars)
  BY FifoStep
<1> QED
  BY <1>1, <1>2, AlwaysFifoInv, PTL DEF Spec, ImplementsQueue, Queue!Spec

(* The fill count of STATUS never exceeds what is in the FIFO, however old *)
(* the write pointer that it is made of.                                   *)
THEOREM CountNeverExceeds == Spec => []CountIsConservative
<1>1. FifoInv => CountIsConservative
  <2> SUFFICES ASSUME FifoInv PROVE Count <= Len(queue)
    BY DEF CountIsConservative
  <2>1. PICK n1, n2, n3 \in Nat : ReadLags(n1, n2, n3)
    BY DEF FifoInv
  <2>2. n3 <= Len(queue) /\ wrBinSync = After(rdPtr, n3)
    <3>1. Len(queue) \in Nat
      BY DEF FifoInv, Typed
    <3> QED
      BY <2>1, <3>1 DEF ReadLags
  <2>3. Len(queue) <= DEPTH - 1
    <3>1. PICK l1, l2, l3 \in Nat : WriteLags(l1, l2, l3)
      BY DEF FifoInv
    <3>2. Len(queue) \in Nat
      BY DEF FifoInv, Typed
    <3> QED
      BY <3>1, <3>2, Sizes DEF WriteLags
  <2> DEFINE w == 2 * DEPTH
             e == wrBinSync - rdPtr
  <2>4. /\ w \in Nat \ {0} /\ rdPtr \in 0..(w - 1) /\ 2^PtrBits = w
        /\ n3 < w /\ wrBinSync = IF rdPtr + n3 < w THEN rdPtr + n3 ELSE rdPtr + n3 - w
    <3>1. rdPtr \in Pointers /\ Len(queue) \in Nat
      BY DEF FifoInv, Typed
    <3> QED
      BY <2>2, <2>3, <3>1, Sizes DEF After
  <2> HIDE DEF w
  <2>5. e \in (-w)..(2 * w - 1) /\ (e = n3 \/ e = n3 - w)
    BY <2>4
  <2> HIDE DEF e
  <2>6. e % w = IF e < 0 THEN e + w ELSE IF e < w THEN e ELSE e - w
    BY <2>4, <2>5, Wrap
  <2>7. e % w = n3
    BY <2>4, <2>5, <2>6
  <2>8. Count = n3
    BY <2>4, <2>7 DEF Count, e
  <2> QED
    BY <2>2, <2>8
<1> QED
  BY <1>1, AlwaysFifoInv, PTL

----------------------------------------------------------------------------

(* The overflows that are owed are the changes of the toggle still on      *)
(* their way.  Between two edges of the write clock there is one of the    *)
(* read clock alone, which takes in the change of the first.               *)
Change(a, b) == IF a = b THEN 0 ELSE 1

InFlight == Change(overflowToggle, togSync1) + Change(togSync1, togSync2)
              + Change(togSync2, togPrev)

OverflowInv ==
  /\ {overflowToggle, togSync1, togSync2, togPrev, crowded, read} \subseteq BOOLEAN
  /\ pending \in 0..MaxPending
  /\ ~crowded => pending <= InFlight
  /\ ~crowded /\ read => overflowToggle = togSync1

LEMMA MinIs ==
  ASSUME NEW a \in Int, NEW b \in Int
  PROVE  Min({a, b}) = IF a <= b THEN a ELSE b
<1> DEFINE m == IF a <= b THEN a ELSE b
<1>1. m \in {a, b} /\ \A y \in {a, b} : m <= y
  OBVIOUS
<1>2. \A x \in {a, b} : (\A y \in {a, b} : x <= y) => x = m
  OBVIOUS
<1> HIDE DEF m
<1>3. Min({a, b}) = m
  BY <1>1, <1>2 DEF Min
<1> QED
  BY <1>3 DEF m

(* The count of what is owed, after an edge that loses l and tells of s    *)
LEMMA PendingIs ==
  ASSUME OverflowInv, NEW l \in {0, 1}, NEW s \in {0, 1}, s = 1 => pending > 0,
         pending' = IF crowded' THEN 0 ELSE Min({MaxPending, pending + l - s})
  PROVE  pending' \in 0..MaxPending /\ pending' <= pending + l - s
<1>1. MaxPending \in Nat /\ pending \in 0..MaxPending
  BY FifoAssumption DEF OverflowInv
<1>2. pending + l - s \in Nat
  BY <1>1
<1>3. Min({MaxPending, pending + l - s})
        = IF MaxPending <= pending + l - s THEN MaxPending ELSE pending + l - s
  BY <1>1, <1>2, MinIs
<1> QED
  BY <1>1, <1>2, <1>3

LEMMA Changes ==
  /\ \A x, y : Change(x, y) \in {0, 1} /\ (x = y <=> Change(x, y) = 0)
  /\ \A x \in BOOLEAN : Change(~x, x) = 1 /\ Change(x, ~x) = 1
<1>1. ASSUME NEW x, NEW y
      PROVE  Change(x, y) \in {0, 1} /\ (x = y <=> Change(x, y) = 0)
  <2>1. CASE x = y
    BY <2>1 DEF Change
  <2>2. CASE x # y
    BY <2>2 DEF Change
  <2> QED
    BY <2>1, <2>2
<1>2. ASSUME NEW x \in BOOLEAN
      PROVE  Change(~x, x) = 1 /\ Change(x, ~x) = 1
  <2>1. (~x) # x
    BY Zenon
  <2>2. Change(~x, x) # 0 /\ Change(x, ~x) # 0
    BY <1>1, <2>1, Zenon
  <2> QED
    BY <1>1, <2>2
<1> QED
  BY <1>1, <1>2

LEMMA OverflowStep ==
  OverflowInv /\ [Next]_vars => OverflowInv'
<1> SUFFICES ASSUME OverflowInv, [Next]_vars PROVE OverflowInv'
  OBVIOUS
<1> DEFINE told == Gives(togSync2 # togPrev /\ pending > 0)
           c01 == Change(overflowToggle, togSync1)
           c12 == Change(togSync1, togSync2)
           c23 == Change(togSync2, togPrev)
<1>1. /\ overflowToggle \in BOOLEAN /\ togSync1 \in BOOLEAN /\ togSync2 \in BOOLEAN
      /\ togPrev \in BOOLEAN /\ crowded \in BOOLEAN /\ read \in BOOLEAN
  BY Zenon DEF OverflowInv
<1>2. /\ pending \in 0..MaxPending /\ MaxPending \in Nat
      /\ ~crowded => pending <= c01 + c12 + c23
  BY FifoAssumption DEF OverflowInv, InFlight
<1>3. ~crowded /\ read => overflowToggle = togSync1
  BY Zenon DEF OverflowInv
<1>4. /\ c01 \in {0, 1} /\ c12 \in {0, 1} /\ c23 \in {0, 1}
      /\ ~crowded /\ read => c01 = 0
  BY <1>3, Changes, Zenon
<1>5. /\ told \in {0, 1} /\ (told = 1 => pending > 0)
      /\ pending > 0 => told = c23
  <2>1. c23 = 0 <=> togSync2 = togPrev
    BY Changes, Zenon
  <2> QED
    BY <1>2, <1>4, <2>1 DEF Gives
<1>6. ASSUME NEW l \in BOOLEAN, overflowToggle' = IF l THEN ~overflowToggle ELSE overflowToggle
      PROVE  /\ Change(overflowToggle', overflowToggle) = Gives(l)
             /\ overflowToggle' \in BOOLEAN
  <2>1. CASE l
    <3>1. overflowToggle' = ~overflowToggle
      BY <1>6, <2>1, Zenon
    <3> QED
      BY <1>1, <2>1, <3>1, Changes, Zenon DEF Gives
  <2>2. CASE ~l
    <3>1. overflowToggle' = overflowToggle
      BY <1>6, <2>2, Zenon
    <3> QED
      BY <1>1, <2>2, <3>1, Changes, Zenon DEF Gives
  <2> QED
    BY <2>1, <2>2
<1> HIDE DEF told, c01, c12, c23
<1>7. ASSUME NEW wr_en \in BOOLEAN, NEW d \in Data, Write(wr_en, d)
      PROVE  OverflowInv'
  <2> DEFINE l == wr_en /\ full
             refused == Gives(l)
  <2>1. /\ overflowToggle' = IF l THEN ~overflowToggle ELSE overflowToggle
        /\ crowded' = (crowded \/ ~read) /\ read' = crowded'
        /\ togSync1' = togSync1 /\ togSync2' = togSync2 /\ togPrev' = togPrev
        /\ pending' = IF crowded' THEN 0 ELSE Min({MaxPending, pending + refused - 0})
    BY <1>7 DEF Write, WriteEdge, Record, OverflowSignal, readSide, Gives
  <2>2. refused \in {0, 1} /\ l \in BOOLEAN
    BY DEF Gives
  <2> HIDE DEF l
  <2>3. Change(overflowToggle', overflowToggle) = refused /\ overflowToggle' \in BOOLEAN
    BY <1>6, <2>1, <2>2
  <2> HIDE DEF refused
  <2>4. pending' \in 0..MaxPending /\ pending' <= pending + refused - 0
    BY <2>1, <2>2, PendingIs
  <2>5. ~crowded' => pending' <= InFlight'
    <3>1. SUFFICES ASSUME ~crowded' PROVE pending' <= InFlight'
      OBVIOUS
    <3>2. ~crowded /\ read
      BY <2>1, <3>1, Zenon
    <3>3. overflowToggle = togSync1 /\ c01 = 0
      BY <1>3, <1>4, <3>2, Zenon
    <3>4. Change(overflowToggle', togSync1') = refused
      BY <2>1, <2>3, <3>3, Zenon
    <3>5. InFlight' = refused + c12 + c23
      BY <2>1, <3>4 DEF InFlight, c12, c23
    <3> QED
      BY <1>2, <1>4, <2>2, <2>4, <3>2, <3>3, <3>5
  <2>6. ~crowded' /\ read' => overflowToggle' = togSync1'
    BY <2>1, Zenon
  <2>7. crowded' \in BOOLEAN /\ read' \in BOOLEAN
    BY <2>1, Zenon
  <2>8. togSync1' \in BOOLEAN /\ togSync2' \in BOOLEAN /\ togPrev' \in BOOLEAN
    BY <1>1, <2>1, Zenon
  <2> QED
    BY <2>3, <2>4, <2>5, <2>6, <2>7, <2>8, Zenon DEF OverflowInv
<1>8. ASSUME NEW rd_en \in BOOLEAN, Read(rd_en)
      PROVE  OverflowInv'
  <2>1. /\ overflowToggle' = overflowToggle
        /\ togSync1' = overflowToggle /\ togSync2' = togSync1 /\ togPrev' = togSync2
        /\ pending' = IF crowded' THEN 0 ELSE Min({MaxPending, pending + 0 - told})
    BY <1>8 DEF Read, ReadEdge, Record, writeSide, Gives, told
  <2>7. /\ crowded' = (crowded \/ (FALSE /\ ~read))
        /\ read' = (crowded' \/ ~FALSE)
    BY <1>8 DEF Read, Record
  <2>8. crowded' <=> crowded
    BY <2>7, Zenon
  <2>2. pending' \in 0..MaxPending /\ pending' <= pending + 0 - told
    BY <1>5, <2>1, PendingIs
  <2>3. ~crowded' => pending' <= InFlight'
    <3>1. Change(overflowToggle', togSync1') = 0
      BY <2>1, Changes, Zenon
    <3>2. InFlight' = 0 + c01 + c12
      BY <2>1, <3>1 DEF InFlight, c01, c12
    <3> QED
      BY <1>2, <1>4, <1>5, <2>2, <2>8, <3>2
  <2>4. ~crowded' /\ read' => overflowToggle' = togSync1'
    BY <2>1, Zenon
  <2>5. crowded' \in BOOLEAN /\ read' \in BOOLEAN
    BY <2>7, Zenon
  <2>6. /\ overflowToggle' \in BOOLEAN /\ togSync1' \in BOOLEAN
        /\ togSync2' \in BOOLEAN /\ togPrev' \in BOOLEAN
    BY <1>1, <2>1, Zenon
  <2> QED
    BY <2>2, <2>3, <2>4, <2>5, <2>6, Zenon DEF OverflowInv
<1>9. ASSUME NEW wr_en \in BOOLEAN, NEW d \in Data, NEW rd_en \in BOOLEAN,
             Both(wr_en, d, rd_en)
      PROVE  OverflowInv'
  <2> DEFINE l == wr_en /\ full
             refused == Gives(l)
  <2>1. /\ overflowToggle' = IF l THEN ~overflowToggle ELSE overflowToggle
        /\ crowded' = (crowded \/ ~read) /\ read' = crowded'
        /\ togSync1' \in {overflowToggle, overflowToggle'}
        /\ togSync2' = togSync1 /\ togPrev' = togSync2
        /\ pending' = IF crowded' THEN 0 ELSE Min({MaxPending, pending + refused - told})
    BY <1>9 DEF Both, WriteEdge, ReadEdge, Record, OverflowSignal, Gives, told
  <2>2. refused \in {0, 1} /\ l \in BOOLEAN
    BY DEF Gives
  <2> HIDE DEF l
  <2>3. Change(overflowToggle', overflowToggle) = refused /\ overflowToggle' \in BOOLEAN
    BY <1>6, <2>1, <2>2
  <2> HIDE DEF refused
  <2>4. pending' \in 0..MaxPending /\ pending' <= pending + refused - told
    BY <1>5, <2>1, <2>2, PendingIs
  <2>5. ~crowded' => pending' <= InFlight'
    <3>1. SUFFICES ASSUME ~crowded' PROVE pending' <= InFlight'
      OBVIOUS
    <3>2. ~crowded /\ read
      BY <2>1, <3>1, Zenon
    <3>3. overflowToggle = togSync1 /\ c01 = 0
      BY <1>3, <1>4, <3>2, Zenon
    <3>4. Change(overflowToggle', togSync1') + Change(togSync1', togSync2') = refused
      <4>1. CASE togSync1' = overflowToggle
        <5>1. Change(overflowToggle', togSync1') = refused
          BY <2>3, <4>1, Zenon
        <5>2. Change(togSync1', togSync2') = 0
          BY <2>1, <3>3, <4>1, Changes, Zenon
        <5> QED
          BY <2>2, <5>1, <5>2
      <4>2. CASE togSync1' = overflowToggle'
        <5>1. Change(overflowToggle', togSync1') = 0
          BY <4>2, Changes, Zenon
        <5>2. Change(togSync1', togSync2') = refused
          BY <2>1, <2>3, <3>3, <4>2, Zenon
        <5> QED
          BY <2>2, <5>1, <5>2
      <4> QED
        BY <2>1, <4>1, <4>2
    <3>5. InFlight' = refused + c12
      BY <2>1, <3>4 DEF InFlight, c12
    <3> QED
      BY <1>2, <1>4, <1>5, <2>2, <2>4, <3>2, <3>3, <3>5
  <2>6. ~crowded' /\ read' => overflowToggle' = togSync1'
    BY <2>1, Zenon
  <2>7. crowded' \in BOOLEAN /\ read' \in BOOLEAN
    BY <2>1, Zenon
  <2>8. togSync1' \in BOOLEAN /\ togSync2' \in BOOLEAN /\ togPrev' \in BOOLEAN
    BY <1>1, <2>1, <2>3, Zenon
  <2> QED
    BY <2>3, <2>4, <2>5, <2>6, <2>7, <2>8, Zenon DEF OverflowInv
<1>10. ASSUME Reset
       PROVE  OverflowInv'
  <2>1. /\ overflowToggle' = FALSE /\ togSync1' = FALSE /\ togSync2' = FALSE
        /\ togPrev' = FALSE /\ read' = TRUE /\ crowded' = FALSE /\ pending' = 0
    BY <1>10 DEF Reset
  <2>2. /\ Change(overflowToggle, togSync1)' = 0 /\ Change(togSync1, togSync2)' = 0
        /\ Change(togSync2, togPrev)' = 0
    BY <2>1, Changes, Zenon
  <2>3. InFlight' = 0
    BY <2>2 DEF InFlight
  <2>4. {overflowToggle, togSync1, togSync2, togPrev, crowded, read}' \subseteq BOOLEAN
    BY <2>1, Zenon
  <2>5. pending' \in 0..MaxPending /\ pending' <= InFlight'
    BY <2>1, <2>3, FifoAssumption
  <2>6. overflowToggle' = togSync1'
    BY <2>1, Zenon
  <2> QED
    BY <2>4, <2>5, <2>6, Zenon DEF OverflowInv
<1>11. ASSUME UNCHANGED vars
       PROVE  OverflowInv'
  <2>1. UNCHANGED <<overflowToggle, togSync1, togSync2, togPrev, crowded, read, pending>>
    BY <1>11, Zenon DEF vars, writeSide, readSide, history
  <2> QED
    BY <2>1 DEF OverflowInv, InFlight
<1> QED
  BY <1>7, <1>8, <1>9, <1>10, <1>11, Zenon DEF Next

LEMMA OverflowInit == Init => OverflowInv
<1> SUFFICES ASSUME Init PROVE OverflowInv
  OBVIOUS
<1>1. /\ overflowToggle = FALSE /\ togSync1 = FALSE /\ togSync2 = FALSE
      /\ togPrev = FALSE /\ read = TRUE /\ crowded = FALSE /\ pending = 0
  BY DEF Init
<1>2. /\ Change(overflowToggle, togSync1) = 0 /\ Change(togSync1, togSync2) = 0
      /\ Change(togSync2, togPrev) = 0
  BY <1>1, Changes, Zenon
<1>3. InFlight = 0
  BY <1>2 DEF InFlight
<1>4. {overflowToggle, togSync1, togSync2, togPrev, crowded, read} \subseteq BOOLEAN
  BY <1>1, Zenon
<1>5. pending \in 0..MaxPending /\ pending <= InFlight
  BY <1>1, <1>3, FifoAssumption
<1>6. overflowToggle = togSync1
  BY <1>1, Zenon
<1> QED
  BY <1>4, <1>5, <1>6, Zenon DEF OverflowInv

(* docs/wiki/07-From-FPGA-to-Network.md:35: while the read clock is the    *)
(* faster one, an overflow that was not reported is on its way in the      *)
(* toggle, which does not fall back unseen.                                *)
THEOREM OverflowsAreReported == Spec => []OverflowsReported
<1>1. Init => OverflowInv
  BY OverflowInit
<1>2. OverflowInv => OverflowsReported
  <2> SUFFICES ASSUME OverflowInv, AllSeen, ~crowded PROVE pending = 0
    BY DEF OverflowsReported
  <2>1. /\ Change(overflowToggle, togSync1) = 0 /\ Change(togSync1, togSync2) = 0
        /\ Change(togSync2, togPrev) = 0
    BY Changes, Zenon DEF AllSeen
  <2>2. InFlight = 0
    BY <2>1 DEF InFlight
  <2> QED
    BY <2>2, FifoAssumption DEF OverflowInv
<1> QED
  BY <1>1, <1>2, OverflowStep, PTL DEF Spec

----------------------------------------------------------------------------

(* The rest of the type of the FIFO: what no other part of it depends on.   *)
RestTyped == overflow \in BOOLEAN /\ delivered \in Data

LEMMA RestStep == FifoInv /\ RestTyped /\ [Next]_vars => RestTyped'
<1> SUFFICES ASSUME FifoInv, RestTyped, [Next]_vars PROVE RestTyped'
  OBVIOUS
<1>1. overflow \in BOOLEAN /\ delivered \in Data /\ rdData \in Data
  BY DEF RestTyped, FifoInv, Typed
<1>2. ASSUME NEW wr_en \in BOOLEAN, NEW d \in Data, Write(wr_en, d) PROVE RestTyped'
  <2>1. overflow' = overflow /\ delivered' = delivered
    BY <1>2 DEF Write, Record, readSide
  <2> QED
    BY <1>1, <2>1 DEF RestTyped
<1>3. ASSUME NEW rd_en \in BOOLEAN, Read(rd_en) PROVE RestTyped'
  <2>1. overflow' = (togSync2 # togPrev) /\ delivered' \in {rdData, delivered}
    BY <1>3 DEF Read, ReadEdge, Record
  <2> QED
    BY <1>1, <2>1 DEF RestTyped
<1>4. ASSUME NEW wr_en \in BOOLEAN, NEW d \in Data, NEW rd_en \in BOOLEAN,
             Both(wr_en, d, rd_en)
      PROVE  RestTyped'
  <2>1. overflow' = (togSync2 # togPrev) /\ delivered' \in {rdData, delivered}
    BY <1>4 DEF Both, ReadEdge, Record
  <2> QED
    BY <1>1, <2>1 DEF RestTyped
<1>5. CASE Reset
  <2>1. overflow' = FALSE /\ delivered' = delivered
    BY <1>5 DEF Reset
  <2> QED
    BY <1>1, <2>1 DEF RestTyped
<1>6. CASE UNCHANGED vars
  <2>1. overflow' = overflow /\ delivered' = delivered
    BY <1>6, Zenon DEF vars, readSide, history
  <2> QED
    BY <1>1, <2>1 DEF RestTyped
<1> QED
  BY <1>2, <1>3, <1>4, <1>5, <1>6, Zenon DEF Next

\* Every register of the FIFO keeps its type, the queue its bound
\* (async_msg_fifo.vhd).
THEOREM FifoTyped == Spec => []TypeOK
<1>1. Init => OverflowInv
  BY OverflowInit
<1>2. Init => RestTyped
  BY DEF Init, RestTyped
<1>3. FifoInv /\ OverflowInv /\ RestTyped => TypeOK
  <2> SUFFICES ASSUME FifoInv, OverflowInv, RestTyped PROVE TypeOK
    OBVIOUS
  <2>1. /\ Typed /\ Len(queue) \in Nat
    BY DEF FifoInv, Typed
  <2>2. PICK l1, l2, l3 \in Nat : WriteLags(l1, l2, l3)
    BY DEF FifoInv
  <2>3. PICK n1, n2, n3 \in Nat : ReadLags(n1, n2, n3)
    BY DEF FifoInv
  <2>4. /\ l1 \in 0..DEPTH /\ l2 \in 0..DEPTH /\ Len(queue) <= DEPTH
    BY <2>1, <2>2, Sizes DEF WriteLags
  <2>5. n1 \in 0..DEPTH /\ n2 \in 0..DEPTH /\ n3 \in 0..DEPTH
    BY <2>1, <2>3, <2>4, Sizes DEF ReadLags
  <2>6. rdPtr \in Pointers
    BY <2>1 DEF Typed
  <2>7. /\ Before(rdPtr, l1) \in Pointers /\ Before(rdPtr, l2) \in Pointers
        /\ After(rdPtr, n1) \in Pointers /\ After(rdPtr, n2) \in Pointers
        /\ After(rdPtr, n3) \in Pointers
    BY <2>4, <2>5, <2>6, Turn
  <2>8. wrBinSync \in Pointers
    BY <2>3, <2>7 DEF ReadLags
  <2>9. rdSync1 \in Vectors /\ rdSync2 \in Vectors
    BY <2>2, <2>7, GrayIs, Zenon DEF WriteLags
  <2>10. wrSync1 \in Vectors /\ wrSync2 \in Vectors
    BY <2>3, <2>7, GrayIs, Zenon DEF ReadLags
  <2>11. {full, empty, overflowToggle, togSync1, togSync2, togPrev, overflow} \subseteq BOOLEAN
    <3>1. /\ {full, empty} \subseteq BOOLEAN /\ {overflow} \subseteq BOOLEAN
          /\ {overflowToggle, togSync1, togSync2, togPrev} \subseteq BOOLEAN
      BY <2>1 DEF Typed, OverflowInv, RestTyped
    <3> QED
      BY <3>1
  <2>12. {read, crowded} \subseteq BOOLEAN
    BY DEF OverflowInv
  <2>13. {wrPtr, rdPtr, wrBinSync} \subseteq Pointers
    BY <2>1, <2>8 DEF Typed
  <2>14. {rdSync1, rdSync2, wrSync1, wrSync2} \subseteq Vectors
    BY <2>9, <2>10
  <2>15. /\ mem \in [0..(DEPTH - 1) -> Data] /\ rdData \in Data /\ queue \in Seq(Data)
         /\ delivered \in Data /\ pending \in 0..MaxPending
    BY <2>1 DEF Typed, RestTyped, OverflowInv
  <2> QED
    BY <2>4, <2>11, <2>12, <2>13, <2>14, <2>15, Zenon DEF TypeOK
<1> QED
  BY <1>1, <1>2, <1>3, AlwaysFifoInv, OverflowStep, RestStep, PTL DEF Spec

=============================================================================
