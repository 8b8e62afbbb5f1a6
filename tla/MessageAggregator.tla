------------------------- MODULE MessageAggregator -------------------------
(***************************************************************************)
(* hdl/rtl/message_aggregator.vhd: the holding slots of the decoders and   *)
(* the round-robin arbiter that empties them.                              *)
(*                                                                         *)
(* A step is an edge of the clock: both processes of the code take it      *)
(* together, each seeing the signals as they were before it.  A message is *)
(* known by the decoder it comes from, since a slot holds one at a time.   *)
(* adsb_top writes to the FIFO what is tagged as a message and leaves out  *)
(* the padding.                                                            *)
(***************************************************************************)
EXTENDS Integers, FiniteSets

CONSTANTS N,                \* NUM_DECODERS
          MsgsPerTimeout,   \* MSGS_PER_TIMEOUT
          PacketTimeout,    \* PACKET_TIMEOUT
          Gap,              \* cycles between two messages of one decoder
          MaxLost,          \* bound of the model: losses told apart
          Padding, None

(* With one decoder the arbiter would see a slot again before it is empty. *)
ASSUME AggregatorAssumption ==
  /\ N \in Nat \ {0, 1}
  /\ {MsgsPerTimeout, PacketTimeout, Gap} \subseteq Nat \ {0}
  /\ MaxLost \in Nat
  /\ Padding \notin Nat /\ None \notin Nat

Decoders == 0..(N - 1)

VARIABLES valid,      \* the slots that are occupied
          clear,      \* the slots being cleared
          dropCount,  \* debug_drop_count
          idx, count, downcount,
          out,        \* output: a decoder, Padding, or None (not valid)
          since,      \* history: [Decoders -> cycles since its last message]
          owed,       \* history: decoders whose message was taken, not output
          wait,       \* history: [Decoders -> cycles its message has waited]
          lost        \* history: messages lost

aggVars == <<valid, clear, dropCount, idx, count, downcount, out, since, owed,
             wait, lost>>

AggTypeOK ==
  /\ valid \subseteq Decoders
  /\ clear \subseteq Decoders
  /\ dropCount \in 0..MaxLost
  /\ idx \in Decoders
  /\ count \in 0..(MsgsPerTimeout - 1)
  /\ downcount \in 0..PacketTimeout
  /\ out \in Decoders \cup {Padding, None}
  /\ since \in [Decoders -> 1..Gap]
  /\ owed \subseteq Decoders
  /\ wait \in [Decoders -> Nat]
  /\ lost \in 0..MaxLost

----------------------------------------------------------------------------

AggInit ==
  /\ valid = {} /\ clear = {}
  /\ dropCount = 0
  /\ idx = 0 /\ count = MsgsPerTimeout - 1 /\ downcount = PacketTimeout
  /\ out = None
  /\ since = [i \in Decoders |-> Gap]
  /\ owed = {} /\ wait = [i \in Decoders |-> 0] /\ lost = 0

(* hold_msg: a slot that is being cleared neither takes a message nor       *)
(* counts one as dropped. The count is a signal: however many slots drop a  *)
(* message in a cycle, it grows by one.                                     *)
Taken(in_valid) == (in_valid \ clear) \ valid
Dropped(in_valid) == (in_valid \ clear) \cap valid

\* Mutant: an occupied slot stays so.
HoldOn(in_valid) == valid \cup Taken(in_valid)

Hold(in_valid) == (valid \ clear) \cup Taken(in_valid)

(* round_robin: the packet timer, then the slot at idx.  (In the code count *)
(* and downcount are variables, so that the slot sees what the timer did.)  *)
TimedOut == downcount = 0

Timer == IF ~TimedOut THEN downcount - 1
         ELSE IF count > 0 THEN 0 ELSE PacketTimeout

NextCount(hit) ==
  IF count > 0 THEN IF hit \/ TimedOut THEN count - 1 ELSE count
  ELSE IF hit \/ TimedOut THEN MsgsPerTimeout - 1 ELSE 0

NextDowncount(hit) ==
  IF hit /\ count = 0 /\ Timer > 0 THEN PacketTimeout ELSE Timer

Output(hit) ==
  IF hit THEN idx ELSE IF TimedOut /\ count > 0 THEN Padding ELSE None

\* Mutant: after a hit the arbiter starts over.
RotateOnMiss(i) == IF i \in valid THEN N - 1 ELSE IF i > 0 THEN i - 1 ELSE N - 1

Rotate(i) == IF i > 0 THEN i - 1 ELSE N - 1

Cap(n, max) == IF n < max THEN n ELSE max

Clock(in_valid) ==
  LET hit == idx \in valid
      missing == in_valid \ Taken(in_valid)
  IN /\ valid' = Hold(in_valid)
     /\ dropCount' = Cap(dropCount + (IF Dropped(in_valid) = {} THEN 0 ELSE 1), MaxLost)
     /\ clear' = IF hit THEN {idx} ELSE {}
     /\ out' = Output(hit)
     /\ count' = NextCount(hit)
     /\ downcount' = NextDowncount(hit)
     /\ idx' = Rotate(idx)
     /\ since' = [i \in Decoders |-> IF i \in in_valid THEN 1 ELSE Cap(since[i] + 1, Gap)]
     /\ owed' = (owed \ (IF hit THEN {idx} ELSE {})) \cup Taken(in_valid)
     /\ wait' = [i \in Decoders |-> IF i \in Taken(in_valid) \/ i \notin owed' THEN 0
                                    ELSE wait[i] + 1]
     /\ lost' = Cap(lost + Cardinality(missing), MaxLost)

(* The asynchronous reset drops what the slots hold. *)
AggReset ==
  /\ valid' = {} /\ clear' = {}
  /\ dropCount' = 0
  /\ idx' = 0 /\ count' = MsgsPerTimeout - 1 /\ downcount' = PacketTimeout
  /\ out' = None
  /\ owed' = {} /\ wait' = [i \in Decoders |-> 0]
  /\ UNCHANGED <<since, lost>>

(* A decoder gives a message no sooner than Gap cycles after its last one.  *)
AggNext ==
  \/ \E in_valid \in SUBSET {i \in Decoders : since[i] = Gap} : Clock(in_valid)
  \/ AggReset

AggSpec == AggInit /\ [][AggNext]_aggVars

----------------------------------------------------------------------------

(* A message taken into a slot is output once: a slot is occupied and not   *)
(* being cleared exactly while its message is owed.                         *)
OutputOnce == owed = valid \ clear

(* The arbiter is fair: a message waits for N cycles at most, whatever the  *)
(* other decoders do.                                                       *)
ServedInOneTurn == \A i \in owed : wait[i] < N

(* message_aggregator.vhd:95-97, "this shouldn't happen in practice": a     *)
(* decoder that gives a message N + 2 cycles after its last one, or later,   *)
(* loses none.                                                              *)
NothingLost == lost = 0
=============================================================================
