----------------------------- MODULE AsyncFifo -----------------------------
(***************************************************************************)
(* hdl/rtl/async_msg_fifo.vhd: the FIFO that takes decoded messages from   *)
(* the clock domain of the decoder to that of the AXI registers.           *)
(*                                                                         *)
(* A step is an edge of the write clock, of the read clock, or of both so  *)
(* close together that a flip-flop that samples the other domain catches   *)
(* its inputs while they change: each bit that changes is then caught      *)
(* before or after.  A vector of bits is the set of the positions that are *)
(* 1.  The two clocks bear no relation to each other.                      *)
(***************************************************************************)
EXTENDS Integers, Sequences, FiniteSets, FiniteSetsExt

CONSTANTS AddrBits,    \* ADDR_BITS
          Data,        \* messages
          MaxPending   \* bound of the model: overflows counted as unreported

ASSUME FifoAssumption == AddrBits \in Nat \ {0} /\ MaxPending \in Nat

DEPTH == 2^AddrBits
PtrBits == AddrBits + 1
Pointers == 0..(2^PtrBits - 1)
Vectors == SUBSET (0..AddrBits)

VARIABLES mem,
          wrPtr, full,              \* wr_ptr_bin, full_i
          rdSync1, rdSync2,         \* rd_ptr_gray_sync1_w, ..2_w
          overflowToggle,           \* overflow_toggle_w
          rdPtr, empty, rdData,     \* rd_ptr_bin, empty_i, rd_data_i
          wrSync1, wrSync2,         \* wr_ptr_gray_sync1_r, ..2_r
          wrBinSync,                \* wr_ptr_bin_sync_r
          togSync1, togSync2, togPrev, overflow,
          queue, delivered,         \* history: see MessageQueue
          read,                     \* history: the last edge was of the read
                                    \* clock alone, or crowded
          crowded,                  \* history: since the reset, two edges of the
                                    \* write clock had none such between them
          pending                   \* history: overflows not yet reported,
                                    \* unless crowded

writeSide == <<mem, wrPtr, full, rdSync1, rdSync2, overflowToggle>>
readSide == <<rdPtr, empty, rdData, wrSync1, wrSync2, wrBinSync, togSync1,
              togSync2, togPrev, overflow>>
history == <<queue, delivered, read, crowded, pending>>
vars == <<writeSide, readSide, history>>

TypeOK ==
  /\ mem \in [0..(DEPTH - 1) -> Data]
  /\ {wrPtr, rdPtr, wrBinSync} \subseteq Pointers
  /\ {rdSync1, rdSync2, wrSync1, wrSync2} \subseteq Vectors
  /\ {full, empty, overflowToggle, togSync1, togSync2, togPrev, overflow}
       \subseteq BOOLEAN
  /\ rdData \in Data
  /\ queue \in Seq(Data) /\ Len(queue) <= DEPTH
  /\ delivered \in Data
  /\ {read, crowded} \subseteq BOOLEAN
  /\ pending \in 0..MaxPending

----------------------------------------------------------------------------

Bit(n, i) == (n \div 2^i) % 2
Bits(n) == {i \in 0..AddrBits : Bit(n, i) = 1}

\* Mutant: the pointers cross in binary.
bin_to_binary == [n \in Pointers |-> Bits(n)]

bin_to_gray == [n \in Pointers |-> {i \in 0..AddrBits : Bit(n, i) # Bit(n, i + 1)}]

\* Mutant: the pointer is taken as if it were binary.
no_gray_to_bin == [g \in Vectors |-> CHOOSE n \in Pointers : Bits(n) = g]

(* A bit of the result is the exclusive or of the bits of g from there up. *)
gray_to_bin ==
  [g \in Vectors |->
     LET ones == {i \in 0..AddrBits : Cardinality({j \in g : j >= i}) % 2 = 1}
     IN CHOOSE n \in Pointers : Bits(n) = ones]

Xor(v, w) == (v \ w) \cup (w \ v)

(* What a flip-flop may catch of an input that goes from v to w *)
Caught(v, w) == {(v \cap w) \cup s : s \in SUBSET Xor(v, w)}

Up(n) == (n + 1) % 2^PtrBits
Addr(n) == n % DEPTH

Init ==
  /\ mem \in [0..(DEPTH - 1) -> Data]
  /\ wrPtr = 0 /\ full = FALSE
  /\ rdSync1 = {} /\ rdSync2 = {}
  /\ overflowToggle = FALSE
  /\ rdPtr = 0 /\ empty = TRUE
  /\ rdData \in Data
  /\ wrSync1 = {} /\ wrSync2 = {} /\ wrBinSync = 0
  /\ togSync1 = FALSE /\ togSync2 = FALSE /\ togPrev = FALSE /\ overflow = FALSE
  /\ queue = <<>> /\ delivered \in Data
  /\ read = TRUE /\ crowded = FALSE /\ pending = 0

(* Where the pointers go at an edge *)
WrNext(wr_en) == IF wr_en /\ ~full THEN Up(wrPtr) ELSE wrPtr
RdNext(rd_en) == IF rd_en /\ ~empty THEN Up(rdPtr) ELSE rdPtr

(* The next pointer but one would be DEPTH ahead of the read pointer, as    *)
(* the write side knows it: in Gray code the top two bits differ.           *)
AlmostFull(ptr) == Xor(bin_to_gray[Up(ptr)], rdSync2) = {AddrBits, AddrBits - 1}

\* Mutant: an overflow raises a level.
OverflowLevel(lost) == lost \/ overflowToggle

(* An overflow toggles the signal that crosses to the read side. *)
OverflowSignal(lost) == IF lost THEN ~overflowToggle ELSE overflowToggle

(* An edge of the write clock; rdGray is what it catches of rd_ptr_gray. *)
WriteEdge(wr_en, d, rdGray) ==
  /\ mem' = IF wr_en /\ ~full THEN [mem EXCEPT ![Addr(wrPtr)] = d] ELSE mem
  /\ wrPtr' = WrNext(wr_en)
  /\ overflowToggle' = OverflowSignal(wr_en /\ full)
  /\ full' = AlmostFull(WrNext(wr_en))
  /\ rdSync1' = rdGray
  /\ rdSync2' = rdSync1

NoWord(ptr) == wrSync2 = bin_to_gray[ptr]

(* An edge of the read clock; wrGray and toggle are what it catches, words  *)
(* what the memory may give for the word it reads.                          *)
ReadEdge(rd_en, wrGray, toggle, words) ==
  /\ rdPtr' = RdNext(rd_en)
  /\ empty' = NoWord(RdNext(rd_en))
  /\ IF NoWord(RdNext(rd_en)) THEN rdData' = rdData ELSE rdData' \in words
  /\ wrSync1' = wrGray
  /\ wrSync2' = wrSync1
  /\ wrBinSync' = gray_to_bin[wrSync2]
  /\ togSync1' = toggle
  /\ togSync2' = togSync1
  /\ overflow' = (togSync2 # togPrev)
  /\ togPrev' = togSync2

(* What the edges mean to the users of the FIFO *)
Record(wr, wr_en, d, rd, rd_en) ==
  LET took == IF wr /\ wr_en /\ ~full THEN <<d>> ELSE <<>>
      gave == rd /\ rd_en /\ ~empty
      left == IF gave THEN Tail(queue) ELSE queue
      lost == IF wr /\ wr_en /\ full THEN 1 ELSE 0
      told == IF rd /\ togSync2 # togPrev /\ pending > 0 THEN 1 ELSE 0
  IN /\ queue' = left \o took
     /\ delivered' = IF gave THEN rdData ELSE delivered
     /\ crowded' = (crowded \/ (wr /\ ~read))
     /\ read' = (crowded' \/ ~wr)
     /\ pending' = IF crowded' THEN 0 ELSE Min({MaxPending, pending + lost - told})

Word(rd_en) == mem[Addr(RdNext(rd_en))]

Write(wr_en, d) ==
  /\ WriteEdge(wr_en, d, bin_to_gray[rdPtr])
  /\ Record(TRUE, wr_en, d, FALSE, FALSE)
  /\ UNCHANGED readSide

Read(rd_en) ==
  /\ ReadEdge(rd_en, bin_to_gray[wrPtr], overflowToggle, {Word(rd_en)})
  /\ Record(FALSE, FALSE, rdData, TRUE, rd_en)
  /\ UNCHANGED writeSide

(* Both at once: a word that is read while it is written may be anything.   *)
Both(wr_en, d, rd_en) ==
  /\ \E g \in Caught(bin_to_gray[rdPtr], bin_to_gray[RdNext(rd_en)]) :
       WriteEdge(wr_en, d, g)
  /\ \E g \in Caught(bin_to_gray[wrPtr], bin_to_gray[WrNext(wr_en)]),
        toggle \in {overflowToggle, overflowToggle'} :
       ReadEdge(rd_en, g, toggle,
                IF wr_en /\ ~full /\ Addr(wrPtr) = Addr(RdNext(rd_en))
                THEN Data ELSE {Word(rd_en)})
  /\ Record(TRUE, wr_en, d, TRUE, rd_en)

(* combined_reset, asynchronous: everything but the memory.                 *)
Reset ==
  /\ wrPtr' = 0 /\ full' = FALSE
  /\ rdSync1' = {} /\ rdSync2' = {}
  /\ overflowToggle' = FALSE
  /\ rdPtr' = 0 /\ empty' = TRUE
  /\ rdData' \in Data                   \* all zeros, whatever message that is
  /\ wrSync1' = {} /\ wrSync2' = {} /\ wrBinSync' = 0
  /\ togSync1' = FALSE /\ togSync2' = FALSE /\ togPrev' = FALSE /\ overflow' = FALSE
  /\ queue' = <<>>
  /\ read' = TRUE /\ crowded' = FALSE /\ pending' = 0
  /\ UNCHANGED <<mem, delivered>>

Next ==
  \/ \E wr_en \in BOOLEAN, d \in Data : Write(wr_en, d)
  \/ \E rd_en \in BOOLEAN : Read(rd_en)
  \/ \E wr_en, rd_en \in BOOLEAN, d \in Data : Both(wr_en, d, rd_en)
  \/ Reset

Spec == Init /\ [][Next]_vars

----------------------------------------------------------------------------

(* Order and content survive the crossing, over any number of wraps of the  *)
(* pointers: the FIFO implements MessageQueue.                              *)
Queue == INSTANCE MessageQueue WITH Depth <- DEPTH
ImplementsQueue == Queue!Spec

(* The fill count of STATUS (wr_ptr_bin_sync_r - rd_ptr_bin) is late but    *)
(* never wraps: it is at most what is in the FIFO.                          *)
Count == (wrBinSync - rdPtr) % 2^PtrBits
CountIsConservative == Count <= Len(queue)

(* docs/wiki/07-From-FPGA-to-Network.md:35: every overflow reaches the read *)
(* side, "so Linux can detect lost messages": the toggle that carries it    *)
(* does not fall back unseen, as long as the read clock is the faster one.  *)
AllSeen == overflowToggle = togSync1 /\ togSync1 = togSync2 /\ togSync2 = togPrev

OverflowsReported == AllSeen /\ ~crowded => pending = 0
=============================================================================
