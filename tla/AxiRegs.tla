------------------------------ MODULE AxiRegs ------------------------------
(***************************************************************************)
(* hdl/rtl/axi_regs.vhd, clock by clock, under the accesses that           *)
(* ps/internal/regs/regs.go makes for the goroutines of the feeder and for *)
(* tools like regdump, all of which share the registers without a lock.    *)
(*                                                                         *)
(* A step is an edge of S_AXI_ACLK or something a core of the PS does.     *)
(* The interconnect has one read and one write on the bus at a time, and a *)
(* user one access: the registers are mapped as device memory.  MSG_DATA   *)
(* is the four words of a message and TOA its two; CONFIG is in            *)
(* StatsConsole.  The message FIFO is what AsyncFifo promises its read     *)
(* side, with the messages numbered from 1 in the order in which it takes  *)
(* them; the latched counter of a PPS edge is the number of the edge.      *)
(***************************************************************************)
EXTENDS Integers, Sequences

CONSTANTS Users,       \* goroutines and tools
          Indices,     \* debug counters
          CountWrap,   \* values of PPS_COUNT: 2^32
          MaxMessages, \* bound of the model: messages received
          MaxEdges,    \* bound of the model: PPS edges after a reset
          None

ASSUME AxiAssumption ==
  /\ CountWrap \in Nat \ {0, 1}
  /\ {MaxMessages, MaxEdges} \subseteq Nat
  /\ None \notin Users \cup Indices

Get(r) == [reg |-> r, write |-> FALSE]
Put(r) == [reg |-> r, write |-> TRUE]

\* Mutant: RPL is not read last.
ReadMessageRplEarly == <<Get("STATUS"), Get("MSG_DATA"), Get("RPL"), Get("TOA")>>

(* ReadMessage, after the look at STATUS that it requires *)
ReadMessage == <<Get("STATUS"), Get("MSG_DATA"), Get("TOA"), Get("RPL")>>

(* The accesses of each call: ReadMessage, ReadPpsStable, ReadDbg, and      *)
(* pulseControl of regdump with the soft-reset bit                          *)
Program ==
  [message |-> ReadMessage,
   pps     |-> <<Get("PPS_COUNT"), Get("PPS_CTR_LO"), Get("PPS_CTR_HI"), Get("PPS_COUNT")>>,
   debug   |-> <<Put("DBG_INDEX"), Get("DBG_DATA")>>,
   reset   |-> <<Get("CONTROL"), Put("CONTROL")>>]

RegisterNames == {"STATUS", "MSG_DATA", "TOA", "RPL", "PPS_COUNT", "PPS_CTR_LO",
                  "PPS_CTR_HI", "CONTROL", "DBG_INDEX", "DBG_DATA"}

(* What the bus carries: whose access it is, of which register, and whether *)
(* the address is still to be accepted                                      *)
Accesses == [by : Users, reg : RegisterNames, addr : BOOLEAN]

ASSUME NoneAssumption == None \notin Accesses

NoCall == [op |-> "none", index |-> None]
Calls == [op : {"message", "pps", "reset"}, index : {None}]
           \cup [op : {"debug"}, index : Indices]

VARIABLES arready, araddr,            \* axi_arready, ar_addr_latched
          pending, rvalid, rdata,     \* read_pending, axi_rvalid, and
                                      \* axi_rdata_stage or, when it is valid,
                                      \* axi_rdata, which is a copy of it
          pop,                        \* fifo_pop
          awready, awaddr, bvalid,    \* axi_awready and axi_wready, which are
                                      \* equal, aw_addr_latched, axi_bvalid
          control, dbgIndex, dbgData, \* control_reg(0), dbg_index_reg, dbg_data_reg
          resetDue,                   \* soft_reset_toggle has yet to cross
          arrived, popped, shown,     \* messages the read side of the FIFO has
                                      \* seen arrive, popped, and what
                                      \* fifo_rd_data shows: 0 is all zeros
          edges,                      \* pps_count and counter_at_pps
          rd, wr,                     \* the read and the write on the bus
          call, got,                  \* each user's call and what it has read
          base,                       \* history: popped, or edges, when the
                                      \* call's first read was answered
          clean                       \* history: no other user took a message or
                                      \* selected a counter, and no reset came,
                                      \* since then or since its own selection

readSide == <<arready, araddr, pending, rvalid, rdata, pop>>
writeSide == <<awready, awaddr, bvalid, control, dbgIndex, dbgData>>
device == <<arrived, popped, shown, edges>>
vars == <<readSide, writeSide, resetDue, device, rd, wr, call, got, base, clean>>

Init ==
  /\ arready = FALSE /\ araddr = "MSG_DATA"
  /\ pending = FALSE /\ rvalid = FALSE /\ rdata = 0 /\ pop = FALSE
  /\ awready = FALSE /\ awaddr = "MSG_DATA" /\ bvalid = FALSE
  /\ control = FALSE /\ dbgIndex \in Indices /\ dbgData \in Indices
  /\ resetDue = FALSE
  /\ arrived = 0 /\ popped = 0 /\ shown = 0
  /\ edges = 0
  /\ rd = None /\ wr = None
  /\ call = [u \in Users |-> NoCall]
  /\ got = [u \in Users |-> <<>>]
  /\ base = [u \in Users |-> 0]
  /\ clean = [u \in Users |-> FALSE]

----------------------------------------------------------------------------
(* What the users do *)

Begin(u, c) ==
  /\ call[u] = NoCall
  /\ call' = [call EXCEPT ![u] = c]
  /\ UNCHANGED <<readSide, writeSide, resetDue, device, rd, wr, got, base, clean>>

(* An access of u is on the bus. *)
Waits(u) == \E bus \in {rd, wr} : bus # None /\ bus.by = u

(* All is read, or STATUS says that the FIFO is empty. *)
Finished(u) ==
  \/ Len(got[u]) = Len(Program[call[u].op])
  \/ call[u].op = "message" /\ got[u] = <<0>>

(* The next access goes on the bus; pulseControl writes back the bit it     *)
(* read, with the one it sets.                                              *)
Issue(u) ==
  /\ call[u] # NoCall /\ ~Waits(u) /\ ~Finished(u)
  /\ LET a == Program[call[u].op][Len(got[u]) + 1]
     IN \/ /\ ~a.write /\ rd = None
           /\ rd' = [by |-> u, reg |-> a.reg, addr |-> TRUE]
           /\ UNCHANGED wr
        \/ /\ a.write /\ wr = None
           /\ wr' = [by |-> u, reg |-> a.reg, addr |-> TRUE]
           /\ UNCHANGED rd
  /\ UNCHANGED <<readSide, writeSide, resetDue, device, call, got, base, clean>>

\* Mutant: the second look at the count is not compared.
NeverTorn(u) == FALSE

(* ReadPpsStable starts over when the count has changed. *)
Torn(u) == call[u].op = "pps" /\ got[u][1] # got[u][4]

Return(u) ==
  /\ call[u] # NoCall /\ Finished(u)
  /\ call' = [call EXCEPT ![u] = IF Torn(u) THEN @ ELSE NoCall]
  /\ got' = [got EXCEPT ![u] = <<>>]
  /\ base' = [base EXCEPT ![u] = 0]
  /\ clean' = [clean EXCEPT ![u] = FALSE]
  /\ UNCHANGED <<readSide, writeSide, resetDue, device, rd, wr>>

----------------------------------------------------------------------------
(* An edge of the clock *)

ArValid == rd # None /\ rd.addr
AwValid == wr # None /\ wr.addr       \* and S_AXI_WVALID

(* ar_handshake *)
ArHandshake ==
  /\ arready' = (~arready /\ ArValid)
  /\ araddr' = IF ~arready /\ ArValid THEN rd.reg ELSE araddr

Mixed == -1

(* What a read may give.  PPS_COUNT and PPS_CTR come from another clock     *)
(* with no synchroniser: at an edge their bits are caught old or new, which *)
(* may make any count and no latched value at all.                          *)
Registers ==
  LET still == edges' = edges
      latch == IF still THEN {edges} ELSE {edges, edges', Mixed}
      Bit(b) == IF b THEN 1 ELSE 0
  IN [STATUS |-> {Bit(arrived # popped)},
      MSG_DATA |-> {shown}, TOA |-> {shown}, RPL |-> {shown},
      PPS_COUNT |-> IF still THEN {edges % CountWrap} ELSE 0..(CountWrap - 1),
      PPS_CTR_LO |-> latch, PPS_CTR_HI |-> latch,
      CONTROL |-> {Bit(control)},
      DBG_DATA |-> {dbgData}]

(* An address is accepted: its register is staged. *)
Accepts == arready /\ ArValid /\ ~rvalid /\ ~pending

(* r_handshake.  A read of RPL pops the FIFO. *)
RHandshake(rready) ==
  \/ /\ Accepts
     /\ rdata' \in Registers[araddr]
     /\ pop' = (araddr = "RPL" /\ arrived # popped)
     /\ pending' = TRUE
     /\ UNCHANGED rvalid
  \/ /\ ~Accepts /\ pending /\ ~rvalid
     /\ rvalid' = TRUE
     /\ pending' = FALSE
     /\ pop' = FALSE
     /\ UNCHANGED rdata
  \/ /\ ~Accepts /\ ~(pending /\ ~rvalid)
     /\ rvalid' = (rvalid /\ ~rready)
     /\ pop' = FALSE
     /\ UNCHANGED <<pending, rdata>>

(* aw_handshake, w_handshake *)
AwHandshake ==
  /\ awready' = (~awready /\ AwValid)
  /\ awaddr' = IF ~awready /\ AwValid THEN wr.reg ELSE awaddr

Writes == awready /\ AwValid

(* b_handshake *)
BHandshake(bready) ==
  bvalid' = IF Writes /\ ~bvalid THEN TRUE ELSE bvalid /\ ~bready

(* write_regs; every write of CONTROL in Program has the soft-reset bit.    *)
WriteRegs ==
  /\ control' = (Writes /\ awaddr = "CONTROL")
  /\ resetDue' = IF Writes /\ awaddr = "CONTROL" THEN ~resetDue ELSE resetDue
  /\ dbgIndex' = IF Writes /\ awaddr = "DBG_INDEX" THEN call[wr.by].index ELSE dbgIndex

(* dbg_preselect *)
DbgPreselect == dbgData' = dbgIndex

(* The read side of the FIFO: new messages come into its sight. *)
Fifo ==
  /\ popped' = IF pop /\ arrived # popped THEN popped + 1 ELSE popped
  /\ arrived' \in arrived..MaxMessages
  /\ shown' = IF arrived' # popped' THEN popped' + 1 ELSE shown

(* The bus, and what becomes of the users' accesses *)
Bus(rready, bready) ==
  LET answers == rvalid /\ rready
      acknowledges == bvalid /\ bready
  IN /\ rd' = IF ArValid /\ arready THEN [rd EXCEPT !.addr = FALSE]
              ELSE IF answers THEN None ELSE rd
     /\ wr' = IF Writes THEN [wr EXCEPT !.addr = FALSE]
              ELSE IF acknowledges THEN None ELSE wr
     /\ got' = [u \in Users |->
                  IF answers /\ rd.by = u THEN Append(got[u], rdata)
                  ELSE IF acknowledges /\ wr.by = u THEN Append(got[u], None)
                  ELSE got[u]]

(* What the edge means to the calls in progress *)
Record ==
  LET first(u) == Accepts /\ rd.by = u /\ got[u] = <<>>
      selects == Writes /\ awaddr = "DBG_INDEX"
  IN /\ base' = [u \in Users |->
                   IF ~first(u) THEN base[u]
                   ELSE IF call[u].op = "pps" THEN edges ELSE popped]
     /\ clean' = [u \in Users |->
                    \/ first(u)
                    \/ selects /\ wr.by = u
                    \/ /\ clean[u]
                       /\ ~(selects /\ call[u].op = "debug")
                       /\ ~(pop /\ rd.by # u /\ call[u].op = "message")]

Tick ==
  /\ edges' \in {edges, edges + 1} /\ edges' <= MaxEdges
  /\ \E rready, bready \in BOOLEAN :
       RHandshake(rready) /\ BHandshake(bready) /\ Bus(rready, bready)
  /\ ArHandshake /\ AwHandshake /\ WriteRegs /\ DbgPreselect /\ Fifo /\ Record
  /\ UNCHANGED call

(* combined_reset: the FIFO is empty and shows zeros, and the count of the  *)
(* PPS edges starts over.                                                   *)
Reset ==
  /\ resetDue
  /\ resetDue' = FALSE
  /\ popped' = arrived
  /\ shown' = 0
  /\ edges' = 0
  /\ clean' = [u \in Users |-> FALSE]
  /\ UNCHANGED <<readSide, writeSide, arrived, rd, wr, call, got, base>>

Next ==
  \/ \E u \in Users : (\E c \in Calls : Begin(u, c)) \/ Issue(u) \/ Return(u)
  \/ Tick
  \/ Reset

Spec == Init /\ [][Next]_vars

----------------------------------------------------------------------------

(* regs.go:288-301, axi_regs.vhd:83-86: a message that STATUS announced is  *)
(* read whole, and taken from the FIFO by that very read, once, unless      *)
(* another user took one or a soft reset came in the course of the call.    *)
MessagesWhole ==
  \A u \in Users :
    call[u].op = "message" /\ Len(got[u]) = 4 /\ clean[u] =>
      /\ popped = base[u] + 1
      /\ \A i \in 2..4 : got[u][i] = popped

(* regs.go:133, 312-316: ReadDbg gives the counter it asks for unless       *)
(* another user selects one meanwhile, and ReadPpsStable the count and the  *)
(* latched counter of one edge, as long as a call is not so slow that it    *)
(* spans two.                                                               *)
CompoundReadsAtomic ==
  \A u \in Users : clean[u] =>
    /\ call[u].op = "debug" /\ Len(got[u]) = 2 => got[u][2] = call[u].index
    /\ call[u].op = "pps" /\ Finished(u) /\ ~Torn(u) /\ edges <= base[u] + 1 =>
         \E e \in {base[u], base[u] + 1} :
           got[u][1] = e % CountWrap /\ got[u][2] = e /\ got[u][3] = e
=============================================================================
