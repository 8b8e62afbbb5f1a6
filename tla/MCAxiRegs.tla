----------------------------- MODULE MCAxiRegs -----------------------------
EXTENDS AxiRegs, TLC

CONSTANTS u1, u2, i1, i2

UsersDef == {u1, u2}
IndicesDef == {i1, i2}
(* What no step reads before it writes it is left out: the latched address  *)
(* and the data of a read or write that is over.                            *)
View ==
  <<IF arready THEN araddr ELSE None, IF pending \/ rvalid THEN rdata ELSE None,
    IF awready THEN awaddr ELSE None, arready, pending, rvalid, pop, awready,
    bvalid, control, dbgIndex, dbgData, resetDue, device, rd, wr, call, got,
    base, clean>>
Symmetric == Permutations(UsersDef) \cup Permutations(IndicesDef)
=============================================================================
