--------------------------- MODULE AxiRegs_proofs ---------------------------
(***************************************************************************)
(* For any number of users, messages, edges and debug counters, in any     *)
(* order of their accesses: a message is read whole and taken once, and    *)
(* the reads that are made of several accesses are as good as one.         *)
(***************************************************************************)
EXTENDS AxiRegs, TLAPS

(* The accesses of each call, one by one.                                  *)
LEMMA Programs ==
  /\ Len(Program["message"]) = 4 /\ Len(Program["pps"]) = 4
  /\ Len(Program["debug"]) = 2 /\ Len(Program["reset"]) = 2
  /\ Program["message"][1] = Get("STATUS") /\ Program["message"][2] = Get("MSG_DATA")
  /\ Program["message"][3] = Get("TOA") /\ Program["message"][4] = Get("RPL")
  /\ Program["pps"][1] = Get("PPS_COUNT") /\ Program["pps"][2] = Get("PPS_CTR_LO")
  /\ Program["pps"][3] = Get("PPS_CTR_HI") /\ Program["pps"][4] = Get("PPS_COUNT")
  /\ Program["debug"][1] = Put("DBG_INDEX") /\ Program["debug"][2] = Get("DBG_DATA")
  /\ Program["reset"][1] = Get("CONTROL") /\ Program["reset"][2] = Put("CONTROL")
BY DEF Program, ReadMessage

LEMMA GetsAndPuts ==
  /\ \A r, s : Get(r) # Put(s)
  /\ \A r, s : Get(r) = Get(s) => r = s
  /\ \A r, s : Put(r) = Put(s) => r = s
  /\ \A r : Get(r).reg = r /\ ~Get(r).write /\ Put(r).reg = r /\ Put(r).write
BY DEF Get, Put

LEMMA Below ==
  ASSUME NEW n \in Nat, NEW l \in {2, 4}, n < l
  PROVE  n \in 0..3 /\ (l = 2 => n \in 0..1)
OBVIOUS

(* An edge changes the count.                                              *)
LEMMA NoUnitMultiple ==
  ASSUME NEW w \in Nat \ {0, 1}, NEW d \in Int
  PROVE  w * d # 1
<1>1. CASE d <= 0
  <2>1. w * d <= 0
    BY <1>1, SMT
  <2> QED
    BY <2>1
<1>2. CASE d >= 1
  <2>1. w * d >= w
    BY <1>2, SMT
  <2> QED
    BY <2>1
<1> QED
  BY <1>1, <1>2

LEMMA Division ==
  ASSUME NEW w \in Nat \ {0, 1}, NEW e \in Nat
  PROVE  /\ e \div w \in Int /\ e % w \in 0..(w - 1)
         /\ e = w * (e \div w) + (e % w)
BY SMT

LEMMA CountsDiffer ==
  ASSUME NEW e \in Nat
  PROVE  e % CountWrap # (e + 1) % CountWrap
<1> SUFFICES ASSUME e % CountWrap = (e + 1) % CountWrap PROVE FALSE
  OBVIOUS
<1> DEFINE w == CountWrap
           p == e \div w
           q == (e + 1) \div w
<1>1. w \in Nat \ {0, 1} /\ e + 1 \in Nat
  BY AxiAssumption
<1>2. /\ p \in Int /\ e % w \in 0..(w - 1)
      /\ e = w * p + (e % w)
  BY <1>1, Division
<1>3. /\ q \in Int
      /\ e + 1 = w * q + ((e + 1) % w)
  BY <1>1, Division
<1> HIDE DEF w, p, q
<1>4. w * q - w * p = 1
  BY <1>1, <1>2, <1>3 DEF w
<1>5. w * (q - p) = w * q - w * p
  BY <1>1, <1>2, <1>3, SMT
<1>6. q - p \in Int
  BY <1>2, <1>3
<1>7. w * (q - p) # 1
  BY <1>1, <1>6, NoUnitMultiple
<1> QED
  BY <1>4, <1>5, <1>7

----------------------------------------------------------------------------

(* Everything that a register may give, and what a write leaves behind.    *)
Values == Int \cup Indices \cup {None}

Types ==
  /\ dbgIndex \in Indices /\ dbgData \in Indices
  /\ {arrived, popped, edges} \subseteq Nat /\ popped <= arrived
  /\ shown \in Nat /\ rdata \in Values
  /\ rd \in Accesses \cup {None} /\ wr \in Accesses \cup {None}
  /\ call \in [Users -> Calls \cup {NoCall}]
  /\ got \in [Users -> Seq(Values)]
  /\ base \in [Users -> Nat] /\ clean \in [Users -> BOOLEAN]

(* Where the two sides of the bus are in their one access.                 *)
ReadBus ==
  /\ rd = None => ~arready /\ ~pending /\ ~rvalid
  /\ ArValid => ~pending /\ ~rvalid /\ (arready => araddr = rd.reg)
  /\ rd # None /\ ~rd.addr => ~arready /\ (pending <=> ~rvalid)
  /\ pop => rd # None /\ ~rd.addr /\ pending /\ rd.reg = "RPL"

WriteBus ==
  /\ wr = None => ~awready /\ ~bvalid
  /\ AwValid => ~bvalid /\ (awready => awaddr = wr.reg)
  /\ wr # None /\ ~wr.addr => ~awready /\ bvalid

(* An access on the bus is the next one of its user's call.                *)
IsNext(u, a) ==
  /\ call[u] # NoCall /\ ~Finished(u)
  /\ Len(got[u]) < Len(Program[call[u].op])
  /\ Program[call[u].op][Len(got[u]) + 1] = a

Own ==
  /\ rd # None => IsNext(rd.by, Get(rd.reg))
  /\ wr # None => IsNext(wr.by, Put(wr.reg))
  /\ \A u \in Users :
       IF call[u] = NoCall THEN got[u] = <<>>
       ELSE Len(got[u]) <= Len(Program[call[u].op])

FifoShows == arrived # popped => shown = popped + 1

(* A read whose address was accepted has its answer in the slave.          *)
Staged(u) == rd # None /\ rd.by = u /\ ~rd.addr
Answered(u) == IF Staged(u) THEN Len(got[u]) + 1 ELSE Len(got[u])
Answer(u, i) == IF i <= Len(got[u]) THEN got[u][i] ELSE rdata

StatusInv(u) ==
  call[u].op = "message" /\ Answered(u) >= 1 =>
    /\ Answer(u, 1) \in {0, 1}
    /\ Answered(u) >= 2 => Answer(u, 1) = 1
    /\ Answer(u, 1) = 1 /\ clean[u] /\ Answered(u) < 4 => arrived # popped

(* The message that a call reads is the first of the FIFO until the call    *)
(* pops it, a cycle after its read of RPL is staged.                        *)
MessageInv(u) ==
  call[u].op = "message" /\ Answered(u) >= 1 /\ clean[u] =>
    /\ \A i \in 2..Answered(u) : Answer(u, i) = base[u] + 1
    /\ Answered(u) < 4 => popped = base[u]
    /\ Answered(u) = 4 =>
         \/ pop /\ Staged(u) /\ popped = base[u] /\ arrived # popped
         \/ ~(pop /\ Staged(u)) /\ popped = base[u] + 1

(* The selection of a counter reaches its value before the call goes on.    *)
DebugInv(u) ==
  call[u].op = "debug" /\ clean[u] =>
    /\ wr # None /\ wr.by = u /\ ~wr.addr => dbgIndex = call[u].index
    /\ Len(got[u]) = 1 => /\ dbgIndex = call[u].index /\ dbgData = call[u].index
                          /\ Staged(u) => rdata = call[u].index
    /\ Len(got[u]) = 2 => got[u][2] = call[u].index

(* With no edge since the first look at the count, all that was read is of  *)
(* the edge before; with one, a call that saw the old count first and last  *)
(* read the old counter between, and a call that did not see it first read  *)
(* everything after the edge.                                               *)
PpsInv(u) ==
  LET n == Answered(u)
      b == base[u]
  IN call[u].op = "pps" /\ n >= 1 /\ clean[u] =>
       /\ b <= edges
       /\ edges = b =>
            /\ Answer(u, 1) = b % CountWrap
            /\ \A i \in 2..3 : i <= n => Answer(u, i) = b
            /\ n = 4 => Answer(u, 4) = b % CountWrap
       /\ edges = b + 1 =>
            /\ \/ Answer(u, 1) = b % CountWrap
               \/ /\ \A i \in 2..3 : i <= n => Answer(u, i) = b + 1
                  /\ n = 4 => Answer(u, 4) = (b + 1) % CountWrap
            /\ n = 4 /\ Answer(u, 1) = b % CountWrap /\ Answer(u, 4) = b % CountWrap =>
                 \A i \in 2..3 : Answer(u, i) = b

UserInv(u) == StatusInv(u) /\ MessageInv(u) /\ DebugInv(u) /\ PpsInv(u)

IInv ==
  /\ Types /\ ReadBus /\ WriteBus /\ Own /\ FifoShows
  /\ \A u \in Users : UserInv(u)

----------------------------------------------------------------------------

(* What an access on the bus may be.                                       *)
LEMMA ReadCases ==
  ASSUME Types, Own, rd # None
  PROVE  LET u == rd.by
             n == Len(got[u])
         IN /\ u \in Users /\ rd.addr \in BOOLEAN
            /\ \/ /\ call[u].op = "message"
                  /\ \/ n = 0 /\ rd.reg = "STATUS"
                     \/ n = 1 /\ rd.reg = "MSG_DATA"
                     \/ n = 2 /\ rd.reg = "TOA"
                     \/ n = 3 /\ rd.reg = "RPL"
               \/ /\ call[u].op = "pps"
                  /\ \/ n = 0 /\ rd.reg = "PPS_COUNT"
                     \/ n = 1 /\ rd.reg = "PPS_CTR_LO"
                     \/ n = 2 /\ rd.reg = "PPS_CTR_HI"
                     \/ n = 3 /\ rd.reg = "PPS_COUNT"
               \/ call[u].op = "debug" /\ n = 1 /\ rd.reg = "DBG_DATA"
               \/ call[u].op = "reset" /\ n = 0 /\ rd.reg = "CONTROL"
<1> DEFINE u == rd.by
           n == Len(got[u])
           op == call[u].op
<1>1. u \in Users /\ rd.addr \in BOOLEAN
  BY DEF Types, Accesses
<1>2. call[u] # NoCall /\ n < Len(Program[op]) /\ Program[op][n + 1] = Get(rd.reg)
  BY DEF Own, IsNext
<1>3. n \in Nat /\ op \in {"message", "pps", "debug", "reset"}
  BY <1>1, <1>2 DEF Types, Calls
<1> HIDE DEF u, n, op
<1>4. CASE op = "message"
  <2>1. n \in 0..3
    BY <1>2, <1>3, <1>4, Programs
  <2>2. n = 0 => rd.reg = "STATUS"
    BY <1>2, <1>4, Programs, GetsAndPuts
  <2>3. n = 1 => rd.reg = "MSG_DATA"
    BY <1>2, <1>4, Programs, GetsAndPuts
  <2>4. n = 2 => rd.reg = "TOA"
    BY <1>2, <1>4, Programs, GetsAndPuts
  <2>5. n = 3 => rd.reg = "RPL"
    BY <1>2, <1>4, Programs, GetsAndPuts
  <2> QED
    BY <1>1, <1>4, <2>1, <2>2, <2>3, <2>4, <2>5 DEF u, n, op
<1>5. CASE op = "pps"
  <2>1. n \in 0..3
    BY <1>2, <1>3, <1>5, Programs
  <2>2. n = 0 => rd.reg = "PPS_COUNT"
    BY <1>2, <1>5, Programs, GetsAndPuts
  <2>3. n = 1 => rd.reg = "PPS_CTR_LO"
    BY <1>2, <1>5, Programs, GetsAndPuts
  <2>4. n = 2 => rd.reg = "PPS_CTR_HI"
    BY <1>2, <1>5, Programs, GetsAndPuts
  <2>5. n = 3 => rd.reg = "PPS_COUNT"
    BY <1>2, <1>5, Programs, GetsAndPuts
  <2> QED
    BY <1>1, <1>5, <2>1, <2>2, <2>3, <2>4, <2>5 DEF u, n, op
<1>6. CASE op = "debug"
  <2>1. n \in 0..1
    BY <1>2, <1>3, <1>6, Programs
  <2> QED
    BY <1>1, <1>2, <1>6, <2>1, Programs, GetsAndPuts DEF u, n, op
<1>7. CASE op = "reset"
  <2>1. n \in 0..1
    BY <1>2, <1>3, <1>7, Programs
  <2> QED
    BY <1>1, <1>2, <1>7, <2>1, Programs, GetsAndPuts DEF u, n, op
<1> QED
  BY <1>3, <1>4, <1>5, <1>6, <1>7

LEMMA WriteCases ==
  ASSUME Types, Own, wr # None
  PROVE  LET u == wr.by
         IN /\ u \in Users /\ wr.addr \in BOOLEAN
            /\ \/ call[u].op = "debug" /\ Len(got[u]) = 0 /\ wr.reg = "DBG_INDEX"
               \/ call[u].op = "reset" /\ Len(got[u]) = 1 /\ wr.reg = "CONTROL"
<1> DEFINE u == wr.by
           n == Len(got[u])
           op == call[u].op
<1>1. u \in Users /\ wr.addr \in BOOLEAN
  BY DEF Types, Accesses
<1>2. call[u] # NoCall /\ n < Len(Program[op]) /\ Program[op][n + 1] = Put(wr.reg)
  BY DEF Own, IsNext
<1>3. n \in Nat /\ op \in {"message", "pps", "debug", "reset"}
  BY <1>1, <1>2 DEF Types, Calls
<1> HIDE DEF u, n, op
<1>4. n \in 0..3
  BY <1>2, <1>3, Programs
<1>5. op \notin {"message", "pps"}
  <2>1. \A r \in {"message", "pps"} : \A i \in 1..4 : ~Program[r][i].write
    BY Programs, GetsAndPuts
  <2> QED
    BY <1>2, <1>4, <2>1, GetsAndPuts
<1>6. op = "debug" => n = 0 /\ wr.reg = "DBG_INDEX"
  BY <1>2, <1>4, Programs, GetsAndPuts
<1>7. op = "reset" => n = 1 /\ wr.reg = "CONTROL"
  BY <1>2, <1>4, Programs, GetsAndPuts
<1> QED
  BY <1>1, <1>3, <1>5, <1>6, <1>7 DEF u, n, op

(* A user has one access on the bus.                                       *)
LEMMA OneAccess ==
  ASSUME Types, Own, rd # None, wr # None
  PROVE  rd.by # wr.by
BY ReadCases, WriteCases

----------------------------------------------------------------------------

LEMMA InitIInv == Init => IInv
<1> SUFFICES ASSUME Init PROVE IInv
  OBVIOUS
<1> USE DEF Init
<1>1. Types
  <2>1. got \in [Users -> Seq(Values)]
    OBVIOUS
  <2>2. rdata \in Values
    BY DEF Values
  <2>3. call \in [Users -> Calls \cup {NoCall}]
    OBVIOUS
  <2>4. base \in [Users -> Nat] /\ clean \in [Users -> BOOLEAN]
    OBVIOUS
  <2> QED
    BY <2>1, <2>2, <2>3, <2>4 DEF Types
<1>2. ReadBus /\ WriteBus /\ FifoShows
  BY DEF ReadBus, WriteBus, FifoShows, ArValid, AwValid
<1>3. Own
  BY DEF Own
<1>4. ASSUME NEW u \in Users
      PROVE  UserInv(u)
  <2>1. Answered(u) = 0 /\ Len(got[u]) = 0 /\ ~clean[u]
    BY <1>4 DEF Answered, Staged
  <2> QED
    BY <2>1 DEF UserInv, StatusInv, MessageInv, DebugInv, PpsInv
<1> QED
  BY <1>1, <1>2, <1>3, <1>4 DEF IInv

(* The users' own steps leave the slave and the other users alone.         *)
LEMMA BeginIInv ==
  ASSUME IInv, NEW u \in Users, NEW c \in Calls, Begin(u, c)
  PROVE  IInv'
<1> USE DEF IInv
<1>1. /\ call[u] = NoCall /\ call' = [call EXCEPT ![u] = c]
      /\ UNCHANGED <<readSide, writeSide, resetDue, device, rd, wr, got, base, clean>>
  BY DEF Begin
<1>2. Types'
  BY <1>1 DEF Types, readSide, writeSide, device
<1>3. (ReadBus /\ WriteBus /\ FifoShows)'
  BY <1>1 DEF ReadBus, WriteBus, FifoShows, ArValid, AwValid, readSide, writeSide, device
<1>4. /\ got[u] = <<>>
      /\ rd # None => rd.by # u
      /\ wr # None => wr.by # u
  BY <1>1 DEF Own, IsNext
<1>5. Own'
  <2>1. \A v \in Users : v # u => call'[v] = call[v]
    BY <1>1 DEF Types
  <2>2. rd # None => rd.by \in Users
    BY DEF Types, Accesses
  <2>3. wr # None => wr.by \in Users
    BY DEF Types, Accesses
  <2>4. (rd # None => IsNext(rd.by, Get(rd.reg)))'
    BY <1>1, <1>4, <2>1, <2>2 DEF Own, IsNext, Finished
  <2>5. (wr # None => IsNext(wr.by, Put(wr.reg)))'
    BY <1>1, <1>4, <2>1, <2>3 DEF Own, IsNext, Finished
  <2>6. Len(Program[c.op]) >= 0
    BY Programs DEF Calls
  <2>7. call'[u] = c /\ c # NoCall
    BY <1>1 DEF Types, Calls, NoCall
  <2>8. (\A v \in Users : IF call[v] = NoCall THEN got[v] = <<>>
                          ELSE Len(got[v]) <= Len(Program[call[v].op]))'
    BY <1>1, <1>4, <2>1, <2>6, <2>7 DEF Own
  <2> QED
    BY <2>4, <2>5, <2>8 DEF Own
<1>6. ASSUME NEW v \in Users
      PROVE  UserInv(v)'
  <2>1. CASE v = u
    <3>1. Answered(u)' = 0 /\ Len(got'[u]) = 0 /\ ~(wr' # None /\ wr'.by = u)
      BY <1>1, <1>4 DEF Answered, Staged
    <3> QED
      BY <2>1, <3>1 DEF UserInv, StatusInv, MessageInv, DebugInv, PpsInv
  <2>2. CASE v # u
    <3>1. call'[v] = call[v]
      BY <1>1, <2>2 DEF Types
    <3>2. UserInv(v)
      BY <1>6
    <3> QED
      BY <1>1, <3>1, <3>2 DEF UserInv, StatusInv, MessageInv, DebugInv, PpsInv,
        Answered, Answer, Staged, readSide, writeSide, device
  <2> QED
    BY <2>1, <2>2
<1> QED
  BY <1>2, <1>3, <1>5, <1>6

LEMMA IssueIInv ==
  ASSUME IInv, NEW u \in Users, Issue(u)
  PROVE  IInv'
<1> USE DEF IInv
<1>1. /\ call[u] # NoCall /\ ~Waits(u) /\ ~Finished(u)
      /\ UNCHANGED <<readSide, writeSide, resetDue, device, call, got, base, clean>>
  BY DEF Issue
<1> DEFINE a == Program[call[u].op][Len(got[u]) + 1]
<1>2. Len(got[u]) < Len(Program[call[u].op])
  <2>1. Len(got[u]) <= Len(Program[call[u].op]) /\ Len(got[u]) # Len(Program[call[u].op])
    BY <1>1 DEF Own, Finished
  <2>2. Len(got[u]) \in Nat
    BY DEF Types
  <2>3. call[u] \in Calls
    BY <1>1 DEF Types
  <2>4. Len(Program[call[u].op]) \in Nat
    BY <2>3, Programs DEF Calls
  <2> QED
    BY <2>1, <2>2, <2>4
<1>3. a \in {Get(r) : r \in RegisterNames} \cup {Put(r) : r \in RegisterNames}
  <2>1. call[u] \in Calls /\ Len(got[u]) \in Nat
    BY <1>1 DEF Types
  <2>2. call[u].op \in {"message", "pps", "debug", "reset"}
    BY <2>1 DEF Calls
  <2>3. Len(got[u]) \in 0..3
    <3>1. \A op \in {"message", "pps", "debug", "reset"} : Len(Program[op]) \in {2, 4}
      BY Programs
    <3>2. Len(Program[call[u].op]) \in {2, 4}
      BY <2>2, <3>1
    <3> QED
      BY <1>2, <2>1, <3>2, Below
  <2>4. CASE call[u].op \in {"message", "pps"}
    <3>1. \A op \in {"message", "pps"} : \A i \in 0..3 :
            \E r \in RegisterNames : Program[op][i + 1] = Get(r)
      BY Programs DEF RegisterNames
    <3> QED
      BY <2>3, <2>4, <3>1
  <2>5. CASE call[u].op \in {"debug", "reset"}
    <3>1. Len(got[u]) \in 0..1
      <4>1. Len(Program[call[u].op]) = 2
        BY <2>5, Programs
      <4> QED
        BY <1>2, <2>1, <4>1, Below
    <3>2. \A op \in {"debug", "reset"} : \A i \in 0..1 :
            \E r \in RegisterNames : Program[op][i + 1] \in {Get(r), Put(r)}
      BY Programs DEF RegisterNames
    <3> QED
      BY <2>5, <3>1, <3>2
  <2> QED
    BY <2>2, <2>4, <2>5
<1>4. PICK r \in RegisterNames : a \in {Get(r), Put(r)}
  BY <1>3
<1>5. a.reg = r
  BY <1>4, GetsAndPuts
<1>6. [by |-> u, reg |-> r, addr |-> TRUE] \in Accesses
  BY DEF Accesses
<1>7. [by |-> u, reg |-> r, addr |-> TRUE] # None
  BY <1>6, NoneAssumption
<1> HIDE DEF a
<1>8. \/ /\ a = Get(r) /\ rd = None /\ rd' = [by |-> u, reg |-> r, addr |-> TRUE]
         /\ UNCHANGED wr
      \/ /\ a = Put(r) /\ wr = None /\ wr' = [by |-> u, reg |-> r, addr |-> TRUE]
         /\ UNCHANGED rd
  BY <1>4, <1>5, GetsAndPuts DEF Issue, a
<1>9. Types'
  BY <1>1, <1>6, <1>8 DEF Types, readSide, writeSide, device
<1>10. (ReadBus /\ WriteBus /\ FifoShows)'
  BY <1>1, <1>7, <1>8 DEF ReadBus, WriteBus, FifoShows, ArValid, AwValid, readSide,
    writeSide, device
<1>11. Own'
  <2>1. (rd # None => IsNext(rd.by, Get(rd.reg)))'
    <3>1. CASE UNCHANGED rd
      BY <1>1, <3>1 DEF Own, IsNext, Finished
    <3>2. CASE a = Get(r) /\ rd' = [by |-> u, reg |-> r, addr |-> TRUE]
      <4>1. rd'.by = u /\ rd'.reg = r
        BY <3>2
      <4>2. call' = call /\ got' = got
        BY <1>1
      <4>3. Program[call[u].op][Len(got[u]) + 1] = Get(r)
        BY <3>2 DEF a
      <4>4. IsNext(u, Get(r))'
        BY <1>1, <1>2, <4>2, <4>3 DEF IsNext, Finished
      <4> QED
        BY <4>1, <4>4
    <3> QED
      BY <1>8, <3>1, <3>2
  <2>2. (wr # None => IsNext(wr.by, Put(wr.reg)))'
    <3>1. CASE UNCHANGED wr
      BY <1>1, <3>1 DEF Own, IsNext, Finished
    <3>2. CASE a = Put(r) /\ wr' = [by |-> u, reg |-> r, addr |-> TRUE]
      <4>1. wr'.by = u /\ wr'.reg = r
        BY <3>2
      <4>2. call' = call /\ got' = got
        BY <1>1
      <4>3. Program[call[u].op][Len(got[u]) + 1] = Put(r)
        BY <3>2 DEF a
      <4>4. IsNext(u, Put(r))'
        BY <1>1, <1>2, <4>2, <4>3 DEF IsNext, Finished
      <4> QED
        BY <4>1, <4>4
    <3> QED
      BY <1>8, <3>1, <3>2
  <2> QED
    BY <1>1, <2>1, <2>2 DEF Own
<1>12. ASSUME NEW v \in Users
       PROVE  UserInv(v)'
  <2>1. (~Staged(v)' /\ ~Staged(v)) \/ UNCHANGED rd
    BY <1>8 DEF Staged
  <2>2. ~(wr' # None /\ wr'.by = v /\ ~wr'.addr) \/ UNCHANGED wr
    BY <1>8
  <2>3. UserInv(v)
    BY <1>12
  <2> QED
    BY <1>1, <2>1, <2>2, <2>3 DEF UserInv, StatusInv, MessageInv, DebugInv, PpsInv,
      Answered, Answer, Staged, readSide, writeSide, device
<1> QED
  BY <1>9, <1>10, <1>11, <1>12

LEMMA ReturnIInv ==
  ASSUME IInv, NEW u \in Users, Return(u)
  PROVE  IInv'
<1> USE DEF IInv
<1>1. /\ call[u] # NoCall /\ Finished(u)
      /\ call' = [call EXCEPT ![u] = IF Torn(u) THEN @ ELSE NoCall]
      /\ got' = [got EXCEPT ![u] = <<>>]
      /\ base' = [base EXCEPT ![u] = 0]
      /\ clean' = [clean EXCEPT ![u] = FALSE]
      /\ UNCHANGED <<readSide, writeSide, resetDue, device, rd, wr>>
  BY DEF Return
<1>2. Types'
  BY <1>1 DEF Types, readSide, writeSide, device
<1>3. (ReadBus /\ WriteBus /\ FifoShows)'
  BY <1>1 DEF ReadBus, WriteBus, FifoShows, ArValid, AwValid, readSide, writeSide, device
<1>4. (rd # None => rd.by # u) /\ (wr # None => wr.by # u)
  BY <1>1 DEF Own, IsNext
<1>5. \A v \in Users : v # u => /\ call'[v] = call[v] /\ got'[v] = got[v]
                                /\ base'[v] = base[v] /\ clean'[v] = clean[v]
  BY <1>1 DEF Types
<1>6. got'[u] = <<>> /\ ~clean'[u] /\ call'[u] \in {call[u], NoCall}
  BY <1>1 DEF Types
<1>7. Own'
  <2>1. rd # None => rd.by \in Users
    BY DEF Types, Accesses
  <2>2. wr # None => wr.by \in Users
    BY DEF Types, Accesses
  <2>3. (rd # None => IsNext(rd.by, Get(rd.reg)))'
    BY <1>1, <1>4, <1>5, <2>1 DEF Own, IsNext, Finished
  <2>4. (wr # None => IsNext(wr.by, Put(wr.reg)))'
    BY <1>1, <1>4, <1>5, <2>2 DEF Own, IsNext, Finished
  <2>5. call[u] \in Calls
    BY <1>1 DEF Types
  <2>6. Len(Program[call[u].op]) >= 0
    BY <2>5, Programs DEF Calls
  <2>7. (\A v \in Users : IF call[v] = NoCall THEN got[v] = <<>>
                          ELSE Len(got[v]) <= Len(Program[call[v].op]))'
    BY <1>5, <1>6, <2>6 DEF Own
  <2> QED
    BY <2>3, <2>4, <2>7 DEF Own
<1>8. ASSUME NEW v \in Users
      PROVE  UserInv(v)'
  <2>1. CASE v = u
    <3>1. Answered(u)' = 0 /\ Len(got'[u]) = 0 /\ ~(wr' # None /\ wr'.by = u)
      BY <1>1, <1>4, <1>6 DEF Answered, Staged
    <3> QED
      BY <2>1, <3>1 DEF UserInv, StatusInv, MessageInv, DebugInv, PpsInv
  <2>2. CASE v # u
    <3>1. UserInv(v)
      BY <1>8
    <3> QED
      BY <1>1, <1>5, <2>2, <3>1 DEF UserInv, StatusInv, MessageInv, DebugInv, PpsInv,
        Answered, Answer, Staged, readSide, writeSide, device
  <2> QED
    BY <2>1, <2>2
<1> QED
  BY <1>2, <1>3, <1>7, <1>8

LEMMA ResetIInv ==
  ASSUME IInv, Reset
  PROVE  IInv'
<1> USE DEF IInv
<1>1. /\ popped' = arrived /\ shown' = 0 /\ edges' = 0
      /\ clean' = [u \in Users |-> FALSE]
      /\ UNCHANGED <<readSide, writeSide, arrived, rd, wr, call, got, base>>
  BY DEF Reset
<1>2. Types'
  BY <1>1 DEF Types, readSide, writeSide
<1>3. (ReadBus /\ WriteBus /\ FifoShows)'
  BY <1>1 DEF ReadBus, WriteBus, FifoShows, ArValid, AwValid, readSide, writeSide
<1>4. Own'
  BY <1>1 DEF Own, IsNext, Finished
<1>5. ASSUME NEW v \in Users
      PROVE  UserInv(v)'
  <2>1. ~clean'[v]
    BY <1>1
  <2>2. UserInv(v)
    BY <1>5
  <2>3. StatusInv(v)'
    BY <1>1, <2>1, <2>2 DEF UserInv, StatusInv, Answered, Answer, Staged, readSide
  <2> QED
    BY <2>1, <2>3 DEF UserInv, MessageInv, DebugInv, PpsInv
<1> QED
  BY <1>2, <1>3, <1>4, <1>5

LEMMA StutterIInv ==
  ASSUME IInv, UNCHANGED vars
  PROVE  IInv'
<1>1. /\ UNCHANGED <<arready, araddr, pending, rvalid, rdata, pop, awready, awaddr, bvalid>>
      /\ UNCHANGED <<dbgIndex, dbgData, arrived, popped, shown, edges>>
      /\ UNCHANGED <<rd, wr, call, got, base, clean>>
  BY DEF vars, readSide, writeSide, device
<1>2. (Types /\ ReadBus /\ WriteBus /\ FifoShows)'
  BY <1>1 DEF IInv, Types, ReadBus, WriteBus, FifoShows, ArValid, AwValid
<1>3. Own'
  BY <1>1 DEF IInv, Own, IsNext, Finished
<1>4. ASSUME NEW u \in Users PROVE UserInv(u)'
  <2>1. UserInv(u)
    BY DEF IInv
  <2>2. StatusInv(u)' /\ DebugInv(u)'
    BY <1>1, <2>1 DEF UserInv, StatusInv, DebugInv, Answered, Answer, Staged
  <2>3. MessageInv(u)'
    BY <1>1, <2>1 DEF UserInv, MessageInv, Answered, Answer, Staged
  <2>4. PpsInv(u)'
    BY <1>1, <2>1 DEF UserInv, PpsInv, Answered, Answer, Staged
  <2> QED
    BY <2>2, <2>3, <2>4 DEF UserInv
<1> QED
  BY <1>2, <1>3, <1>4 DEF IInv
----------------------------------------------------------------------------

(* What a clock edge does to the read on the bus: its address is accepted   *)
(* and its register staged, its answer is taken, or it stays as it is.      *)
Taken ==
  /\ Accepts /\ rd # None /\ rd.addr /\ rd' = [rd EXCEPT !.addr = FALSE]
  /\ rdata' \in Registers[rd.reg]
  /\ ~pop /\ pop' = (rd.reg = "RPL" /\ arrived # popped)
  /\ pending' /\ ~rvalid' /\ ~arready'

Given ==
  /\ ~Accepts /\ rd # None /\ ~rd.addr /\ rd' = None
  /\ rdata' = rdata /\ ~pop /\ ~pop'
  /\ ~pending' /\ ~rvalid' /\ ~arready'

Kept ==
  /\ ~Accepts /\ rd' = rd /\ rdata' = rdata /\ ~pop'
  /\ rd = None => ~arready' /\ ~pending' /\ ~rvalid'
  /\ rd # None /\ rd.addr => ~pending' /\ ~rvalid' /\ araddr' = rd.reg
  /\ rd # None /\ ~rd.addr => ~arready' /\ (pending' <=> ~rvalid')

(* And to the write.                                                       *)
Written ==
  /\ Writes /\ wr # None /\ wr.addr /\ wr' = [wr EXCEPT !.addr = FALSE]
  /\ awaddr = wr.reg /\ bvalid' /\ ~awready'

Acknowledged ==
  /\ ~Writes /\ wr # None /\ ~wr.addr /\ wr' = None
  /\ ~bvalid' /\ ~awready'

Held ==
  /\ ~Writes /\ wr' = wr
  /\ wr = None => ~awready' /\ ~bvalid'
  /\ wr # None /\ wr.addr => ~bvalid' /\ awaddr' = wr.reg
  /\ wr # None /\ ~wr.addr => ~awready' /\ bvalid'

(* And to what the user of an access has been given.                       *)
Gains ==
  got' = [u \in Users |->
            IF Given /\ rd.by = u THEN Append(got[u], rdata)
            ELSE IF Acknowledged /\ wr.by = u THEN Append(got[u], None)
            ELSE got[u]]

LEMMA BusSteps ==
  ASSUME IInv, Tick
  PROVE  (Taken \/ Given \/ Kept) /\ (Written \/ Acknowledged \/ Held) /\ Gains
<1>1. PICK rready \in BOOLEAN, bready \in BOOLEAN :
        RHandshake(rready) /\ BHandshake(bready) /\ Bus(rready, bready)
  BY DEF Tick
<1>2. ArHandshake /\ AwHandshake
  BY DEF Tick
<1>3. rd \in Accesses \cup {None} /\ wr \in Accesses \cup {None} /\ ReadBus /\ WriteBus
  BY DEF IInv, Types
<1>4. \A a \in Accesses : a # None /\ a.addr \in BOOLEAN
  BY NoneAssumption DEF Accesses
<1> DEFINE answers == rvalid /\ rready
           acknowledges == bvalid /\ bready
<1>5. /\ rd' = IF ArValid /\ arready THEN [rd EXCEPT !.addr = FALSE]
               ELSE IF answers THEN None ELSE rd
      /\ wr' = IF Writes THEN [wr EXCEPT !.addr = FALSE]
               ELSE IF acknowledges THEN None ELSE wr
  BY <1>1 DEF Bus
<1>6. /\ Taken \/ Given \/ Kept
      /\ answers <=> Given
  <2>1. CASE rd = None
    <3>1. ~arready /\ ~pending /\ ~rvalid /\ ~pop /\ ~ArValid /\ ~Accepts
      BY <1>3, <2>1 DEF ReadBus, ArValid, Accepts
    <3>2. rvalid' = (rvalid /\ ~rready) /\ pop' = FALSE /\ pending' = pending /\ rdata' = rdata
      BY <1>1, <3>1, Zenon DEF RHandshake
    <3>3. ~arready'
      BY <1>2, <3>1, Zenon DEF ArHandshake
    <3>4. rd' = rd /\ ~answers
      BY <1>5, <3>1
    <3> QED
      BY <2>1, <3>1, <3>2, <3>3, <3>4 DEF Given, Kept
  <2>2. CASE rd # None /\ rd.addr /\ ~arready
    <3>1. ~pending /\ ~rvalid /\ ArValid /\ ~Accepts
      BY <1>3, <2>2 DEF ReadBus, ArValid, Accepts
    <3>2. rvalid' = (rvalid /\ ~rready) /\ pop' = FALSE /\ pending' = pending /\ rdata' = rdata
      BY <1>1, <3>1, Zenon DEF RHandshake
    <3>3. araddr' = rd.reg
      BY <1>2, <2>2, <3>1 DEF ArHandshake
    <3>4. rd' = rd /\ ~answers
      BY <1>5, <2>2, <3>1
    <3> QED
      BY <2>2, <3>1, <3>2, <3>3, <3>4 DEF Given, Kept
  <2>3. CASE rd # None /\ rd.addr /\ arready
    <3>1. ~pending /\ ~rvalid /\ ~pop /\ ArValid /\ Accepts /\ araddr = rd.reg
      BY <1>3, <2>3 DEF ReadBus, ArValid, Accepts
    <3>2. /\ rvalid' = rvalid /\ pending' = TRUE /\ rdata' \in Registers[araddr]
          /\ pop' = (araddr = "RPL" /\ arrived # popped)
      BY <1>1, <3>1, Zenon DEF RHandshake
    <3>3. ~arready'
      BY <1>2, <2>3, Zenon DEF ArHandshake
    <3>4. rd' = [rd EXCEPT !.addr = FALSE] /\ ~answers
      BY <1>5, <2>3, <3>1
    <3> QED
      BY <2>3, <3>1, <3>2, <3>3, <3>4 DEF Given, Taken
  <2>4. CASE rd # None /\ ~rd.addr /\ pending
    <3>1. rd' = rd /\ ~answers
      BY <1>3, <1>5, <2>4 DEF ReadBus, ArValid
    <3>2. Kept
      BY <1>1, <1>2, <1>3, <2>4, <3>1 DEF ReadBus, ArValid, Accepts, RHandshake,
        ArHandshake, Kept
    <3>3. rd' # None
      BY <2>4, <3>1
    <3> QED
      BY <3>1, <3>2, <3>3 DEF Given
  <2>5. CASE rd # None /\ ~rd.addr /\ rvalid
    <3>1. ~arready /\ ~pending /\ ~pop /\ ~ArValid /\ ~Accepts
      BY <1>3, <2>5 DEF ReadBus, ArValid, Accepts
    <3>2. rvalid' = ~rready /\ ~pop' /\ pending' = pending /\ rdata' = rdata /\ ~arready'
      BY <1>1, <1>2, <2>5, <3>1 DEF RHandshake, ArHandshake
    <3>3. CASE rready
      BY <1>5, <2>5, <3>1, <3>2, <3>3 DEF Given
    <3>4. CASE ~rready
      BY <1>5, <2>5, <3>1, <3>2, <3>4 DEF Given, Kept
    <3> QED
      BY <3>3, <3>4
  <2> QED
    BY <1>3, <1>4, <2>1, <2>2, <2>3, <2>4, <2>5 DEF ReadBus
<1>7. /\ Written \/ Acknowledged \/ Held
      /\ acknowledges <=> Acknowledged
  <2>1. CASE wr = None
    <3>1. ~awready /\ ~bvalid /\ ~AwValid /\ ~Writes
      BY <1>3, <2>1 DEF WriteBus, AwValid, Writes
    <3>2. ~bvalid' /\ ~awready'
      BY <1>1, <1>2, <3>1 DEF BHandshake, AwHandshake
    <3> QED
      BY <1>5, <2>1, <3>1, <3>2 DEF Acknowledged, Held
  <2>2. CASE wr # None /\ wr.addr /\ ~awready
    <3>1. ~bvalid /\ AwValid /\ ~Writes
      BY <1>3, <2>2 DEF WriteBus, AwValid, Writes
    <3>2. ~bvalid' /\ awaddr' = wr.reg
      BY <1>1, <1>2, <2>2, <3>1 DEF BHandshake, AwHandshake
    <3> QED
      BY <1>5, <2>2, <3>1, <3>2 DEF Acknowledged, Held
  <2>3. CASE wr # None /\ wr.addr /\ awready
    <3>1. ~bvalid /\ AwValid /\ Writes /\ awaddr = wr.reg
      BY <1>3, <2>3 DEF WriteBus, AwValid, Writes
    <3>2. bvalid' /\ ~awready'
      BY <1>1, <1>2, <2>3, <3>1 DEF BHandshake, AwHandshake
    <3>3. wr' = [wr EXCEPT !.addr = FALSE] /\ ~acknowledges
      BY <1>5, <3>1
    <3> QED
      BY <2>3, <3>1, <3>2, <3>3 DEF Acknowledged, Written
  <2>4. CASE wr # None /\ ~wr.addr
    <3>1. ~awready /\ bvalid /\ ~AwValid /\ ~Writes
      BY <1>3, <2>4 DEF WriteBus, AwValid, Writes
    <3>2. bvalid' = ~bready /\ ~awready'
      BY <1>1, <1>2, <3>1 DEF BHandshake, AwHandshake
    <3> QED
      BY <1>5, <2>4, <3>1, <3>2 DEF Acknowledged, Held
  <2> QED
    BY <2>1, <2>2, <2>3, <2>4
<1>8. Gains
  BY <1>1, <1>6, <1>7 DEF Bus, Gains
<1> QED
  BY <1>6, <1>7, <1>8

(* What the registers give.                                                *)
LEMMA RegisterValues ==
  ASSUME NEW x, NEW r, x \in Registers[r]
  PROVE  /\ r = "STATUS" => x \in {0, 1} /\ (x = 1 <=> arrived # popped)
         /\ r \in {"MSG_DATA", "TOA", "RPL"} => x = shown
         /\ r = "PPS_COUNT" => IF edges' = edges THEN x = edges % CountWrap
                               ELSE x \in 0..(CountWrap - 1)
         /\ r \in {"PPS_CTR_LO", "PPS_CTR_HI"} =>
              IF edges' = edges THEN x = edges ELSE x \in {edges, edges', -1}
         /\ r = "CONTROL" => x \in {0, 1}
         /\ r = "DBG_DATA" => x = dbgData
<1>1. CASE r = "STATUS"
  BY <1>1 DEF Registers
<1>2. CASE r \in {"MSG_DATA", "TOA", "RPL"}
  BY <1>2 DEF Registers
<1>3. CASE r = "PPS_COUNT"
  BY <1>3 DEF Registers
<1>4. CASE r \in {"PPS_CTR_LO", "PPS_CTR_HI"}
  BY <1>4 DEF Registers, Mixed
<1>5. CASE r = "CONTROL"
  BY <1>5 DEF Registers
<1>6. CASE r = "DBG_DATA"
  BY <1>6 DEF Registers
<1> QED
  BY <1>1, <1>2, <1>3, <1>4, <1>5, <1>6

(* What a clock edge does to a user's call: its next answer is staged, its  *)
(* write is acknowledged, or what it has been answered so far stays as it   *)
(* was, be it in the slave or with the user.                                *)
Stages(u) ==
  /\ Taken /\ rd.by = u /\ got'[u] = got[u]
  /\ Answered(u) = Len(got[u]) /\ Answered(u)' = Len(got[u]) + 1
  /\ \A i \in 1..Len(got[u]) : Answer(u, i) = got[u][i] /\ Answer(u, i)' = got[u][i]
  /\ \A i \in Nat : i = Len(got[u]) + 1 => Answer(u, i)' = rdata'
  /\ Staged(u)'

Confirms(u) ==
  /\ Acknowledged /\ wr.by = u /\ got'[u] = Append(got[u], None)
  /\ ~Staged(u) /\ ~Staged(u)'

Same(u) ==
  /\ ~(Taken /\ rd.by = u)
  /\ Answered(u)' = Answered(u)
  /\ \A i \in 1..Answered(u) : Answer(u, i)' = Answer(u, i)
  /\ \/ Staged(u) /\ ~Staged(u)' /\ Given /\ got'[u] = Append(got[u], rdata)
     \/ got'[u] = got[u] /\ (Staged(u)' <=> Staged(u)) /\ (Staged(u) => rdata' = rdata)

LEMMA UserSteps ==
  ASSUME IInv, Tick, NEW u \in Users
  PROVE  Stages(u) \/ Confirms(u) \/ Same(u)
<1>1. (Taken \/ Given \/ Kept) /\ (Written \/ Acknowledged \/ Held) /\ Gains
  BY BusSteps
<1>2. Types /\ Own
  BY DEF IInv
<1>3. got[u] \in Seq(Values) /\ Len(got[u]) \in Nat
  BY <1>2 DEF Types
<1>4. rd # None => rd \in Accesses
  BY <1>2 DEF Types
<1>5. CASE Taken /\ rd.by = u
  <2>1. got'[u] = got[u]
    <3>1. ~Given
      BY <1>5 DEF Taken, Given
    <3>2. ~(Acknowledged /\ wr.by = u)
      BY <1>2, <1>5, OneAccess DEF Taken, Acknowledged
    <3> QED
      BY <1>1, <3>1, <3>2 DEF Gains
  <2>2. ~Staged(u)
    BY <1>5 DEF Staged, Taken
  <2>3. rd' # None /\ rd'.by = u /\ ~rd'.addr
    <3>1. rd' = [rd EXCEPT !.addr = FALSE] /\ rd \in Accesses
      BY <1>4, <1>5 DEF Taken
    <3>2. rd' \in Accesses
      BY <3>1 DEF Accesses
    <3> QED
      BY <1>5, <3>1, <3>2, NoneAssumption DEF Accesses
  <2>4. Staged(u)'
    BY <2>3 DEF Staged
  <2> QED
    BY <1>3, <1>5, <2>1, <2>2, <2>4 DEF Stages, Answered, Answer
<1>6. CASE Given /\ rd.by = u
  <2>1. got'[u] = Append(got[u], rdata)
    BY <1>1, <1>6 DEF Gains
  <2>2. Staged(u) /\ ~Staged(u)'
    BY <1>6 DEF Staged, Given
  <2>3. ~(Taken /\ rd.by = u)
    BY <1>6 DEF Given, Taken
  <2>4. /\ Len(got'[u]) = Len(got[u]) + 1 /\ got'[u][Len(got[u]) + 1] = rdata
        /\ \A i \in 1..Len(got[u]) : got'[u][i] = got[u][i]
    <3>1. rdata \in Values
      BY <1>2 DEF Types
    <3> QED
      BY <1>3, <2>1, <3>1
  <2>5. Answered(u)' = Answered(u) /\ Answered(u) = Len(got[u]) + 1
    BY <2>2, <2>4 DEF Answered
  <2>6. \A i \in 1..Answered(u) : Answer(u, i)' = Answer(u, i)
    BY <1>3, <2>4, <2>5 DEF Answer
  <2> QED
    BY <1>6, <2>1, <2>2, <2>3, <2>5, <2>6 DEF Same
<1>7. CASE Acknowledged /\ wr.by = u
  <2>1. rd # None => rd.by # u
    BY <1>2, <1>7, OneAccess DEF Acknowledged
  <2>2. ~Given \/ rd.by # u
    BY <2>1 DEF Given
  <2>3. got'[u] = Append(got[u], None)
    BY <1>1, <1>7, <2>2 DEF Gains
  <2>4. rd' # None => rd'.by # u
    BY <1>1, <1>4, <2>1 DEF Taken, Given, Kept, Accesses
  <2> QED
    BY <1>7, <2>1, <2>3, <2>4 DEF Confirms, Staged
<1>8. CASE ~(Taken /\ rd.by = u) /\ ~(Given /\ rd.by = u) /\ ~(Acknowledged /\ wr.by = u)
  <2>1. got'[u] = got[u]
    BY <1>1, <1>8 DEF Gains
  <2>2. (Staged(u)' <=> Staged(u)) /\ (Staged(u) => rdata' = rdata)
    <3>1. CASE Kept
      BY <3>1 DEF Kept, Staged
    <3>2. CASE Taken
      BY <1>4, <1>8, <3>2 DEF Taken, Staged, Accesses
    <3>3. CASE Given
      BY <1>8, <3>3 DEF Given, Staged
    <3> QED
      BY <1>1, <3>1, <3>2, <3>3
  <2>3. Answered(u)' = Answered(u)
    BY <2>1, <2>2 DEF Answered
  <2>4. \A i \in 1..Answered(u) : Answer(u, i)' = Answer(u, i)
    BY <1>3, <2>1, <2>2 DEF Answer, Answered
  <2> QED
    BY <1>8, <2>1, <2>2, <2>3, <2>4 DEF Same
<1> QED
  BY <1>5, <1>6, <1>7, <1>8

----------------------------------------------------------------------------

(* What else an edge does: the FIFO pops when told to, only the clock's own *)
(* edge moves the count, and a call stays undisturbed unless another user's *)
(* access interferes.                                                       *)
LEMMA Others ==
  ASSUME IInv, Tick
  PROVE  /\ call' = call
         /\ edges' \in {edges, edges + 1}
         /\ arrived' \in Nat /\ arrived' >= arrived
         /\ popped' = IF pop /\ arrived # popped THEN popped + 1 ELSE popped
         /\ shown' = IF arrived' # popped' THEN popped' + 1 ELSE shown
         /\ dbgData' = dbgIndex
         /\ Taken <=> Accepts
         /\ Written <=> Writes
         /\ \A u \in Users :
              LET first == Taken /\ rd.by = u /\ got[u] = <<>>
                  selects == Written /\ wr.reg = "DBG_INDEX"
              IN /\ base'[u] = IF ~first THEN base[u]
                               ELSE IF call[u].op = "pps" THEN edges ELSE popped
                 /\ clean'[u] =>
                      \/ first
                      \/ selects /\ wr.by = u
                      \/ /\ clean[u]
                         /\ ~(selects /\ call[u].op = "debug")
                         /\ ~(pop /\ rd.by # u /\ call[u].op = "message")
         /\ dbgIndex' = IF Written /\ wr.reg = "DBG_INDEX" THEN call[wr.by].index
                        ELSE dbgIndex
<1>1. (Taken \/ Given \/ Kept) /\ (Written \/ Acknowledged \/ Held)
  BY BusSteps
<1>2. (Taken <=> Accepts) /\ (Written <=> Writes)
  BY <1>1 DEF Taken, Given, Kept, Written, Acknowledged, Held
<1>3. arrived' \in Nat /\ arrived' >= arrived
  BY AxiAssumption DEF Tick, Fifo, IInv, Types
<1>4. Written => awaddr = wr.reg
  BY DEF Written
<1>5. Record /\ WriteRegs /\ DbgPreselect /\ Fifo
  BY DEF Tick
<1>6. \A u \in Users :
        LET first == Taken /\ rd.by = u /\ got[u] = <<>>
            selects == Written /\ wr.reg = "DBG_INDEX"
        IN /\ base'[u] = IF ~first THEN base[u]
                         ELSE IF call[u].op = "pps" THEN edges ELSE popped
           /\ clean'[u] =>
                \/ first
                \/ selects /\ wr.by = u
                \/ /\ clean[u]
                   /\ ~(selects /\ call[u].op = "debug")
                   /\ ~(pop /\ rd.by # u /\ call[u].op = "message")
  BY <1>2, <1>4, <1>5 DEF Record
<1>7. dbgIndex' = IF Written /\ wr.reg = "DBG_INDEX" THEN call[wr.by].index ELSE dbgIndex
  BY <1>2, <1>4, <1>5 DEF WriteRegs
<1> QED
  BY <1>2, <1>3, <1>5, <1>6, <1>7 DEF Tick, DbgPreselect, Fifo

(* The part of a tick that is about the bus and the FIFO.                  *)
LEMMA TickBus ==
  ASSUME IInv, Tick
  PROVE  (Types /\ ReadBus /\ WriteBus /\ Own /\ FifoShows)'
<1> USE DEF IInv
<1>1. (Taken \/ Given \/ Kept) /\ (Written \/ Acknowledged \/ Held) /\ Gains
  BY BusSteps
<1>2. rd' \in Accesses \cup {None} /\ wr' \in Accesses \cup {None}
  <2>1. \A a \in Accesses : [a EXCEPT !.addr = FALSE] \in Accesses
    BY DEF Accesses
  <2>2. rd' \in {rd, None} \/ (rd # None /\ rd' = [rd EXCEPT !.addr = FALSE])
    BY <1>1 DEF Taken, Given, Kept
  <2>3. wr' \in {wr, None} \/ (wr # None /\ wr' = [wr EXCEPT !.addr = FALSE])
    BY <1>1 DEF Written, Acknowledged, Held
  <2> QED
    BY <2>1, <2>2, <2>3 DEF Types
<1>3. rdata' \in Values
  <2>1. CASE Taken
    <3>1. rdata' \in Registers[rd.reg] /\ rd # None
      BY <2>1 DEF Taken
    <3>2. rd.reg \in {"STATUS", "MSG_DATA", "TOA", "RPL", "PPS_COUNT", "PPS_CTR_LO",
                      "PPS_CTR_HI", "CONTROL", "DBG_DATA"}
      BY <3>1, ReadCases
    <3>3. {shown, edges, edges', edges % CountWrap} \subseteq Int /\ dbgData \in Indices
      BY Others, AxiAssumption DEF Types
    <3>4. 0..(CountWrap - 1) \subseteq Int
      BY AxiAssumption
    <3> QED
      BY <3>1, <3>2, <3>3, <3>4, RegisterValues DEF Values
  <2>2. CASE ~Taken
    BY <1>1, <2>2 DEF Given, Kept, Types
  <2> QED
    BY <2>1, <2>2
<1>4. got' \in [Users -> Seq(Values)]
  <2>1. \A u \in Users : \A x \in Values : Append(got[u], x) \in Seq(Values)
    BY DEF Types
  <2>2. rdata \in Values /\ None \in Values
    BY DEF Types, Values
  <2>3. got \in [Users -> Seq(Values)]
    BY DEF Types
  <2> QED
    BY <1>1, <2>1, <2>2, <2>3 DEF Gains
<1>5. /\ dbgIndex' \in Indices /\ dbgData' \in Indices
      /\ {arrived', popped', edges'} \subseteq Nat /\ popped' <= arrived' /\ shown' \in Nat
      /\ call' \in [Users -> Calls \cup {NoCall}]
  <2>1. Written /\ wr.reg = "DBG_INDEX" => call[wr.by].index \in Indices
    <3> SUFFICES ASSUME Written, wr.reg = "DBG_INDEX" PROVE call[wr.by].index \in Indices
      OBVIOUS
    <3>1. wr.by \in Users /\ call[wr.by].op = "debug"
      BY WriteCases DEF Written
    <3>2. call[wr.by] \in Calls
      BY <3>1 DEF Types, NoCall
    <3> QED
      BY <3>1, <3>2 DEF Calls
  <2>2. /\ dbgIndex \in Indices /\ {arrived, popped, edges} \subseteq Nat /\ popped <= arrived
        /\ shown \in Nat /\ call \in [Users -> Calls \cup {NoCall}]
    BY DEF Types
  <2>3. edges' \in Nat /\ arrived' \in Nat /\ arrived' >= arrived
    BY <2>2, Others
  <2>4. popped' \in Nat /\ popped' <= arrived'
    <3>1. popped' = IF pop /\ arrived # popped THEN popped + 1 ELSE popped
      BY Others
    <3> QED
      BY <2>2, <2>3, <3>1
  <2>5. shown' \in Nat
    BY <2>2, <2>4, Others
  <2>6. dbgIndex' \in Indices /\ dbgData' \in Indices
    BY <2>1, <2>2, Others
  <2> QED
    BY <2>2, <2>3, <2>4, <2>5, <2>6, Others
<1>6. base' \in [Users -> Nat] /\ clean' \in [Users -> BOOLEAN]
  BY DEF Tick, Record, Types
<1>7. Types'
  BY <1>2, <1>3, <1>4, <1>5, <1>6 DEF Types
<1>8. ReadBus'
  <2>1. CASE Taken
    <3>1. rd \in Accesses /\ rd' = [rd EXCEPT !.addr = FALSE]
      BY <2>1 DEF Types, Taken
    <3>2. rd' # None /\ ~rd'.addr /\ rd'.reg = rd.reg
      BY <3>1, NoneAssumption DEF Accesses
    <3> QED
      BY <2>1, <3>2 DEF ReadBus, ArValid, Taken
  <2>2. CASE Given
    BY <2>2 DEF ReadBus, ArValid, Given
  <2>3. CASE Kept
    BY <2>3 DEF ReadBus, ArValid, Kept
  <2> QED
    BY <1>1, <2>1, <2>2, <2>3
<1>9. WriteBus'
  <2>1. CASE Written
    <3>1. wr \in Accesses /\ wr' = [wr EXCEPT !.addr = FALSE]
      BY <2>1 DEF Types, Written
    <3>2. wr' # None /\ ~wr'.addr
      BY <3>1, NoneAssumption DEF Accesses
    <3> QED
      BY <2>1, <3>2 DEF WriteBus, AwValid, Written
  <2>2. CASE Acknowledged
    BY <2>2 DEF WriteBus, AwValid, Acknowledged
  <2>3. CASE Held
    BY <2>3 DEF WriteBus, AwValid, Held
  <2> QED
    BY <1>1, <2>1, <2>2, <2>3
<1>10. FifoShows'
  BY Others DEF FifoShows, Types
<1>11. Own'
  <2>1. call' = call
    BY Others
  <2>2. ASSUME NEW u \in Users, got'[u] = got[u], NEW a, IsNext(u, a)
        PROVE  IsNext(u, a)'
    BY <2>1, <2>2 DEF IsNext, Finished
  <2>3. (rd # None => IsNext(rd.by, Get(rd.reg)))'
    <3> SUFFICES ASSUME rd' # None PROVE IsNext(rd.by, Get(rd.reg))'
      OBVIOUS
    <3>1. rd # None /\ rd'.by = rd.by /\ rd'.reg = rd.reg /\ ~Given
      BY <1>1 DEF Taken, Given, Kept, Types, Accesses
    <3>2. PICK u \in Users, r \in RegisterNames : u = rd.by /\ r = rd.reg
      BY <3>1 DEF Types, Accesses
    <3>3. got'[u] = got[u]
      BY <1>1, <3>1, <3>2, OneAccess DEF Gains, Acknowledged
    <3>4. IsNext(u, Get(r))'
      BY <2>2, <3>1, <3>2, <3>3 DEF Own
    <3> QED
      BY <3>1, <3>2, <3>4
  <2>4. (wr # None => IsNext(wr.by, Put(wr.reg)))'
    <3> SUFFICES ASSUME wr' # None PROVE IsNext(wr.by, Put(wr.reg))'
      OBVIOUS
    <3>1. wr # None /\ wr'.by = wr.by /\ wr'.reg = wr.reg /\ ~Acknowledged
      BY <1>1 DEF Written, Acknowledged, Held, Types, Accesses
    <3>2. PICK u \in Users, r \in RegisterNames : u = wr.by /\ r = wr.reg
      BY <3>1 DEF Types, Accesses
    <3>3. got'[u] = got[u]
      BY <1>1, <3>1, <3>2, OneAccess DEF Gains, Given
    <3>4. IsNext(u, Put(r))'
      BY <2>2, <3>1, <3>2, <3>3 DEF Own
    <3> QED
      BY <3>1, <3>2, <3>4
  <2>5. ASSUME NEW u \in Users
        PROVE  (IF call[u] = NoCall THEN got[u] = <<>>
                ELSE Len(got[u]) <= Len(Program[call[u].op]))'
    <3>1. CASE got'[u] = got[u]
      BY <2>1, <3>1 DEF Own
    <3>2. CASE got'[u] # got[u]
      <4>1. /\ call[u] # NoCall /\ Len(got[u]) < Len(Program[call[u].op])
            /\ got'[u] \in {Append(got[u], rdata), Append(got[u], None)}
        BY <1>1, <3>2 DEF Gains, Own, IsNext, Given, Acknowledged
      <4>2. Len(got'[u]) = Len(got[u]) + 1 /\ Len(got[u]) \in Nat
        <5>1. got[u] \in Seq(Values) /\ {rdata, None} \subseteq Values
          BY DEF Types, Values
        <5> QED
          BY <4>1, <5>1
      <4>3. Len(Program[call[u].op]) \in {2, 4}
        <5>1. call[u].op \in {"message", "pps", "debug", "reset"}
          BY <4>1 DEF Types, Calls
        <5> QED
          BY <5>1, Programs
      <4> QED
        BY <2>1, <4>1, <4>2, <4>3
    <3> QED
      BY <3>1, <3>2
  <2> QED
    BY <2>3, <2>4, <2>5 DEF Own
<1> QED
  BY <1>7, <1>8, <1>9, <1>10, <1>11

(* Only its own read of RPL, which is its fourth, pops the FIFO under an    *)
(* undisturbed call.                                                        *)
LEMMA Undisturbed ==
  ASSUME IInv, Tick, NEW u \in Users, call[u].op = "message", clean'[u], ~Stages(u)
  PROVE  /\ Same(u) /\ clean[u] /\ base'[u] = base[u]
         /\ pop => Staged(u) /\ Len(got[u]) = 3
         /\ Answered(u) < 4 => popped' = popped
<1>0. Types /\ ReadBus /\ WriteBus /\ Own /\ FifoShows /\ UserInv(u)
  BY DEF IInv
<1>1. Same(u)
  BY <1>0, UserSteps, WriteCases DEF Confirms, Acknowledged
<1>2. Written => wr.by # u
  BY <1>0, WriteCases DEF Written
<1>3. clean[u] /\ ~(pop /\ rd.by # u) /\ base'[u] = base[u]
  BY <1>1, <1>2, Others DEF Same
<1>4. ASSUME pop PROVE Staged(u) /\ Len(got[u]) = 3
  <2>1. rd # None /\ ~rd.addr /\ rd.reg = "RPL" /\ rd.by = u
    BY <1>0, <1>3, <1>4 DEF ReadBus
  <2>2. Len(got[u]) = 3
    BY <1>0, <2>1, ReadCases
  <2> QED
    BY <2>1, <2>2 DEF Staged
<1>5. Answered(u) < 4 => popped' = popped
  <2>1. ASSUME pop PROVE Answered(u) = 4
    <3>1. Staged(u) /\ Len(got[u]) = 3
      BY <1>4, <2>1
    <3> QED
      BY <3>1 DEF Answered
  <2>2. popped' = IF pop /\ arrived # popped THEN popped + 1 ELSE popped
    BY Others
  <2> QED
    BY <2>1, <2>2
<1> QED
  BY <1>1, <1>3, <1>4, <1>5

LEMMA TickStatus ==
  ASSUME IInv, Tick, NEW u \in Users
  PROVE  StatusInv(u)'
<1>0. Types /\ ReadBus /\ WriteBus /\ Own /\ FifoShows /\ UserInv(u)
  BY DEF IInv
<1>1. SUFFICES ASSUME call[u].op = "message", Answered(u)' >= 1
               PROVE  /\ Answer(u, 1)' \in {0, 1}
                      /\ Answered(u)' >= 2 => Answer(u, 1)' = 1
                      /\ Answer(u, 1)' = 1 /\ clean'[u] /\ Answered(u)' < 4 => arrived' # popped'
  BY Others DEF StatusInv
<1> DEFINE n == Len(got[u])
<1>2. n \in Nat /\ {popped, arrived} \subseteq Nat /\ popped <= arrived
  BY <1>0 DEF Types
<1>3. StatusInv(u) /\ arrived' \in Nat /\ arrived' >= arrived
  BY <1>0, Others DEF UserInv
<1>4. CASE Stages(u)
  <2>1. rd # None /\ rd.by = u /\ ~pop /\ popped' = popped
    BY <1>4, Others DEF Stages, Taken
  <2>2. CASE n = 0
    <3>1. rd.reg = "STATUS" /\ rdata' \in Registers[rd.reg]
      BY <1>0, <1>1, <1>4, <2>1, <2>2, ReadCases DEF Stages, Taken
    <3>2. Answer(u, 1)' = rdata' /\ Answered(u)' = 1
      BY <1>4, <2>2 DEF Stages
    <3>3. rdata' \in {0, 1} /\ (rdata' = 1 <=> arrived # popped)
      BY <3>1, RegisterValues
    <3> QED
      BY <1>2, <1>3, <2>1, <3>2, <3>3
  <2>3. CASE n >= 1
    <3>1. Answer(u, 1)' = got[u][1] /\ Answer(u, 1) = got[u][1] /\ Answered(u) = n
          /\ Answered(u)' = n + 1
      BY <1>2, <1>4, <2>3 DEF Stages
    <3>2. got[u] # <<0>>
      BY <1>0, <1>1, <2>1 DEF Own, IsNext, Finished
    <3>3. got[u][1] = 1
      <4>1. CASE n = 1
        <5>1. got[u] = <<got[u][1]>>
          BY <1>0, <4>1 DEF Types
        <5>2. got[u][1] \in {0, 1}
          BY <1>1, <1>3, <2>3, <3>1 DEF StatusInv
        <5> QED
          BY <3>2, <5>1, <5>2
      <4>2. CASE n >= 2
        BY <1>1, <1>3, <3>1, <4>2 DEF StatusInv
      <4> HIDE DEF n
      <4> QED
        BY <1>2, <2>3, <4>1, <4>2
    <3>4. clean'[u] => clean[u]
      <4>1. ~(Written /\ wr.by = u)
        BY <1>0, <1>1, WriteCases DEF Written
      <4>2. got[u] # <<>>
        BY <2>3
      <4> QED
        BY <4>1, <4>2, Others
    <3>5. clean'[u] /\ n + 1 < 4 => arrived # popped
      BY <1>1, <1>2, <1>3, <2>3, <3>1, <3>3, <3>4 DEF StatusInv
    <3> QED
      BY <1>2, <1>3, <2>1, <3>1, <3>3, <3>5
  <2> QED
    BY <1>2, <2>2, <2>3
<1>5. CASE ~Stages(u)
  <2>1. Same(u)
    BY <1>0, <1>1, <1>5, UserSteps, WriteCases DEF Confirms, Acknowledged
  <2>2. Answered(u)' = Answered(u) /\ Answer(u, 1)' = Answer(u, 1) /\ Answered(u) \in Nat
    <3>1. Answered(u) \in Nat
      BY <1>2 DEF Answered
    <3> QED
      BY <1>1, <2>1, <3>1 DEF Same
  <2>3. clean'[u] => clean[u] /\ (Answered(u) < 4 => popped' = popped)
    BY <1>1, <1>5, Undisturbed
  <2>4. /\ Answer(u, 1) \in {0, 1}
        /\ Answered(u) >= 2 => Answer(u, 1) = 1
        /\ Answer(u, 1) = 1 /\ clean[u] /\ Answered(u) < 4 => arrived # popped
    BY <1>1, <1>3, <2>2 DEF StatusInv
  <2> QED
    BY <1>2, <1>3, <2>2, <2>3, <2>4
<1> QED
  BY <1>4, <1>5

LEMMA TickMessage ==
  ASSUME IInv, Tick, NEW u \in Users
  PROVE  MessageInv(u)'
<1>0. Types /\ ReadBus /\ WriteBus /\ Own /\ FifoShows /\ UserInv(u)
  BY DEF IInv
<1>1. SUFFICES ASSUME call[u].op = "message", Answered(u)' >= 1, clean'[u]
               PROVE  /\ \A i \in 2..Answered(u)' : Answer(u, i)' = base'[u] + 1
                      /\ Answered(u)' < 4 => popped' = base'[u]
                      /\ Answered(u)' = 4 =>
                           \/ pop' /\ Staged(u)' /\ popped' = base'[u] /\ arrived' # popped'
                           \/ ~(pop' /\ Staged(u)') /\ popped' = base'[u] + 1
  BY Others DEF MessageInv
<1> DEFINE n == Len(got[u])
<1>2. n \in Nat /\ {popped, arrived} \subseteq Nat /\ popped <= arrived /\ base[u] \in Nat
  BY <1>0 DEF Types
<1>3. StatusInv(u) /\ MessageInv(u) /\ StatusInv(u)' /\ arrived' \in Nat /\ arrived' >= arrived
  BY <1>0, Others, TickStatus DEF UserInv
<1>4. CASE Stages(u)
  <2>1. rd # None /\ rd.by = u /\ ~pop /\ popped' = popped
    BY <1>4, Others DEF Stages, Taken
  <2>2. CASE n = 0
    <3>1. Answered(u)' = 1 /\ base'[u] = popped
      <4>1. got[u] = <<>> /\ Taken /\ rd.by = u
        BY <1>0, <1>4, <2>2 DEF Stages, Types
      <4> QED
        BY <1>1, <1>4, <2>2, <4>1, Others DEF Stages
    <3> QED
      BY <2>1, <3>1
  <2>3. CASE n >= 1
    <3>1. Answered(u) = n /\ Answered(u)' = n + 1
          /\ (\A i \in 1..n : Answer(u, i) = got[u][i] /\ Answer(u, i)' = got[u][i])
          /\ \A i \in Nat : i = n + 1 => Answer(u, i)' = rdata'
      BY <1>4 DEF Stages
    <3>2. clean[u] /\ base'[u] = base[u]
      <4>1. ~(Written /\ wr.by = u)
        BY <1>0, <1>1, WriteCases DEF Written
      <4>2. got[u] # <<>>
        BY <2>3
      <4> QED
        BY <1>1, <4>1, <4>2, Others
    <3>3. Answer(u, 1)' = 1
      BY <1>1, <1>2, <1>3, <2>3, <3>1, Others DEF StatusInv
    <3>4. n <= 3 /\ rd.reg \in {"MSG_DATA", "TOA", "RPL"} /\ (n = 3 <=> rd.reg = "RPL")
      <4>1. \/ n = 0
            \/ n = 1 /\ rd.reg = "MSG_DATA"
            \/ n = 2 /\ rd.reg = "TOA"
            \/ n = 3 /\ rd.reg = "RPL"
        BY <1>0, <1>1, <2>1, ReadCases
      <4> HIDE DEF n
      <4> QED
        BY <2>3, <4>1
    <3>5. popped = base[u] /\ arrived # popped
      <4>1. Answer(u, 1) = 1
        BY <1>2, <2>3, <3>1, <3>3
      <4> QED
        BY <1>1, <1>2, <1>3, <2>3, <3>1, <3>2, <3>4, <4>1 DEF MessageInv, StatusInv
    <3>6. rdata' = base[u] + 1
      <4>1. rdata' \in Registers[rd.reg]
        BY <1>4 DEF Stages, Taken
      <4> QED
        BY <1>0, <3>4, <3>5, <4>1, RegisterValues DEF FifoShows
    <3>7. \A i \in 2..(n + 1) : Answer(u, i)' = base[u] + 1
      <4>1. \A i \in 2..n : Answer(u, i) = base[u] + 1
        BY <1>1, <1>3, <2>3, <3>1, <3>2 DEF MessageInv
      <4>2. \A i \in 2..n : Answer(u, i)' = base[u] + 1
        BY <1>2, <3>1, <4>1
      <4>3. \A i \in Nat : i = n + 1 => Answer(u, i)' = base[u] + 1
        BY <3>1, <3>6
      <4> HIDE DEF n
      <4>4. \A i \in 2..(n + 1) : i \in 2..n \/ (i \in Nat /\ i = n + 1)
        BY <1>2
      <4> QED
        BY <4>2, <4>3, <4>4
    <3>8. n + 1 = 4 => pop' /\ Staged(u)' /\ arrived' # popped'
      <4>1. n + 1 = 4 => rd.reg = "RPL"
        <5> HIDE DEF n
        <5> QED
          BY <1>2, <3>4
      <4>2. rd.reg = "RPL" => pop' /\ Staged(u)'
        BY <1>4, <3>5 DEF Stages, Taken
      <4>3. arrived' # popped'
        BY <1>2, <1>3, <2>1, <3>5
      <4> QED
        BY <4>1, <4>2, <4>3
    <3> QED
      BY <1>2, <2>1, <3>1, <3>2, <3>5, <3>7, <3>8
  <2> QED
    BY <1>2, <2>2, <2>3
<1>5. CASE ~Stages(u)
  <2>1. /\ Same(u) /\ clean[u] /\ base'[u] = base[u]
        /\ pop => Staged(u) /\ n = 3
        /\ Answered(u) < 4 => popped' = popped
    BY <1>1, <1>5, Undisturbed
  <2>2. Answered(u)' = Answered(u) /\ Answered(u) \in Nat
        /\ \A i \in 2..Answered(u) : Answer(u, i)' = Answer(u, i)
    <3>1. Answered(u) \in Nat
      BY <1>2 DEF Answered
    <3> QED
      BY <2>1, <3>1 DEF Same
  <2>3. /\ \A i \in 2..Answered(u) : Answer(u, i) = base[u] + 1
        /\ Answered(u) < 4 => popped = base[u]
        /\ Answered(u) = 4 =>
             \/ pop /\ Staged(u) /\ popped = base[u] /\ arrived # popped
             \/ ~(pop /\ Staged(u)) /\ popped = base[u] + 1
    BY <1>1, <1>3, <2>1, <2>2 DEF MessageInv
  <2>4. ~(pop' /\ Staged(u)')
    <3>1. CASE Taken
      BY <1>0, <1>5, <2>1, <3>1 DEF Same, Staged, Taken, Types, Accesses
    <3>2. CASE ~Taken
      BY <3>2, BusSteps DEF Given, Kept
    <3> QED
      BY <3>1, <3>2
  <2>5. Answered(u) = 4 => popped' = base[u] + 1
    BY <1>2, <2>1, <2>3, Others
  <2> QED
    BY <2>1, <2>2, <2>3, <2>4, <2>5
<1> QED
  BY <1>4, <1>5

LEMMA TickDebug ==
  ASSUME IInv, Tick, NEW u \in Users
  PROVE  DebugInv(u)'
<1>0. Types /\ ReadBus /\ WriteBus /\ Own /\ FifoShows /\ UserInv(u)
  BY DEF IInv
<1>1. SUFFICES ASSUME call[u].op = "debug", clean'[u]
               PROVE  /\ wr' # None /\ wr'.by = u /\ ~wr'.addr => dbgIndex' = call[u].index
                      /\ Len(got'[u]) = 1 =>
                           /\ dbgIndex' = call[u].index /\ dbgData' = call[u].index
                           /\ Staged(u)' => rdata' = call[u].index
                      /\ Len(got'[u]) = 2 => got'[u][2] = call[u].index
  BY Others DEF DebugInv
<1>2. rd # None /\ rd.by = u => Len(got[u]) = 1 /\ rd.reg = "DBG_DATA"
  BY <1>0, <1>1, ReadCases
<1>3. wr # None /\ wr.by = u => Len(got[u]) = 0 /\ wr.reg = "DBG_INDEX"
  BY <1>0, <1>1, WriteCases
<1>4. got[u] \in Seq(Values) /\ rdata \in Values /\ None \in Values
  BY <1>0 DEF Types, Values
<1>5. \/ Written /\ wr.reg = "DBG_INDEX" /\ wr.by = u
      \/ clean[u] /\ ~(Written /\ wr.reg = "DBG_INDEX")
  <2>1. ~(Taken /\ rd.by = u /\ got[u] = <<>>)
    <3>1. Taken /\ rd.by = u => Len(got[u]) = 1
      BY <1>2 DEF Taken
    <3>2. Len(got[u]) = 1 => got[u] # <<>>
      OBVIOUS
    <3> QED
      BY <3>1, <3>2
  <2> QED
    BY <1>1, <2>1, Others
<1>6. CASE Written /\ wr.reg = "DBG_INDEX" /\ wr.by = u
  <2>1. dbgIndex' = call[u].index
    BY <1>6, Others
  <2>2. wr # None /\ Len(got[u]) = 0
    BY <1>3, <1>6 DEF Written
  <2>3. rd = None \/ rd.by # u
    BY <1>2, <2>2
  <2>4. got'[u] = got[u]
    BY <1>6, <2>3, BusSteps DEF Gains, Given, Acknowledged, Written
  <2>5. Len(got'[u]) = 0
    BY <2>2, <2>4
  <2>6. Len(got'[u]) # 1 /\ Len(got'[u]) # 2
    BY <2>5
  <2> QED
    BY <2>1, <2>6
<1>7. CASE clean[u] /\ ~(Written /\ wr.reg = "DBG_INDEX")
  <2>1. /\ wr # None /\ wr.by = u /\ ~wr.addr => dbgIndex = call[u].index
        /\ Len(got[u]) = 1 => /\ dbgIndex = call[u].index /\ dbgData = call[u].index
                              /\ Staged(u) => rdata = call[u].index
        /\ Len(got[u]) = 2 => got[u][2] = call[u].index
    BY <1>0, <1>1, <1>7 DEF UserInv, DebugInv
  <2>2. dbgIndex' = dbgIndex /\ dbgData' = dbgIndex
    BY <1>7, Others
  <2>3. wr' # None /\ wr'.by = u /\ ~wr'.addr => dbgIndex' = call[u].index
    <3>1. CASE Written
      BY <1>0, <1>3, <1>7, <3>1 DEF Written, Types, Accesses
    <3>2. CASE Acknowledged \/ Held
      BY <2>1, <2>2, <3>2 DEF Acknowledged, Held
    <3> QED
      BY <3>1, <3>2, BusSteps
  <2>4. CASE Stages(u)
    <3>1. Len(got[u]) = 1 /\ rdata' \in Registers["DBG_DATA"] /\ got'[u] = got[u]
      BY <1>2, <2>4 DEF Stages, Taken
    <3>2. rdata' = dbgData
      BY <3>1, RegisterValues
    <3> QED
      BY <2>1, <2>2, <2>3, <3>1, <3>2
  <2>5. CASE Confirms(u)
    <3>1. wr # None /\ wr.by = u /\ ~wr.addr /\ got'[u] = Append(got[u], None) /\ ~Staged(u)'
      BY <2>5 DEF Confirms, Acknowledged
    <3>2. Len(got'[u]) = 1
      BY <1>3, <1>4, <3>1
    <3> QED
      BY <2>1, <2>2, <2>3, <3>1, <3>2
  <2>6. CASE Same(u)
    <3>1. CASE Staged(u) /\ ~Staged(u)' /\ Given /\ got'[u] = Append(got[u], rdata)
      <4>1. Len(got[u]) = 1
        BY <1>2, <3>1 DEF Staged
      <4>2. Len(got'[u]) = 2 /\ got'[u][2] = rdata
        BY <1>4, <3>1, <4>1
      <4> QED
        BY <2>1, <2>3, <3>1, <4>1, <4>2
    <3>2. CASE got'[u] = got[u] /\ (Staged(u)' <=> Staged(u)) /\ (Staged(u) => rdata' = rdata)
      BY <2>1, <2>2, <2>3, <3>2
    <3> QED
      BY <2>6, <3>1, <3>2 DEF Same
  <2> QED
    BY <2>4, <2>5, <2>6, UserSteps
<1> QED
  BY <1>5, <1>6, <1>7

(* The four answers of a look at the PPS registers, n of them so far, since *)
(* the count was b.                                                         *)
PpsAnswers(a, n, b, e) ==
  /\ b <= e
  /\ e = b => /\ a[1] = b % CountWrap
              /\ \A i \in 2..3 : i <= n => a[i] = b
              /\ n = 4 => a[4] = b % CountWrap
  /\ e = b + 1 =>
       /\ \/ a[1] = b % CountWrap
          \/ /\ \A i \in 2..3 : i <= n => a[i] = b + 1
             /\ n = 4 => a[4] = (b + 1) % CountWrap
       /\ n = 4 /\ a[1] = b % CountWrap /\ a[4] = b % CountWrap =>
            \A i \in 2..3 : a[i] = b

Answers(u) == [i \in 1..4 |-> Answer(u, i)]

(* An edge while the answers stay as they are                              *)
LEMMA PpsEdge ==
  ASSUME NEW a, NEW n \in 1..4, NEW b \in Nat, NEW e \in Nat, NEW f \in {e, e + 1},
         PpsAnswers(a, n, b, e)
  PROVE  PpsAnswers(a, n, b, f)
<1>1. CASE f = e
  BY <1>1
<1>2. CASE f = e + 1
  <2>1. b <= f /\ f # b /\ (f = b + 1 => e = b)
    BY <1>2 DEF PpsAnswers
  <2> QED
    BY <2>1 DEF PpsAnswers
<1> QED
  BY <1>1, <1>2

(* The next answer, with or without an edge                                *)
LEMMA PpsAnswer ==
  ASSUME NEW a, NEW c, NEW n \in 1..3, NEW b \in Nat, NEW e \in Nat, NEW f \in {e, e + 1},
         PpsAnswers(a, n, b, e),
         \A i \in 1..n : c[i] = a[i],
         f = e => c[n + 1] = (IF n = 3 THEN e % CountWrap ELSE e)
  PROVE  PpsAnswers(c, n + 1, b, f)
<1>1. CASE n = 1
  <2>1. c[1] = a[1] /\ (f = e => c[2] = e)
    BY <1>1
  <2>2. PpsAnswers(c, 2, b, f)
    BY <1>1, <2>1 DEF PpsAnswers
  <2> QED
    BY <1>1, <2>2
<1>2. CASE n = 2
  <2>1. c[1] = a[1] /\ c[2] = a[2] /\ (f = e => c[3] = e)
    BY <1>2
  <2>2. PpsAnswers(c, 3, b, f)
    BY <1>2, <2>1 DEF PpsAnswers
  <2> QED
    BY <1>2, <2>2
<1>3. CASE n = 3
  <2>1. c[1] = a[1] /\ c[2] = a[2] /\ c[3] = a[3] /\ (f = e => c[4] = e % CountWrap)
    BY <1>3
  <2>2. b % CountWrap # (b + 1) % CountWrap
    BY CountsDiffer
  <2>3. PpsAnswers(c, 4, b, f)
    BY <1>3, <2>1, <2>2 DEF PpsAnswers
  <2> QED
    BY <1>3, <2>3
<1> QED
  BY <1>1, <1>2, <1>3

(* Only the answers so far matter.                                         *)
LEMMA PpsCopy ==
  ASSUME NEW a, NEW c, NEW n \in 1..4, NEW b, NEW e,
         PpsAnswers(a, n, b, e), \A i \in 1..n : c[i] = a[i]
  PROVE  PpsAnswers(c, n, b, e)
<1>1. c[1] = a[1] /\ (n = 4 => c[4] = a[4]) /\ \A i \in 2..3 : i <= n => c[i] = a[i]
  OBVIOUS
<1> QED
  BY <1>1 DEF PpsAnswers

(* PpsInv speaks of the answers of a call that has some.                   *)
LEMMA PpsInvIs ==
  ASSUME NEW u \in Users
  PROVE  PpsInv(u) <=> (call[u].op = "pps" /\ Answered(u) >= 1 /\ clean[u] =>
                          PpsAnswers(Answers(u), Answered(u), base[u], edges))
<1>1. \A i \in 1..4 : Answers(u)[i] = Answer(u, i)
  BY DEF Answers
<1> QED
  BY <1>1 DEF PpsInv, PpsAnswers

LEMMA TickPps ==
  ASSUME IInv, Tick, NEW u \in Users
  PROVE  PpsInv(u)'
<1>0. Types /\ ReadBus /\ WriteBus /\ Own /\ FifoShows /\ UserInv(u)
  BY DEF IInv
<1>1. SUFFICES ASSUME call[u].op = "pps", Answered(u)' >= 1, clean'[u]
               PROVE  PpsAnswers(Answers(u)', Answered(u)', base'[u], edges')
  <2>1. \A i \in 1..4 : Answers(u)'[i] = Answer(u, i)'
    BY DEF Answers
  <2> QED
    BY <2>1, Others DEF PpsInv, PpsAnswers
<1> DEFINE n == Len(got[u])
<1>2. /\ n \in 0..4 /\ edges \in Nat /\ base[u] \in Nat /\ edges' \in {edges, edges + 1}
      /\ Staged(u) => n \in 0..3
  <2>1. n \in Nat /\ edges \in Nat /\ base[u] \in Nat
    BY <1>0 DEF Types
  <2>2. call[u] # NoCall
    BY <1>1 DEF NoCall
  <2>3. n <= 4
    BY <1>0, <1>1, <2>2, Programs DEF Own
  <2>4. Staged(u) => n \in 0..3
    BY <1>0, <1>1, ReadCases DEF Staged
  <2> HIDE DEF n
  <2> QED
    BY <2>1, <2>3, <2>4, Others
<1>3. Answered(u) \in 0..4
  <2>1. Answered(u) = IF Staged(u) THEN n + 1 ELSE n
    BY DEF Answered
  <2> HIDE DEF n
  <2> QED
    BY <1>2, <2>1
<1>4. ~(Written /\ wr.by = u)
  BY <1>0, <1>1, WriteCases DEF Written
<1>5. Answered(u) >= 1 /\ clean[u] => PpsAnswers(Answers(u), Answered(u), base[u], edges)
  BY <1>0, <1>1, PpsInvIs DEF UserInv
<1>6. /\ \A i \in 1..4 : Answers(u)[i] = Answer(u, i)
      /\ \A i \in 1..4 : Answers(u)'[i] = Answer(u, i)'
  BY DEF Answers
<1>7. CASE Stages(u)
  <2>1. /\ Answered(u) = n /\ Answered(u)' = n + 1 /\ rd # None /\ rd.by = u
        /\ rdata' \in Registers[rd.reg]
    BY <1>7 DEF Stages, Taken
  <2>2. \/ n = 0 /\ rd.reg = "PPS_COUNT"
        \/ n = 1 /\ rd.reg = "PPS_CTR_LO"
        \/ n = 2 /\ rd.reg = "PPS_CTR_HI"
        \/ n = 3 /\ rd.reg = "PPS_COUNT"
    BY <1>0, <1>1, <2>1, ReadCases
  <2>3. edges' = edges =>
          rdata' = (IF rd.reg = "PPS_COUNT" THEN edges % CountWrap ELSE edges)
    BY <2>1, <2>2, RegisterValues
  <2>4. \A i \in 1..4 : /\ i <= n => Answers(u)'[i] = Answers(u)[i]
                        /\ i = n + 1 => Answers(u)'[i] = rdata'
    <3>1. \A i \in 1..n : Answer(u, i)' = Answer(u, i)
      BY <1>7 DEF Stages
    <3>2. \A i \in Nat : i = n + 1 => Answer(u, i)' = rdata'
      BY <1>7 DEF Stages
    <3>3. \A i \in 1..4 : i <= n => i \in 1..n
      BY <1>2
    <3> QED
      BY <1>6, <3>1, <3>2, <3>3
  <2>5. CASE n = 0
    <3>1. got[u] = <<>> /\ Taken
      BY <1>0, <1>7, <2>5 DEF Stages, Types
    <3>2. base'[u] = edges
      BY <1>1, <2>1, <3>1, Others
    <3>3. Answers(u)'[1] = rdata' /\ Answered(u)' = 1
      <4> HIDE DEF n
      <4>1. 1 \in 1..4 /\ 1 = n + 1
        BY <2>5
      <4> QED
        BY <2>1, <2>4, <4>1
    <3>4. edges' = edges => rdata' = edges % CountWrap
      BY <2>2, <2>3, <2>5
    <3> QED
      BY <1>2, <3>2, <3>3, <3>4 DEF PpsAnswers
  <2>6. CASE n \in 1..3
    <3>1. got[u] # <<>>
      BY <2>6
    <3>2. clean[u] /\ base'[u] = base[u]
      BY <1>1, <1>4, <3>1, Others
    <3>3. PpsAnswers(Answers(u), n, base[u], edges)
      <4> HIDE DEF n
      <4>1. n >= 1
        BY <2>6
      <4> QED
        BY <1>5, <2>1, <3>2, <4>1
    <3> DEFINE a == Answers(u)
               c == Answers(u)'
    <3>4. \A i \in 1..n : c[i] = a[i]
      <4> HIDE DEF n
      <4>1. \A i \in 1..n : i \in 1..4 /\ i <= n
        BY <2>6
      <4> QED
        BY <2>4, <4>1
    <3>5. edges' = edges => c[n + 1] = (IF n = 3 THEN edges % CountWrap ELSE edges)
      <4>1. rd.reg = "PPS_COUNT" <=> n = 3
        BY <2>2, <2>6
      <4> HIDE DEF n
      <4>2. n + 1 \in 1..4
        BY <2>6
      <4>3. c[n + 1] = rdata'
        BY <2>4, <4>2
      <4> QED
        BY <2>3, <4>1, <4>3
    <3> HIDE DEF n, a, c
    <3>6. PpsAnswers(c, n + 1, base[u], edges')
      BY <1>2, <2>6, <3>3, <3>4, <3>5, PpsAnswer DEF a
    <3> QED
      BY <2>1, <3>2, <3>6 DEF c
  <2> QED
    BY <2>2, <2>5, <2>6
<1>8. CASE Same(u)
  <2>1. /\ Answered(u)' = Answered(u)
        /\ \A i \in 1..Answered(u) : Answer(u, i)' = Answer(u, i)
        /\ ~(Taken /\ rd.by = u)
    BY <1>8 DEF Same
  <2>2. clean[u] /\ base'[u] = base[u]
    BY <1>1, <1>4, <2>1, Others
  <2> DEFINE a == Answers(u)
             c == Answers(u)'
             k == Answered(u)
  <2>3. k \in 1..4
    <3>1. k \in 0..4 /\ k >= 1
      BY <1>1, <1>3, <2>1
    <3> HIDE DEF k
    <3> QED
      BY <3>1
  <2>4. \A i \in 1..k : c[i] = a[i]
    BY <1>6, <2>1, <2>3
  <2>5. PpsAnswers(a, k, base[u], edges)
    BY <1>1, <1>5, <2>1, <2>2
  <2>6. PpsAnswers(c, k, base[u], edges')
    <3> HIDE DEF n, a, c, k
    <3>1. PpsAnswers(a, k, base[u], edges')
      BY <1>2, <2>3, <2>5, PpsEdge
    <3> QED
      BY <2>3, <2>4, <3>1, PpsCopy
  <2> QED
    BY <2>1, <2>2, <2>6
<1>9. ~Confirms(u)
  BY <1>0, <1>1, WriteCases DEF Confirms, Acknowledged
<1> QED
  BY <1>7, <1>8, <1>9, UserSteps

LEMMA TickIInv ==
  ASSUME IInv, Tick
  PROVE  IInv'
<1>1. \A u \in Users : UserInv(u)'
  BY TickStatus, TickMessage, TickDebug, TickPps DEF UserInv
<1> QED
  BY <1>1, TickBus DEF IInv

----------------------------------------------------------------------------

THEOREM Invariant == Spec => []IInv
<1>1. IInv /\ [Next]_vars => IInv'
  <2> SUFFICES ASSUME IInv, [Next]_vars PROVE IInv'
    OBVIOUS
  <2>1. ASSUME NEW u \in Users, NEW c \in Calls, Begin(u, c) PROVE IInv'
    BY <2>1, BeginIInv
  <2>2. ASSUME NEW u \in Users, Issue(u) PROVE IInv'
    BY <2>2, IssueIInv
  <2>3. ASSUME NEW u \in Users, Return(u) PROVE IInv'
    BY <2>3, ReturnIInv
  <2>4. CASE Tick
    BY <2>4, TickIInv
  <2>5. CASE Reset
    BY <2>5, ResetIInv
  <2>6. CASE UNCHANGED vars
    BY <2>6, StutterIInv
  <2> QED
    BY <2>1, <2>2, <2>3, <2>4, <2>5, <2>6 DEF Next
<1> QED
  BY <1>1, InitIInv, PTL DEF Spec

(* A call that has all its answers has no read on the bus.                 *)
LEMMA AllDelivered ==
  ASSUME IInv, NEW u \in Users, call[u] # NoCall, Finished(u)
  PROVE  /\ ~Staged(u) /\ Answered(u) = Len(got[u])
         /\ \A i \in 1..Len(got[u]) : Answer(u, i) = got[u][i]
<1>1. Types /\ Own
  BY DEF IInv
<1>2. ~Staged(u)
  BY <1>1 DEF Own, IsNext, Staged
<1>3. Len(got[u]) \in Nat
  BY <1>1 DEF Types
<1> QED
  BY <1>2, <1>3 DEF Answered, Answer

(* ReadMessage returns one message, whole, and takes it from the FIFO once, *)
(* as long as no other user takes one in the course of the call.            *)
THEOREM MessagesAreWhole == Spec => []MessagesWhole
<1>1. IInv => MessagesWhole
  <2> SUFFICES ASSUME IInv, NEW u \in Users, call[u].op = "message", Len(got[u]) = 4, clean[u]
               PROVE  /\ popped = base[u] + 1
                      /\ \A i \in 2..4 : got[u][i] = popped
    BY DEF MessagesWhole
  <2>1. call[u] # NoCall /\ Finished(u)
    BY Programs DEF NoCall, Finished
  <2>2. ~Staged(u) /\ Answered(u) = 4 /\ \A i \in 1..4 : Answer(u, i) = got[u][i]
    BY <2>1, AllDelivered
  <2>3. MessageInv(u)
    BY DEF IInv, UserInv
  <2>4. popped = base[u] + 1 /\ \A i \in 2..4 : Answer(u, i) = base[u] + 1
    BY <2>2, <2>3 DEF MessageInv
  <2> QED
    BY <2>2, <2>4
<1> QED
  BY <1>1, Invariant, PTL

(* ReadDbg and ReadPpsStable return what one moment held, under the same    *)
(* condition, and for the latter as long as no two edges come in one call.  *)
THEOREM CompoundReadsAreAtomic == Spec => []CompoundReadsAtomic
<1>1. IInv => CompoundReadsAtomic
  <2> SUFFICES ASSUME IInv, NEW u \in Users, clean[u]
               PROVE  /\ call[u].op = "debug" /\ Len(got[u]) = 2 => got[u][2] = call[u].index
                      /\ call[u].op = "pps" /\ Finished(u) /\ ~Torn(u) /\ edges <= base[u] + 1 =>
                           \E e \in {base[u], base[u] + 1} :
                             got[u][1] = e % CountWrap /\ got[u][2] = e /\ got[u][3] = e
    BY DEF CompoundReadsAtomic
  <2>1. DebugInv(u) /\ PpsInv(u) /\ Types
    BY DEF IInv, UserInv
  <2>2. call[u].op = "debug" /\ Len(got[u]) = 2 => got[u][2] = call[u].index
    BY <2>1 DEF DebugInv
  <2>3. ASSUME call[u].op = "pps", Finished(u), ~Torn(u), edges <= base[u] + 1
        PROVE  \E e \in {base[u], base[u] + 1} :
                 got[u][1] = e % CountWrap /\ got[u][2] = e /\ got[u][3] = e
    <3>1. call[u] # NoCall /\ Len(got[u]) = 4
      BY <2>3, Programs DEF NoCall, Finished
    <3>2. Answered(u) = 4 /\ \A i \in 1..4 : Answer(u, i) = got[u][i]
      BY <2>3, <3>1, AllDelivered
    <3>3. /\ base[u] \in Nat /\ edges \in Nat /\ base[u] <= edges
          /\ PpsAnswers(got[u], 4, base[u], edges)
      BY <2>1, <2>3, <3>2 DEF PpsInv, PpsAnswers, Types
    <3>4. got[u][1] = got[u][4]
      BY <2>3 DEF Torn
    <3>5. edges = base[u] \/ edges = base[u] + 1
      BY <2>3, <3>3
    <3>6. CASE edges = base[u]
      BY <3>3, <3>6 DEF PpsAnswers
    <3>7. CASE edges = base[u] + 1
      <4>1. got[u][1] = base[u] % CountWrap =>
              got[u][2] = base[u] /\ got[u][3] = base[u]
        BY <3>3, <3>4, <3>7 DEF PpsAnswers
      <4>2. got[u][1] # base[u] % CountWrap =>
              /\ got[u][2] = base[u] + 1 /\ got[u][3] = base[u] + 1
              /\ got[u][1] = (base[u] + 1) % CountWrap
        BY <3>3, <3>4, <3>7 DEF PpsAnswers
      <4> QED
        BY <4>1, <4>2
    <3> QED
      BY <3>5, <3>6, <3>7
  <2> QED
    BY <2>2, <2>3
<1> QED
  BY <1>1, Invariant, PTL
=============================================================================
